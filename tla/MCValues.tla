------------------------------ MODULE MCValues ------------------------------
(***************************************************************************)
(* The values of the symbolic interpreter, for TLC: every method of the    *)
(* two bitvector representations on small vectors, Exp::eval on small      *)
(* expressions, and every primitive operation on concrete operands and on  *)
(* the same operands made symbolic or mixed.  Each behaviour chooses one   *)
(* call and performs it.                                                   *)
(***************************************************************************)
EXTENDS Primops, TLC

CONSTANTS
    Positions,  \* integers used as shifts and positions of vectors
    Ints        \* integer operands

\* Negative, zero, in range, and past the longest vector.
MCPositions == -1 .. Word + 1
\* Values that wrap when multiplied, and that do not fit an i64.
MCInts == {-9, -4, -1, 0, 1, 2, 3, 7}

VARIABLES call, result
vars == <<call, result>>

\* B129 has a double word where B64 has a word, and one bit more.
D == INSTANCE B129
B64Value(x) == x.bits
B129Value(x) == x.bits + (IF x.tag THEN 2 ^ Word ELSE 0)
S64 == INSTANCE BVSpec WITH Value <- B64Value, MAX_WIDTH <- C!MAX_WIDTH, New <- C!New, BvLen <-
    C!BvLen, Zeros <- C!Zeros, Ones <- C!Ones, LeadingZeros <- C!LeadingZeros, TrailingZeros <-
    C!TrailingZeros, BitNot <- C!BitNot, BitXor <- C!BitXor, BitOr <- C!BitOr, BitAnd <-
    C!BitAnd, Neg <- C!Neg, Add <- C!Add, Sub <- C!Sub, AddI128 <- C!AddI128, ZeroExtend <-
    C!ZeroExtend, SignExtend <- C!SignExtend, Unsigned <- C!Unsigned, Signed <- C!Signed, Slice
    <- C!Slice, SetSlice <- C!SetSlice, SetSliceInt <- C!SetSliceInt, GetSliceInt <-
    C!GetSliceInt, BvAppend <- C!BvAppend, Extract <- C!Extract, ShiftR <- C!ShiftR, ShiftL <-
    C!ShiftL, ArithShiftR <- C!ArithShiftR, TruncateLsb <- C!TruncateLsb, Replicate <-
    C!Replicate, ToVec <- C!ToVec
S129 == INSTANCE BVSpec WITH Value <- B129Value, MAX_WIDTH <- D!MAX_WIDTH, New <- D!New, BvLen
    <- D!BvLen, Zeros <- D!Zeros, Ones <- D!Ones, LeadingZeros <- D!LeadingZeros, TrailingZeros
    <- D!TrailingZeros, BitNot <- D!BitNot, BitXor <- D!BitXor, BitOr <- D!BitOr, BitAnd <-
    D!BitAnd, Neg <- D!Neg, Add <- D!Add, Sub <- D!Sub, AddI128 <- D!AddI128, ZeroExtend <-
    D!ZeroExtend, SignExtend <- D!SignExtend, Unsigned <- D!Unsigned, Signed <- D!Signed, Slice
    <- D!Slice, SetSlice <- D!SetSlice, SetSliceInt <- D!SetSliceInt, GetSliceInt <-
    D!GetSliceInt, BvAppend <- D!BvAppend, Extract <- D!Extract, ShiftR <- D!ShiftR, ShiftL <-
    D!ShiftL, ArithShiftR <- D!ArithShiftR, TruncateLsb <- D!TruncateLsb, Replicate <-
    D!Replicate, ToVec <- D!ToVec
-----------------------------------------------------------------------------
(***************************************************************************)
(* Expressions of depth two over a Boolean, a vector that fits a word and  *)
(* one that does not.                                                      *)
(***************************************************************************)
Narrow == 2
Wide == Word + 1
EVars == {<<1, BoolSort>>, <<2, Narrow>>, <<3, Wide>>}
Sort(w) == {<<w, n>> : n \in 0 .. 2 ^ w - 1}
Constants(w) == {bits64(n, w) : n \in {0, 1, 2 ^ w - 1}}
FoldedOps == {"and", "or", "eq", "concat", "bvult", "bvand", "bvor", "bvxor", "bvadd", "bvsub", "bvmul",
              "bvshl", "bvlshr"}
Leaves == {Var(v) : v \in EVars} \cup {Bool(TRUE), Bool(FALSE)} \cup Constants(Narrow) \cup Constants(Wide)
\* One more operator around e, with f beside it.
Around(e, f) ==
    {Un(op, e) : op \in {"not", "bvnot", "bvneg"}}
    \cup {Bin(op, e, f) : op \in FoldedOps} \cup {Bin(op, f, e) : op \in FoldedOps}
    \cup {Extract(r[1], r[2], e) : r \in {<<0, 0>>, <<2, 1>>}}
    \cup {Extend(op, n, e) : op \in {"zero_extend", "sign_extend"}, n \in 1 .. 2}
    \cup {Ite(e, f, Var(<<2, Narrow>>)), Ite(f, e, Var(<<2, Narrow>>)), Ite(Var(<<1, BoolSort>>), e, f)}
\* The definitions that CloneExpand puts in for the variables.
Defs == <<2, Narrow>> :> Un("bvnot", Var(<<4, Narrow>>)) @@ <<3, Wide>> :> Extend("zero_extend", 2, Var(<<2, Narrow>>))
DVars == {<<1, BoolSort>>, <<4, Narrow>>}
Envs(vs) ==
    LET bools == {v \in vs : v[2] = BoolSort}
        vectors == vs \ bools
    IN  {f @@ g : f \in [bools -> BOOLEAN],
                  g \in {h \in [vectors -> UNION {Sort(v[2]) : v \in vectors}] : \A v \in vectors : h[v][1] = v[2]}}
-----------------------------------------------------------------------------
(***************************************************************************)
(* Primitive operations.  A call names an operation, its operands and, for *)
(* every operand, a form: "c" concrete, "s" a variable, "h" and "l" mixed, *)
(* with the highest or the lowest bit a variable.                          *)
(***************************************************************************)
SortOf(v) == CASE v.k = "bits" -> v.b.len [] v.k = "int" -> IW [] v.k = "i64" -> Word [] v.k = "bool" -> BoolSort
InForm(i, v, f) ==
    CASE f = "c" -> v
      [] f = "s" -> Sym(Var(<<i, SortOf(v)>>))
      [] f = "h" -> Mixed(<<Sym(Var(<<i, 1>>)), BitsV(C!Slice(v.b, 0, v.b.len - 1))>>)
      [] f = "l" -> Mixed(<<BitsV(C!Slice(v.b, 1, v.b.len - 1)), Sym(Var(<<i, 1>>))>>)
FormsOf(v) == IF v.k = "bits" THEN IF v.b.len = 1 THEN {"c", "s"} ELSE {"c", "s", "h", "l"}
              ELSE IF v.k \in {"int", "i64", "bool"} THEN {"c", "s"} ELSE {"c"}

\* What a value stands for when the variables have the values of env.
RECURSIVE Meaning(_, _)
Meaning(v, env) ==
    CASE v.k = "sym" -> Denote(v.e, env)
      [] v.k = "bits" -> <<v.b.len, v.b.bits>>
      [] v.k = "int" -> <<IW, v.n % 2 ^ IW>>
      [] v.k = "i64" -> <<Word, v.n % 2 ^ Word>>
      [] v.k = "bool" -> v.b
      [] v.k = "mixed" -> FoldLeft(LAMBDA m, s : LET t == Meaning(s, env) IN <<m[1] + t[1], m[2] * 2 ^ t[1] + t[2]>>,
                                   <<0, 0>>, v.segs)
      [] v.k \in {"vector", "struct"} -> [i \in DOMAIN v.items |-> Meaning(v.items[i], env)]
      [] v.k = "ctor" -> <<v.name, Meaning(v.v, env)>>
      [] v.k = "err" -> <<-1, 0>>

\* A symbolic constructor may be any of its possibilities.
Possible(v, env) ==
    IF v.k = "symctor" THEN {<<c, Meaning(v.of[c], env)>> : c \in DOMAIN v.of} ELSE {Meaning(v, env)}

\* The values of the variables that stand for the operands in forms.
EnvOf(args, forms) ==
    LET hidden == {i \in DOMAIN args : forms[i] # "c"}
        whole(i) == Meaning(args[i], <<>>)
        sort(i) == IF forms[i] = "s" THEN SortOf(args[i]) ELSE 1
    IN  [v \in {<<i, sort(i)>> : i \in hidden} |->
            CASE forms[v[1]] = "s" -> whole(v[1])
              [] forms[v[1]] = "h" -> <<1, whole(v[1])[2] \div 2 ^ (whole(v[1])[1] - 1)>>
              [] forms[v[1]] = "l" -> <<1, whole(v[1])[2] % 2>>]

WellFormed(v) ==
    CASE v.k = "sym" -> WellSorted(v.e)
      [] v.k = "mixed" -> \A i \in DOMAIN v.segs : Symbolic(v.segs[i]) => WellSorted(v.segs[i].e)
      [] v.k \in {"vector", "struct"} -> \A i \in DOMAIN v.items : Symbolic(v.items[i]) => WellSorted(v.items[i].e)
      [] OTHER -> TRUE

IntOps == IntResults \cup {"eq_int", "lteq", "gteq", "lt", "gt"}
UnaryInt == {"neg_int", "abs_int", "pow2", "i128_to_i64"}
UnaryBits == {"not_bits", "sail_unsigned", "sail_signed", "op_unsigned", "op_signed", "count_leading_zeros",
              "count_trailing_zeros"}
UnaryOther == {"not", "i64_to_i128", "bit_to_bool", "one_if", "zero_if"}
EqualLength == BitsOps \cup {"eq_bits", "neq_bits", "neq_anything"}
Ctor(name, v) == [k |-> "ctor", name |-> name, v |-> v]
Struct(x, y) == [k |-> "struct", items |-> <<x, y>>]
UnaryOn(op, x) ==
    CASE op = "not" -> not_bool(x) [] op = "not_bits" -> not_bits(x) [] op = "neg_int" -> neg_int(x)
      [] op = "abs_int" -> abs_int(x) [] op = "pow2" -> pow2(x) [] op = "i64_to_i128" -> i64_to_i128(x)
      [] op = "i128_to_i64" -> i128_to_i64(x) [] op = "bit_to_bool" -> bit_to_bool(x)
      [] op = "op_unsigned" -> op_unsigned(x) [] op = "op_signed" -> op_signed(x)
      [] op = "sail_unsigned" -> sail_unsigned(x) [] op = "sail_signed" -> sail_signed(x)
      [] op = "one_if" -> one_if(x) [] op = "zero_if" -> zero_if(x)
Perform(op, a) ==
    CASE op = "add_int" -> add_int(a[1], a[2])
      [] op \in (IntOps \cup I64Ops \cup EqualLength \cup {"eq_bool"}) -> BinaryPrimop(op, a[1], a[2])
      [] op \in {"and_bool", "or_bool"} -> Connective(op, a[1], a[2])
      [] op \in {"count_leading_zeros", "count_trailing_zeros"} -> CountZeros(op, a[1])
      [] op \in UnaryInt \cup UnaryBits \cup UnaryOther -> UnaryOn(op, replace_mixed_bits(a[1]))
      [] op \in {"zero_extend", "sign_extend"} -> Extension(op, a[1], a[2].n)
      [] op = "replicate_bits" -> replicate_bits(a[1], a[2].n)
      [] op \in {"add_bits_int", "sub_bits_int"} -> add_bits_int(op, a[1], a[2])
      [] op \in {"shiftr", "shiftl", "arith_shiftr"} -> Shift(op, a[1], a[2])
      [] op \in {"shift_bits_left", "shift_bits_right"} -> ShiftBits(op, a[1], a[2])
      [] op = "append" -> BitsAppend(a[1], a[2])
      [] op = "slice" -> slice_internal(a[1], a[2], a[3].n)
      [] op = "op_slice" -> op_slice(a[1], a[2], a[3].n)
      [] op = "subrange" -> subrange_internal(a[1], a[2].n + a[3].n - 1, a[2].n)
      [] op = "truncate_lsb" -> sail_truncate_lsb(a[1], a[2].n)
      [] op = "truncate" -> sail_truncate(a[1], a[2].n)
      [] op = "get_slice_int" -> get_slice_int(a[3].n, a[1], a[2])
      [] op = "vector_access" -> vector_access(a[1], a[2])
      [] op = "access_items" -> vector_access(Vector(<<a[1], a[2]>>), a[3])
      [] op = "set_slice" -> set_slice_internal(a[1], a[2], a[3])
      [] op = "op_set_slice" -> op_set_slice(a[1], a[2], a[3])
      [] op = "set_slice_int" -> set_slice_int(a[1], a[2], a[3])
      [] op = "vector_update" -> vector_update(a[1], a[2], a[3])
      [] op = "update_items" -> vector_update(Vector(<<a[1], a[1]>>), a[2], a[3])
      [] op = "align_bits" -> align_bits(a[1], a[2])
      [] op = "ite" -> ite(a[1], a[2], a[3])
      [] op = "ite_struct" -> ite(a[1], Struct(a[2], a[3]), Struct(a[3], a[2]))
      [] op = "ite_ctors" -> ite(a[1], Ctor(1, a[2]), Ctor(a[4].n, a[3]))
      [] op = "ite_symctor" -> ite(a[1], Ctor(1, a[2]), [k |-> "symctor", of |-> <<a[3], a[2]>>])
      [] op = "ite_phi" -> ite_phi(<<a[1], a[2], a[1]>>, <<a[3], a[4], a[3]>>)
      [] op = "op_eq" -> op_eq(a[1], a[2])
      [] op = "op_neq" -> op_neq(a[1], a[2])
      [] op = "eq_struct" -> eq_anything(Struct(a[1], a[2]), Struct(a[3], a[4]))
      [] op = "eq_ctor" -> eq_anything(Ctor(a[3].n, a[1]), Ctor(1, a[2]))
-----------------------------------------------------------------------------
(***************************************************************************)
(* What Sail's types and the callers guarantee of the operands, and two    *)
(* more conditions: a shift amount is cut to the vector's width in the     *)
(* solver, so it must fit; and a zero vector sliced at an unknown position *)
(* keeps its length.                                                       *)
(***************************************************************************)
Lengths(op) ==  \* the operands that must be concrete
    CASE op \in {"zero_extend", "sign_extend", "replicate_bits", "truncate", "truncate_lsb"} -> {2}
      [] op \in {"slice", "op_slice", "get_slice_int", "eq_ctor"} -> {3}
      [] op = "ite_ctors" -> {4}
      [] op = "subrange" -> {2, 3}
      [] OTHER -> {}
Pre(op, a, f) ==
    CASE op \in {"tdiv_int", "tmod_int", "ediv_int", "emod_int"} -> a[2].n # 0
      [] op = "udiv_int" -> a[1].n >= 0 /\ a[2].n > 0
      [] op \in {"shl_int", "shr_int"} -> a[2].n \in 0 .. IW - 1
      [] op = "pow2" -> a[1].n \in 0 .. IW - 2
      [] op = "i128_to_i64" -> a[1].n = WrapInt(Word, a[1].n)
      [] op \in {"zero_extend", "sign_extend"} -> a[2].n >= a[1].b.len
      [] op = "replicate_bits" -> a[2].n > 0 /\ a[2].n * a[1].b.len <= Word
      [] op \in {"add_bits_int", "sub_bits_int"} -> f[1] \in {"c", "s"}
      [] op \in {"shiftr", "shiftl", "arith_shiftr"} -> a[2].n \in 0 .. 2 ^ a[1].b.len - 1
      [] op \in {"shift_bits_left", "shift_bits_right"} -> a[2].b.bits < 2 ^ a[1].b.len
      [] op = "append" -> a[1].b.len + a[2].b.len <= Word
      [] op \in {"slice", "op_slice"} ->
            /\ a[2].n >= 0 /\ a[3].n > 0 /\ a[2].n + a[3].n <= a[1].b.len
            /\ (f[1] = "c" /\ f[2] = "s" /\ a[1].b.bits = 0) => a[3].n = a[1].b.len
      [] op = "subrange" -> a[2].n >= 0 /\ a[3].n > 0 /\ a[2].n + a[3].n <= a[1].b.len
      [] op \in {"truncate", "truncate_lsb"} -> a[2].n \in 1 .. a[1].b.len
      [] op = "get_slice_int" -> a[2].n >= 0 /\ a[3].n \in 1 .. Word /\ a[2].n + a[3].n <= IW
      [] op = "vector_access" -> a[2].n \in 0 .. a[1].b.len - 1
      [] op = "vector_update" -> a[2].n \in 0 .. a[1].b.len - 1 /\ a[3].b.len = 1
      [] op \in {"set_slice", "op_set_slice"} -> a[2].n >= 0 /\ a[2].n + a[3].b.len <= a[1].b.len
      [] op = "set_slice_int" -> a[2].n >= 0 /\ a[2].n + a[3].b.len <= IW
      [] op = "access_items" -> a[1].b.len = a[2].b.len /\ a[3].n \in 0 .. 1 /\ {f[1], f[2]} \subseteq {"c", "s"}
      [] op = "update_items" -> a[1].b.len = a[3].b.len /\ a[2].n \in 0 .. 1 /\ {f[1], f[3]} \subseteq {"c", "s"}
      [] op = "align_bits" -> a[2].n > 0
      [] op \in {"ite", "ite_struct", "ite_ctors", "ite_symctor"} -> a[2].b.len = a[3].b.len /\ {f[2], f[3]} \subseteq {"c", "s"}
      [] op = "ite_phi" -> f[1] = "s" /\ f[2] = "s" /\ a[3].b.len = a[4].b.len /\ {f[3], f[4]} \subseteq {"c", "s"}
      [] op \in EqualLength -> a[1].b.len = a[2].b.len
      [] op \in {"op_eq", "op_neq", "eq_ctor"} -> a[1].b.len = a[2].b.len
      [] op = "eq_struct" -> a[1].b.len = a[3].b.len /\ a[2].b.len = a[4].b.len
      [] OTHER -> TRUE
-----------------------------------------------------------------------------
Init == call = [kind |-> "none"] /\ result = <<>>
Idle == call.kind = "none"

B64Vectors(w) == {C!New(n, w) : n \in 0 .. 2 ^ w - 1}
B129Vectors(w) == {D!B(w, n >= 2 ^ Word, n % 2 ^ Word) : n \in 0 .. 2 ^ w - 1}

\* The methods of a pair of vectors, in both representations.
CallB64 ==
    /\ Idle
    /\ \E w \in 0 .. Word, i \in Positions, j \in 0 .. Word + 1 : \E x, y \in B64Vectors(w) :
        /\ call' = [kind |-> "B64", x |-> x, y |-> y, i |-> i, j |-> j]
        /\ result' = S64!Methods(x, y, i, j)
CallB129 ==
    /\ Idle
    /\ \E w \in 0 .. Word + 1, i \in Positions, j \in 0 .. Word + 1 : \E x, y \in B129Vectors(w) :
        /\ call' = [kind |-> "B129", x |-> x, y |-> y, i |-> i, j |-> j]
        /\ result' = S129!Methods(x, y, i, j)

\* An expression grows by one operator at a time; each is simplified.
BuildExp ==
    \E e \in Leaves : \E f \in (IF Idle THEN Leaves ELSE {Var(<<2, Narrow>>), Bool(FALSE), bits64(1, Narrow)}) :
    \E g \in (IF Idle THEN Around(e, f) ELSE IF call.kind = "exp" /\ call.depth < 2 THEN Around(call.e, f) ELSE {}) :
        /\ WellSorted(g)
        /\ call' = [kind |-> "exp", depth |-> IF Idle THEN 1 ELSE 2, e |-> g]
        /\ result' = [eval |-> Eval(g), expanded |-> CloneExpand(g, Defs), variables |-> Variables(g)]

Primop(op, args) ==
    \E forms \in {f \in [DOMAIN args -> {"c", "s", "h", "l"}] :
                    \A i \in DOMAIN args : f[i] \in (IF i \in Lengths(op) THEN {"c"} ELSE FormsOf(args[i]))} :
        /\ Pre(op, args, forms)
        /\ call' = [kind |-> "primop", op |-> op, args |-> args, forms |-> forms]
        /\ result' = Perform(op, [i \in DOMAIN args |-> InForm(i, args[i], forms[i])])

VectorsOf(w) == {BitsV(b) : b \in B64Vectors(w)}
Vectors == UNION {VectorsOf(w) : w \in 1 .. Word}
Bools == {BoolV(TRUE), BoolV(FALSE)}
IntVs == {IntV(n) : n \in Ints}
I64Vs == {I64V(n) : n \in -(2 ^ (Word - 1)) .. 2 ^ (Word - 1) - 1}
PosVs == {IntV(n) : n \in Positions}

\* The calls of each kind, <<operation, operands>>.
OnInts ==
    {<<op, <<x, y>>>> : op \in IntOps, x, y \in IntVs} \cup {<<op, <<x, y>>>> : op \in I64Ops, x, y \in I64Vs}
    \cup {<<op, <<x>>>> : op \in UnaryInt, x \in IntVs} \cup {<<"i64_to_i128", <<x>>>> : x \in I64Vs}
    \cup {<<"get_slice_int", <<x, n, len>>>> : x \in IntVs, n, len \in PosVs}
OnBools ==
    {<<op, <<x, y>>>> : op \in {"and_bool", "or_bool", "eq_bool"}, x, y \in Bools}
    \cup {<<op, <<x>>>> : op \in {"not", "one_if", "zero_if"}, x \in Bools}
    \cup {<<"bit_to_bool", <<x>>>> : x \in VectorsOf(1)}
OnBits ==
    {<<op, <<x>>>> : op \in UnaryBits, x \in Vectors}
    \cup {<<op, <<x, y>>>> : op \in EqualLength \cup {"append", "op_eq", "op_neq", "shift_bits_left", "shift_bits_right"},
                            x, y \in Vectors}
    \cup {<<op, <<c, x, y>>>> : op \in {"ite", "ite_struct", "ite_symctor"}, c \in Bools, x, y \in Vectors}
    \cup {<<"ite_ctors", <<c, x, y, n>>>> : c \in Bools, x, y \in VectorsOf(2), n \in {IntV(1), IntV(2)}}
    \cup {<<"ite_phi", <<b, c, x, y>>>> : b, c \in Bools, x, y \in VectorsOf(2)}
    \cup {<<"eq_ctor", <<x, y, n>>>> : n \in {IntV(1), IntV(2)}, x, y \in VectorsOf(2)}
    \cup {<<"eq_struct", <<x, y, x, z>>>> : x \in VectorsOf(1), y, z \in VectorsOf(2)}
WithPosition ==
    {<<op, <<x, n>>>> : op \in {"zero_extend", "sign_extend", "replicate_bits", "add_bits_int", "sub_bits_int", "shiftr",
                               "shiftl", "arith_shiftr", "truncate", "truncate_lsb", "vector_access", "align_bits"},
                       x \in Vectors, n \in PosVs}
    \cup {<<op, <<x, n, len>>>> : op \in {"slice", "subrange"}, x \in Vectors, n, len \in PosVs}
    \cup {<<op, <<x, n, u>>>> : op \in {"set_slice", "vector_update", "update_items"}, x, u \in Vectors, n \in PosVs}
    \cup {<<"op_slice", <<x, n, len>>>> : x \in Vectors, n \in I64Vs, len \in PosVs}
    \cup {<<"op_set_slice", <<x, n, u>>>> : x, u \in Vectors, n \in I64Vs}
    \cup {<<"set_slice_int", <<i, n, x>>>> : i \in IntVs, n \in PosVs, x \in Vectors}
    \cup {<<"access_items", <<x, y, n>>>> : x, y \in Vectors, n \in PosVs}
CallPrimop == Idle /\ \E c \in UNION {OnInts, OnBools, OnBits, WithPosition} : Primop(c[1], c[2])

Next == CallB64 \/ CallB129 \/ BuildExp \/ CallPrimop
Spec == Init /\ [][Next]_vars
-----------------------------------------------------------------------------
\* Every method of B64 computes what it promises on naturals: arithmetic
\* modulo the length, shifts in both directions, slices that fit, and None
\* where the result does not fit a word; the bytes of a vector make it again.
\* The exception is set_slice of an empty update at the end of a vector of
\* full length: it shifts a word by its own width, which clears the vector
\* (and panics in a debug build).
B64MeetsContract ==
    call.kind = "B64" =>
    LET promised == S64!Promised(call.x, call.y, call.i, call.j)
    IN
    /\ \A m \in DOMAIN promised :
        \/ result[m] = promised[m]
        \/ m = "set_slice" /\ call.j = Word /\ call.x.len = Word
    /\ C!FromBytes(C!ToBeBytes(call.x)) = call.x

\* The same of B129, whose values straddle a double word and the tag bit,
\* except two methods: trailing_zeros of a zero vector ignores its length, and
\* adding the integer zero to a vector of full length flips its tag.
B129MeetsContract ==
    call.kind = "B129" =>
    LET promised == S129!Promised(call.x, call.y, call.i, call.j)
    IN  \A m \in DOMAIN promised :
            \/ result[m] = promised[m]
            \/ m = "trailing_zeros" /\ D!IsZero(call.x)
            \/ m = "add_i128" /\ call.i = 0 /\ call.x.len = Word + 1

\* eval may only fold constants: the simplified expression has the same sort
\* and no new variables, is still well-sorted, and has the same value whatever
\* the variables are.  clone_expand of an expression has the value that the
\* expression has when the variables have the values of their definitions.
EvalKeepsMeaning ==
    call.kind = "exp" =>
    /\ WellSorted(result.eval) /\ Infer(result.eval) = Infer(call.e)
    /\ Variables(result.eval) \subseteq result.variables
    /\ \A env \in Envs(result.variables) : Denote(result.eval, env) = Denote(call.e, env)
    /\ \A env \in Envs(DVars) :
        LET x == Denote(Defs[<<2, Narrow>>], env)
            all == env @@ <<2, Narrow>> :> x @@ <<3, Wide>> :> Denote(Defs[<<3, Wide>>], <<2, Narrow>> :> x)
        IN  Denote(result.expanded, env) = Denote(call.e, all)

\* A primitive operation means the same whichever of its operands are
\* concrete, symbolic or mixed: the term it builds is well-sorted, and has the
\* value that the operation computes on the concrete operands.
Agrees ==
    LET env == EnvOf(call.args, call.forms)
        exact == Possible(Perform(call.op, [i \in DOMAIN call.args |->
                            IF call.op = "ite_phi" /\ i <= 2 THEN Sym(Bool(call.args[i].b)) ELSE call.args[i]]), <<>>)
    IN  /\ WellFormed(result) /\ exact \subseteq Possible(result, env)
        /\ result.k # "symctor" => exact = Possible(result, env)

\* All of them do, except count_trailing_zeros: smt_ctz has the body of smt_clz.
PrimopsAgree == call.kind = "primop" /\ call.op # "count_trailing_zeros" => Agrees
=============================================================================
