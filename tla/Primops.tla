------------------------------- MODULE Primops ------------------------------
(***************************************************************************)
(* The primitive operations of Sail, isla-lib/src/primop.rs and            *)
(* primop_util.rs.  Every one has a branch for concrete operands, computed *)
(* on B64 or on machine integers, and branches for symbolic operands,      *)
(* which build an SMT expression.  A symbolic value is represented by the  *)
(* expression its variable is defined to be (define_const).                *)
(*                                                                         *)
(* A value is a record with a kind k: "bits" (b, a B64), "int" (n, an      *)
(* i128), "i64" (n), "bool" (b), "sym" (e), "mixed" (segs, the most        *)
(* significant segment first), "vector", "list" and "struct" (items),      *)
(* "ctor" (name and v), "symctor" (of, a value for every constructor it    *)
(* may be), "err".                                                         *)
(***************************************************************************)
EXTENDS SmtExp

CONSTANTS
    IW,     \* bits of i128; Word is the number of bits of i64 and of a B64
    Byte

ASSUME WidthAssumption == Word \in Nat /\ IW \in Nat /\ Word > 0 /\ IW > Word

C == INSTANCE B64

Sym(e) == [k |-> "sym", e |-> e]
BitsV(b) == [k |-> "bits", b |-> b]
IntV(n) == [k |-> "int", n |-> n]
I64V(n) == [k |-> "i64", n |-> n]
BoolV(b) == [k |-> "bool", b |-> b]
Mixed(segs) == [k |-> "mixed", segs |-> segs]
Vector(items) == [k |-> "vector", items |-> items]
Err(why) == [k |-> "err", why |-> why]
Symbolic(v) == v.k = "sym"
FromOption(b) == IF C!Failed(b) THEN Err("type") ELSE BitsV(b)

smt_sbits(b) == bits64(b.bits, b.len)
smt_i128(n) == bits64(n, IW)
smt_value(v) ==
    CASE v.k = "sym" -> v.e
      [] v.k = "bits" -> smt_sbits(v.b)
      [] v.k = "int" -> smt_i128(v.n)
      [] v.k = "i64" -> bits64(v.n, Word)
      [] v.k = "bool" -> Bool(v.b)

length_bits(v) ==
    CASE v.k = "bits" -> v.b.len
      [] v.k = "sym" -> Infer(v.e)
      [] v.k = "mixed" -> FoldLeft(LAMBDA n, s : n + (IF Symbolic(s) THEN Infer(s.e) ELSE s.b.len), 0, v.segs)
-----------------------------------------------------------------------------
(***************************************************************************)
(* Mixed vectors.  Neighbouring concrete segments are joined while they    *)
(* fit into a B64; what is left is concatenated in the solver.             *)
(***************************************************************************)
PushSegment(segs, s) ==
    IF /\ segs # <<>> /\ ~Symbolic(s) /\ ~Symbolic(Last(segs))
       /\ Last(segs).b.len + s.b.len <= C!MAX_WIDTH
    THEN [segs EXCEPT ![Len(segs)] = BitsV(C!BvAppend(@.b, s.b))]
    ELSE Append(segs, s)

flatten_mixed_bits(v) ==
    LET unless_single(segs) == IF Len(segs) = 1 /\ ~Symbolic(segs[1]) THEN segs[1] ELSE Mixed(segs)
    IN  unless_single(FoldLeft(PushSegment, <<>>, v.segs))

ConcatSegments(segs) ==
    FoldLeft(LAMBDA e, s : IF e.op = "bits64" /\ ~Symbolic(s) /\ e.par[1] + s.b.len <= Word
                           THEN bits64(e.par[2] * 2 ^ s.b.len + s.b.bits, e.par[1] + s.b.len)
                           ELSE Bin("concat", e, smt_value(s)),
             smt_value(Head(segs)), Tail(segs))

replace_mixed_bits(v) ==
    LET in_solver(flat) == IF flat.k = "mixed" THEN Sym(ConcatSegments(flat.segs)) ELSE flat
    IN  IF v.k = "mixed" THEN in_solver(flatten_mixed_bits(v)) ELSE v
-----------------------------------------------------------------------------
(***************************************************************************)
(* The operators that the macros unary_primop_copy, binary_primop_copy and *)
(* binary_primop generate: one SMT operator, one machine operator.         *)
(***************************************************************************)
SmtName ==
    [op_lt |-> "bvslt", op_gt |-> "bvsgt", op_lteq |-> "bvsle", op_gteq |-> "bvsge",
     op_add |-> "bvadd", op_sub |-> "bvsub",
     eq_int |-> "eq", lteq |-> "bvsle", gteq |-> "bvsge", lt |-> "bvslt", gt |-> "bvsgt",
     add_int |-> "bvadd", sub_int |-> "bvsub", mult_int |-> "bvmul", tdiv_int |-> "bvsdiv", tmod_int |-> "bvsrem",
     shl_int |-> "bvshl", shr_int |-> "bvashr", udiv_int |-> "bvudiv",
     eq_bits |-> "eq", neq_bits |-> "neq", xor_bits |-> "bvxor", or_bits |-> "bvor",
     and_bits |-> "bvand", add_bits |-> "bvadd", sub_bits |-> "bvsub",
     eq_bool |-> "eq", neq_anything |-> "neq"]

\* Euclidean division and remainder from the truncating ones.
Zero == smt_i128(0)
ediv_i128(x, y) ==
    LET d == Bin("bvsdiv", x, y)
    IN  Ite(Bin("bvslt", Bin("bvsrem", x, y), Zero),
            Ite(Bin("bvsgt", y, Zero), Bin("bvsub", d, smt_i128(1)), Bin("bvadd", d, smt_i128(1))), d)
emod_i128(x, y) ==
    LET r == Bin("bvsrem", x, y)
    IN  Ite(Bin("bvslt", r, Zero), Ite(Bin("bvslt", y, Zero), Bin("bvsub", r, y), Bin("bvadd", r, y)), r)

\* The results of the machine operators on integers of w bits.
WrapInt(w, i) == ToSigned(w, i % 2 ^ w)
EuclidDiv(a, b) == IF b > 0 THEN a \div b ELSE -(a \div (-b))
MachineInt(op, w, a, b) ==
    CASE op \in {"op_add", "add_int"} -> WrapInt(w, a + b)
      [] op \in {"op_sub", "sub_int"} -> WrapInt(w, a - b)
      [] op = "mult_int" -> WrapInt(w, a * b)
      [] op \in {"tdiv_int", "udiv_int"} -> WrapInt(w, TruncDiv(a, b))
      [] op = "tmod_int" -> a - b * TruncDiv(a, b)
      [] op = "ediv_int" -> WrapInt(w, EuclidDiv(a, b))
      [] op = "emod_int" -> a - b * EuclidDiv(a, b)
      [] op = "shl_int" -> WrapInt(w, a * 2 ^ b)
      [] op = "shr_int" -> a \div 2 ^ b
      [] op = "max_int" -> IF a > b THEN a ELSE b
      [] op = "min_int" -> IF a < b THEN a ELSE b
      [] op = "sub_nat" -> IF a - b > 0 THEN a - b ELSE 0
IntCompare(op, a, b) ==
    CASE op \in {"op_lt", "lt"} -> a < b [] op \in {"op_gt", "gt"} -> a > b
      [] op \in {"op_lteq", "lteq"} -> a <= b [] op \in {"op_gteq", "gteq"} -> a >= b
      [] op = "eq_int" -> a = b
MachineBits(op, a, b) ==
    CASE op = "xor_bits" -> C!BitXor(a, b) [] op = "or_bits" -> C!BitOr(a, b)
      [] op = "and_bits" -> C!BitAnd(a, b) [] op = "add_bits" -> C!Add(a, b)
      [] op = "sub_bits" -> C!Sub(a, b)

Comparisons == {"op_lt", "op_gt", "op_lteq", "op_gteq", "eq_int", "lteq", "gteq", "lt", "gt"}
IntResults == {"add_int", "sub_int", "mult_int", "tdiv_int", "tmod_int", "ediv_int", "emod_int", "udiv_int",
               "shl_int", "shr_int", "max_int", "min_int", "sub_nat"}
I64Ops == {"op_lt", "op_gt", "op_lteq", "op_gteq", "op_add", "op_sub"}
BitsOps == {"xor_bits", "or_bits", "and_bits", "add_bits", "sub_bits"}

symbolic_compare(op, x, y) == Ite(Bin(IF op = "max_int" THEN "bvsgt" ELSE "bvslt", x, y), x, y)
sub_nat(x, y) == Ite(Bin("bvsgt", Bin("bvsub", x, y), Zero), Bin("bvsub", x, y), Zero)
SmtBinary(op, x, y) ==
    CASE op = "ediv_int" -> ediv_i128(x, y)
      [] op = "emod_int" -> emod_i128(x, y)
      [] op \in {"max_int", "min_int"} -> symbolic_compare(op, x, y)
      [] op = "sub_nat" -> sub_nat(x, y)
      [] OTHER -> Bin(SmtName[op], x, y)

BinaryOn(op, x, y) ==
    CASE Symbolic(x) \/ Symbolic(y) -> Sym(SmtBinary(op, smt_value(x), smt_value(y)))
      [] op \in Comparisons -> BoolV(IntCompare(op, x.n, y.n))
      [] op \in IntResults -> IntV(MachineInt(op, IW, x.n, y.n))
      [] op \in I64Ops -> I64V(MachineInt(op, Word, x.n, y.n))
      [] op \in BitsOps -> BitsV(MachineBits(op, x.b, y.b))
      [] op \in {"eq_bits", "eq_bool"} -> BoolV(x = y)
      [] op \in {"neq_bits", "neq_anything"} -> BoolV(x # y)
\* A symbolic operand is kept when the other one is zero.
add_int(x, y) ==
    CASE Symbolic(x) /\ y = IntV(0) -> x
      [] Symbolic(y) /\ x = IntV(0) -> y
      [] OTHER -> BinaryOn("add_int", x, y)
BinaryPrimop(op, x, y) == BinaryOn(op, replace_mixed_bits(x), replace_mixed_bits(y))

\* eq_anything goes into structures and constructors; one symbolic part makes
\* the answer symbolic, unless another part already differs.
AllEqual(parts) ==
    LET all(syms) == IF syms = <<>> THEN BoolV(TRUE)
                     ELSE Sym(FoldLeft(LAMBDA e, v : Bin("and", e, v.e), Last(syms).e, Front(syms)))
    IN  IF BoolV(FALSE) \in ToSet(parts) THEN BoolV(FALSE) ELSE all(SelectSeq(parts, Symbolic))
RECURSIVE EqualParts(_, _)
EqualParts(x, y) ==
    CASE Symbolic(x) \/ Symbolic(y) -> Sym(Bin("eq", smt_value(x), smt_value(y)))
      [] x.k = "ctor" -> IF x.name = y.name THEN EqualParts(replace_mixed_bits(x.v), replace_mixed_bits(y.v))
                         ELSE BoolV(FALSE)
      [] x.k = "struct" -> AllEqual([i \in DOMAIN x.items |->
                                EqualParts(replace_mixed_bits(x.items[i]), replace_mixed_bits(y.items[i]))])
      [] OTHER -> BoolV(x = y)
eq_anything(lhs, rhs) == EqualParts(replace_mixed_bits(lhs), replace_mixed_bits(rhs))

\* Lists are only compared with the empty list; the last item is the head.
op_eq(x, y) ==
    CASE x.k # "list" -> eq_anything(x, y)
      [] Len(x.items) # Len(y.items) -> BoolV(FALSE)
      [] OTHER -> IF x.items = <<>> THEN BoolV(TRUE) ELSE Err("type")
op_neq(x, y) ==
    CASE x.k # "list" -> BinaryPrimop("neq_anything", x, y)
      [] Len(x.items) # Len(y.items) -> BoolV(TRUE)
      [] OTHER -> IF x.items = <<>> THEN BoolV(FALSE) ELSE Err("type")
op_head(xs) == IF xs.items = <<>> THEN Err("type") ELSE Last(xs.items)
op_tail(xs) == [xs EXCEPT !.items = IF @ = <<>> THEN @ ELSE Front(@)]
op_is_empty(xs) == BoolV(xs.items = <<>>)
cons(x, xs) == [xs EXCEPT !.items = Append(@, x)]

\* and_bool and or_bool answer before they look at the other operand.
Connective(op, x, y) ==
    LET absorb == BoolV(op = "or_bool")
        unit == BoolV(op = "and_bool")
    IN  CASE x = absorb \/ y = absorb -> absorb
          [] x = unit -> y
          [] y = unit -> x
          [] OTHER -> Sym(Bin(IF op = "and_bool" THEN "and" ELSE "or", x.e, y.e))

-----------------------------------------------------------------------------
\* Operators of one argument: on a value that is not mixed.
OrSym(x, e, v) == IF Symbolic(x) THEN Sym(e) ELSE v
not_bool(x) == OrSym(x, Un("not", x.e), BoolV(~x.b))
not_bits(x) == OrSym(x, Un("bvnot", x.e), BitsV(C!BitNot(x.b)))
neg_int(x) == OrSym(x, Un("bvneg", x.e), IntV(WrapInt(IW, -x.n)))
abs_int(x) == OrSym(x, Ite(Bin("bvslt", x.e, Zero), Un("bvneg", x.e), x.e), IntV(Abs(x.n)))
pow2(x) == OrSym(x, Bin("bvshl", smt_i128(1), x.e), IntV(WrapInt(IW, 2 ^ x.n)))
i64_to_i128(x) == OrSym(x, Extend("sign_extend", IW - Word, x.e), IntV(x.n))
i128_to_i64(x) ==
    OrSym(x, Extract(Word - 1, 0, x.e), IF x.n = WrapInt(Word, x.n) THEN I64V(x.n) ELSE Err("overflow"))
bit_to_bool(x) == OrSym(x, Bin("eq", bits64(1, 1), x.e), BoolV(x.b = C!Ones(1)))
op_unsigned(x) == OrSym(x, Extend("zero_extend", Word - Infer(x.e), x.e), I64V(WrapInt(Word, C!Unsigned(x.b))))
op_signed(x) == OrSym(x, Extend("sign_extend", Word - Infer(x.e), x.e), I64V(C!Signed(x.b)))
sail_unsigned(x) == OrSym(x, Extend("zero_extend", IW - Infer(x.e), x.e), IntV(C!Unsigned(x.b)))
sail_signed(x) == OrSym(x, Extend("sign_extend", IW - Infer(x.e), x.e), IntV(C!Signed(x.b)))
one_if(x) == OrSym(x, Ite(x.e, bits64(1, 1), bits64(0, 1)), BitsV(C!New(IF x.b THEN 1 ELSE 0, 1)))
zero_if(x) == OrSym(x, Ite(x.e, bits64(0, 1), bits64(1, 1)), BitsV(C!New(IF x.b THEN 0 ELSE 1, 1)))

-----------------------------------------------------------------------------
(* Bitvector operations that take a position, a length or a condition:     *)
(* extensions, slices, shifts, updates, counting zeros and choices.        *)

\* A position is cut or extended to the width of the vector that is shifted,
\* whatever it holds, and always as if it had the width of an i128.
Resize(width, from, e) ==
    CASE width < from -> Extract(width - 1, 0, e)
      [] width > from -> Extend("zero_extend", width - from, e)
      [] OTHER -> e
ShiftAmount(width, v) == Resize(width, IW, smt_value(v))

\* zeros and ones: beyond MAX_WIDTH the constant lives in the solver.
Fill(op, len) ==
    IF len <= Word THEN BitsV(IF op = "zeros" THEN C!Zeros(len) ELSE C!Ones(len))
    ELSE Sym(bits64(IF op = "zeros" THEN 0 ELSE 2 ^ len - 1, len))

\* zero_extend, sign_extend and op_zero_extend.
Extension(op, v, len) ==
    LET extend(x) == IF ~Symbolic(x) /\ len <= Word
                     THEN BitsV(IF op = "zero_extend" THEN C!ZeroExtend(x.b, len) ELSE C!SignExtend(x.b, len))
                     ELSE Sym(Extend(op, len - length_bits(x), smt_value(x)))
    IN  extend(replace_mixed_bits(v))

replicate_exp(e, times) ==
    LET rep[i \in 1 .. times] == IF i = 1 THEN e ELSE Bin("concat", e, rep[i - 1]) IN rep[times]
replicate_bits(v, times) ==
    LET unless_none(x, r) == IF ~C!Failed(r) THEN BitsV(r) ELSE Sym(replicate_exp(smt_value(x), times))
        replicate(x) == unless_none(x, CASE ~Symbolic(x) -> C!Replicate(x.b, times)
                                         [] times = 0 -> C!Zeros(0)
                                         [] OTHER -> C!None)
    IN  replicate(replace_mixed_bits(v))

\* add_bits_int and sub_bits_int: the integer is cut to the vector's width.
\* Mixed vectors are not accepted.
add_bits_int(op, x, n) ==
    CASE x.k = "mixed" -> Err("type")
      [] Symbolic(x) \/ Symbolic(n) ->
            Sym(Bin(IF op = "add_bits_int" THEN "bvadd" ELSE "bvsub", smt_value(x),
                    Extract(length_bits(x) - 1, 0, smt_value(n))))
      [] OTHER -> BitsV(C!AddI128(x.b, IF op = "add_bits_int" THEN n.n ELSE -n.n))
-----------------------------------------------------------------------------
\* slice!: a symbolic position shifts the vector down, a known one extracts.
SliceExp(width, e, from, len) ==
    CASE len = 0 -> BitsV(C!Zeros(0))
      [] Symbolic(from) -> Sym(Extract(len - 1, 0, Bin("bvlshr", e, ShiftAmount(width, from))))
      [] from.n = 0 /\ len = width -> Sym(e)
      [] OTHER -> Sym(Extract(from.n + len - 1, from.n, e))

\* mixed_bits_slice keeps the segments inside from .. from + len - 1 and cuts
\* the ones that straddle an end.
CutSegment(s, hi, lo) ==
    IF Symbolic(s) THEN Sym(Extract(hi, lo, s.e)) ELSE BitsV(C!Extract(s.b, hi, lo))
mixed_bits_slice(segs, from, len) ==
    LET width(s) == length_bits(s)
        to == from + len
        bottom == [i \in DOMAIN segs |-> length_bits(Mixed(SubSeq(segs, i + 1, Len(segs))))]
        piece(i) ==
            LET top == bottom[i] + width(segs[i])
            IN  IF to <= bottom[i] \/ from >= top THEN <<>>
                ELSE IF to >= top /\ bottom[i] >= from THEN <<segs[i]>>
                ELSE <<CutSegment(segs[i],
                                  (IF width(segs[i]) < to - bottom[i] THEN width(segs[i]) ELSE to - bottom[i]) - 1,
                                  IF from > bottom[i] THEN from - bottom[i] ELSE 0)>>
        kept == FlattenSeq([i \in DOMAIN segs |-> piece(i)])
    IN  IF Len(kept) = 1 THEN kept[1] ELSE Mixed(kept)

\* A zero vector sliced at an unknown position is answered with a zero vector
\* of the original length.
SliceUnknown(v, from, len) ==
    IF ~Symbolic(v) /\ C!IsZero(v.b) THEN BitsV(C!Zeros(length_bits(v)))
    ELSE SliceExp(length_bits(v), smt_value(v), from, len)
op_slice(v, from, len) ==
    CASE v.k = "mixed" /\ ~Symbolic(from) -> mixed_bits_slice(v.segs, from.n, len)
      [] v.k = "bits" /\ ~Symbolic(from) -> FromOption(C!Slice(v.b, from.n, len))
      [] v.k = "sym" -> SliceExp(length_bits(v), v.e, from, len)
      [] OTHER -> SliceUnknown(replace_mixed_bits(v), from, len)
\* Linearization produces slices that are out of range; they shift zeros in.
slice_internal(v, from, len) ==
    CASE v.k = "mixed" /\ Symbolic(from) -> SliceExp(length_bits(v), smt_value(replace_mixed_bits(v)), from, len)
      [] v.k = "bits" /\ ~Symbolic(from) /\ from.n + len > v.b.len ->
            FromOption(C!Slice(C!ShiftR(v.b, from.n), 0, len))
      [] OTHER -> op_slice(v, from, len)

subrange_internal(v, high, low) ==
    CASE v.k = "sym" -> Sym(Extract(high, low, v.e))
      [] v.k = "bits" -> FromOption(C!Extract(v.b, high, low))
      [] v.k = "mixed" -> mixed_bits_slice(v.segs, low, high - low + 1)

sail_truncate(v, len) == slice_internal(v, IntV(0), len)
sail_truncate_lsb(v, len) ==
    LET width == length_bits(v)
    IN  CASE v.k = "bits" -> FromOption(C!TruncateLsb(v.b, len))
          [] v.k = "sym" -> IF len = 0 THEN BitsV(C!Zeros(0)) ELSE Sym(Extract(width - 1, width - len, v.e))
          [] v.k = "mixed" -> mixed_bits_slice(v.segs, width - len, len)

get_slice_int(len, n, from) ==
    IF n.k = "int" /\ from.k = "int" /\ len <= Word THEN BitsV(C!GetSliceInt(len, n.n, from.n))
    ELSE SliceExp(IW, smt_value(n), from, len)
-----------------------------------------------------------------------------
\* shiftr, arith_shiftr and shiftl by an integer; shift_bits_left and
\* shift_bits_right by a vector.
ShiftOp == [shiftr |-> "bvlshr", arith_shiftr |-> "bvashr", shiftl |-> "bvshl",
            shift_bits_right |-> "bvlshr", shift_bits_left |-> "bvshl"]
ConcreteShift(op, b, n) ==
    CASE op \in {"shiftr", "shift_bits_right"} -> C!ShiftR(b, n)
      [] op \in {"shiftl", "shift_bits_left"} -> C!ShiftL(b, n)
      [] op = "arith_shiftr" -> C!ArithShiftR(b, n)
Shift(op, v, shift) ==
    LET by(x) ==
            CASE Symbolic(x) /\ shift = IntV(0) -> x
              [] Symbolic(x) \/ Symbolic(shift) ->
                    Sym(Bin(ShiftOp[op], smt_value(x), ShiftAmount(length_bits(x), shift)))
              [] OTHER -> BitsV(ConcreteShift(op, x.b, shift.n))
    IN  by(replace_mixed_bits(v))
ShiftBits(op, v, amount) ==
    LET by(x, y) ==
            IF Symbolic(x) \/ Symbolic(y)
            THEN Sym(Bin(ShiftOp[op], smt_value(x), Resize(length_bits(x), length_bits(y), smt_value(y))))
            ELSE BitsV(ConcreteShift(op, x.b, y.b.bits))
    IN  by(replace_mixed_bits(v), replace_mixed_bits(amount))

\* append: mixed vectors are only made longer, everything else is joined.
Segments(v) == IF v.k = "mixed" THEN v.segs ELSE <<v>>
BitsAppend(x, y) ==
    CASE x.k = "mixed" \/ y.k = "mixed" -> Mixed(Segments(x) \o Segments(y))
      [] Symbolic(x) /\ length_bits(y) = 0 -> x
      [] Symbolic(y) /\ length_bits(x) = 0 -> y
      [] ~Symbolic(x) /\ ~Symbolic(y) /\ x.b.len + y.b.len <= C!MAX_WIDTH -> BitsV(C!BvAppend(x.b, y.b))
      [] OTHER -> Sym(Bin("concat", smt_value(x), smt_value(y)))
-----------------------------------------------------------------------------
\* segment_for_bit: the segment that holds a bit, and the index in it.
segment_for_bit(segs, index) ==
    LET from(i) == length_bits(Mixed(SubSeq(segs, i + 1, Len(segs))))
        i == CHOOSE i \in DOMAIN segs : index >= from(i) /\ \A j \in 1 .. i - 1 : index < from(j)
    IN  <<segs[i], IntV(index - from(i))>>

ItemChain(items, n) ==
    LET last == Len(items)
        chain[i \in 1 .. last] ==
            IF i = last THEN smt_value(items[last])
            ELSE Ite(Bin("eq", n.e, smt_i128(i - 1)), smt_value(items[i]), chain[i + 1])
    IN  chain[1]

AccessOn(v, n) ==
    CASE v.k = "vector" -> IF Symbolic(n) THEN Sym(ItemChain(v.items, n)) ELSE v.items[n.n + 1]
      [] Symbolic(v) \/ Symbolic(n) ->
            Sym(Extract(0, 0, Bin("bvlshr", smt_value(v), ShiftAmount(length_bits(v), n))))
      [] OTHER -> FromOption(C!Slice(v.b, n.n, 1))
vector_access(v, n) ==
    IF v.k = "mixed" /\ ~Symbolic(n)
    THEN LET at == segment_for_bit(v.segs, n.n) IN AccessOn(at[1], at[2])
    ELSE AccessOn(replace_mixed_bits(v), n)

\* Mutant: the mask is not moved to the position.
SetSliceMaskAtZero(width, e, n, ulen, update) ==
    LET wide == IF width = ulen THEN update ELSE Extend("zero_extend", width - ulen, update)
    IN  IF width = 0 THEN BitsV(C!Zeros(0))
        ELSE Sym(Bin("bvor", Bin("bvand", e, Un("bvnot", bits64(2 ^ ulen - 1, width))),
                     Bin("bvshl", wide, ShiftAmount(width, n))))
\* set_slice! clears update_length bits at n and puts the update there.
\* set_slice_n0! is the same without the shifts.
SetSliceExp(width, e, n, ulen, update) ==
    LET mask == bits64(2 ^ ulen - 1, width)
        wide == IF width = ulen THEN update ELSE Extend("zero_extend", width - ulen, update)
        at(x) == IF n.k # "sym" /\ n.n = 0 THEN x ELSE Bin("bvshl", x, ShiftAmount(width, n))
    IN  CASE width = 0 -> BitsV(C!Zeros(0))
          [] ulen = 0 -> Sym(e)
          [] OTHER -> Sym(Bin("bvor", Bin("bvand", e, Un("bvnot", at(mask))), at(wide)))

SetSliceOn(x, n, update) ==
    CASE ~Symbolic(x) /\ ~Symbolic(n) /\ ~Symbolic(update) -> BitsV(C!SetSlice(x.b, n.n, update.b))
      [] Symbolic(x) /\ n = IntV(0) /\ ~Symbolic(update) /\ length_bits(x) = length_bits(update) -> update
      [] OTHER -> SetSliceExp(length_bits(x), smt_value(x), n, length_bits(update), smt_value(update))
set_slice_internal(v, n, update) == SetSliceOn(replace_mixed_bits(v), n, replace_mixed_bits(update))
\* The position is an i64: it never equals IntV(0), and no update is returned
\* as it is.
op_set_slice(v, n, update) == SetSliceOn(replace_mixed_bits(v), n, replace_mixed_bits(update))
SetSliceInt(int, n, update) ==
    IF ~Symbolic(int) /\ ~Symbolic(n) /\ ~Symbolic(update)
    THEN IntV(C!SetSliceInt(int.n, n.n, update.b))
    ELSE SetSliceExp(IW, smt_value(int), n, length_bits(update), smt_value(update))
set_slice_int(int, n, update) == SetSliceInt(int, n, replace_mixed_bits(update))

vector_update(v, n, item) ==
    CASE v.k # "vector" -> set_slice_internal(v, n, item)
      [] ~Symbolic(n) -> Vector([v.items EXCEPT ![n.n + 1] = item])
      [] OTHER -> Vector([i \in DOMAIN v.items |->
                            Sym(Ite(Bin("eq", n.e, smt_i128(i - 1)), smt_value(item), smt_value(v.items[i])))])
-----------------------------------------------------------------------------
\* align_bits: a mask for a symbolic vector and a power of two, or a division
\* and a multiplication by the alignment.
PowersOfTwo == {2 ^ i : i \in 0 .. IW - 2}
align_bits(v, alignment) ==
    IF Symbolic(v) /\ ~Symbolic(alignment) /\ length_bits(v) <= Word /\ alignment.n \in PowersOfTwo
    THEN Sym(Bin("bvand", v.e, smt_sbits(C!BitNot(C!New(alignment.n - 1, length_bits(v))))))
    ELSE LET x == sail_unsigned(replace_mixed_bits(v))
         IN  get_slice_int(length_bits(v), BinaryOn("mult_int", alignment, BinaryOn("udiv_int", x, alignment)), IntV(0))

\* smt_clz: a binary search on the halves.
RECURSIVE smt_clz(_, _)
smt_clz(e, len) ==
    LET low_len == len \div 2
        top == Extract(len - 1, low_len, e)
    IN  IF len = 1 THEN Ite(Bin("eq", e, bits64(0, 1)), smt_i128(1), smt_i128(0))
        ELSE Ite(Bin("eq", top, bits64(0, len - low_len)),
                 Bin("bvadd", smt_i128(len - low_len), smt_clz(Extract(low_len - 1, 0, e), low_len)),
                 smt_clz(top, len - low_len))
\* smt_ctz has the body of smt_clz.
smt_ctz(e, len) == smt_clz(e, len)
CountZerosOn(op, x) ==
    CASE Symbolic(x) /\ op = "count_leading_zeros" -> Sym(smt_clz(x.e, length_bits(x)))
      [] Symbolic(x) -> Sym(smt_ctz(x.e, length_bits(x)))
      [] op = "count_leading_zeros" -> IntV(C!LeadingZeros(x.b))
      [] OTHER -> IntV(C!TrailingZeros(x.b))
CountZeros(op, v) == CountZerosOn(op, replace_mixed_bits(v))

\* build_ite goes into structures.  When the constructors differ the result is
\* a symbolic constructor, not tied to the condition; a symbolic constructor
\* on the left changes places with a constructor on the right.
RECURSIVE build_ite(_, _, _)
build_ite(b, l, r) ==
    LET merge(f, g) == [k |-> "symctor", of |-> [c \in DOMAIN f \cup DOMAIN g |->
                            IF c \in DOMAIN f \cap DOMAIN g THEN build_ite(b, f[c], g[c])
                            ELSE IF c \in DOMAIN f THEN f[c] ELSE g[c]]]
        as_poss(v) == IF v.k = "ctor" THEN [c \in {v.name} |-> v.v] ELSE v.of
    IN  CASE l.k = "struct" -> [l EXCEPT !.items = [i \in DOMAIN l.items |-> build_ite(b, l.items[i], r.items[i])]]
          [] l.k = "ctor" /\ r.k = "ctor" /\ l.name = r.name ->
                [l EXCEPT !.v = Sym(Ite(b, smt_value(l.v), smt_value(r.v)))]
          [] l.k = "symctor" /\ r.k = "ctor" -> build_ite(b, r, l)
          [] l.k \in {"ctor", "symctor"} -> merge(as_poss(l), as_poss(r))
          [] OTHER -> Sym(Ite(b, smt_value(l), smt_value(r)))
ite(c, x, y) == IF Symbolic(c) THEN build_ite(c.e, x, y) ELSE IF c.b THEN x ELSE y
\* ite_phi takes the value of the first true guard, or the last one;
\* ite_choice is the same with unconstrained guards.
ite_phi(guards, vals) ==
    LET chain[i \in DOMAIN vals] ==
            IF i = Len(vals) THEN vals[i] ELSE build_ite(guards[i].e, vals[i], chain[i + 1])
    IN  chain[1]
=============================================================================
