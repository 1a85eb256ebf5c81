------------------------------- MODULE SmtExp -------------------------------
(***************************************************************************)
(* SMT expressions, isla-lib/src/smt/smtlib.rs.  A node is                 *)
(* [op, par, args]: the constructor of Exp, its parameters that are not    *)
(* expressions, and its subexpressions.  A constant vector is <<width,     *)
(* value>>; the code keeps it in a B64 ("bits64") up to 64 bits, here Word *)
(* bits, and in a Vec<bool> ("bits") above.  A variable is a pair of a     *)
(* number and its sort, which the solver keeps in a table: a sort is the   *)
(* width of a vector, or BoolSort.                                         *)
(*                                                                         *)
(* Denote is the meaning that SMT-LIB gives to a node, the reference for   *)
(* everything else in this module.                                         *)
(***************************************************************************)
EXTENDS Integers, Sequences, FiniteSets, SequencesExt, Bitwise

CONSTANT Word   \* bits of a Bits64

SumSeq(s) == FoldLeft(LAMBDA a, b : a + b, 0, s)
Node(op, par, args) == [op |-> op, par |-> par, args |-> args]
BoolSort == -1
Var(v) == Node("var", v, <<>>)
Bool(b) == Node(IF b THEN "true" ELSE "false", <<>>, <<>>)
Un(op, e) == Node(op, <<>>, <<e>>)
Bin(op, a, b) == Node(op, <<>>, <<a, b>>)
Extract(hi, lo, e) == Node("extract", <<hi, lo>>, <<e>>)
Extend(op, n, e) == Node(op, <<n>>, <<e>>)
Ite(c, a, b) == Node("ite", <<>>, <<c, a, b>>)
bits64(n, w) == Node(IF w <= Word THEN "bits64" ELSE "bits", <<w, n % 2 ^ w>>, <<>>)

Bits(e) == e.op \in {"bits64", "bits"}
Bits64(e) == e.op = "bits64"
IsBool(e) == e.op \in {"true", "false"}
Width(e) == e.par[1]
Value(e) == e.par[2]

Arith == {"bvadd", "bvsub", "bvmul", "bvand", "bvor", "bvxor", "bvshl", "bvlshr", "bvashr",
          "bvudiv", "bvsdiv", "bvurem", "bvsrem"}
Compare == {"bvult", "bvule", "bvuge", "bvugt", "bvslt", "bvsle", "bvsge", "bvsgt"}
-----------------------------------------------------------------------------
(***************************************************************************)
(* SMT-LIB: a vector denotes <<width, natural>>, a formula a Boolean.      *)
(***************************************************************************)
ToSigned(w, n) == IF w > 0 /\ n >= 2 ^ (w - 1) THEN n - 2 ^ w ELSE n
Abs(i) == IF i < 0 THEN -i ELSE i
SignOf(i) == IF i < 0 THEN -1 ELSE 1
TruncDiv(a, b) == SignOf(a) * SignOf(b) * (Abs(a) \div Abs(b))

\* The operators of QF_BV on naturals a, b of width w.
ArithOn(op, w, a, b) ==
    LET sa == ToSigned(w, a)
        sb == ToSigned(w, b)
        r == CASE op = "bvadd" -> a + b
               [] op = "bvsub" -> a - b
               [] op = "bvmul" -> a * b
               [] op = "bvand" -> a & b
               [] op = "bvor" -> a | b
               [] op = "bvxor" -> a ^^ b
               [] op = "bvshl" -> IF b >= w THEN 0 ELSE a * 2 ^ b
               [] op = "bvlshr" -> IF b >= w THEN 0 ELSE a \div 2 ^ b
               [] op = "bvashr" -> IF b >= w THEN (IF sa < 0 THEN -1 ELSE 0) ELSE sa \div 2 ^ b
               [] op = "bvudiv" -> IF b = 0 THEN -1 ELSE a \div b
               [] op = "bvurem" -> IF b = 0 THEN a ELSE a % b
               [] op = "bvsdiv" -> IF b = 0 THEN (IF sa < 0 THEN 1 ELSE -1) ELSE TruncDiv(sa, sb)
               [] op = "bvsrem" -> IF b = 0 THEN sa ELSE sa - sb * TruncDiv(sa, sb)
    IN  r % 2 ^ w

CompareOn(op, w, a, b) ==
    LET sa == ToSigned(w, a)
        sb == ToSigned(w, b)
    IN  CASE op = "bvult" -> a < b   [] op = "bvule" -> a <= b
          [] op = "bvuge" -> a >= b  [] op = "bvugt" -> a > b
          [] op = "bvslt" -> sa < sb [] op = "bvsle" -> sa <= sb
          [] op = "bvsge" -> sa >= sb [] op = "bvsgt" -> sa > sb

\* The meaning of a node whose subexpressions denote d, under env for variables.
DenoteNode(e, d, env) ==
    CASE e.op = "var" -> env[e.par]
      [] IsBool(e) -> e = Bool(TRUE)
      [] Bits(e) -> e.par
      [] e.op = "not" -> ~d[1]
      [] e.op = "and" -> d[1] /\ d[2]
      [] e.op = "or" -> d[1] \/ d[2]
      [] e.op = "eq" -> d[1] = d[2]
      [] e.op = "neq" -> d[1] # d[2]
      [] e.op = "ite" -> IF d[1] THEN d[2] ELSE d[3]
      [] e.op = "bvnot" -> <<d[1][1], 2 ^ d[1][1] - 1 - d[1][2]>>
      [] e.op = "bvneg" -> <<d[1][1], (-d[1][2]) % 2 ^ d[1][1]>>
      [] e.op = "extract" -> LET w == e.par[1] - e.par[2] + 1
                             IN  <<w, (d[1][2] \div 2 ^ e.par[2]) % 2 ^ w>>
      [] e.op = "zero_extend" -> <<d[1][1] + e.par[1], d[1][2]>>
      [] e.op = "sign_extend" -> LET w == d[1][1] + e.par[1]
                                 IN  <<w, ToSigned(d[1][1], d[1][2]) % 2 ^ w>>
      [] e.op = "concat" -> <<d[1][1] + d[2][1], d[1][2] * 2 ^ d[2][1] + d[2][2]>>
      [] e.op \in Arith -> <<d[1][1], ArithOn(e.op, d[1][1], d[1][2], d[2][2])>>
      [] e.op \in Compare -> CompareOn(e.op, d[1][1], d[1][2], d[2][2])

RECURSIVE Denote(_, _)
Denote(e, env) == DenoteNode(e, [i \in DOMAIN e.args |-> Denote(e.args[i], env)], env)
-----------------------------------------------------------------------------
(***************************************************************************)
(* Exp::eval: constant folding on one-word vectors, with a few rules for   *)
(* units and zeros.  args are already evaluated.                           *)
(***************************************************************************)
AllZero(e) == Bits(e) /\ Value(e) = 0
Complement(a, b) == a.op = "var" /\ b = Un("not", a)

\* And and Or: a constant operand, or a variable beside its negation.
EvalConnective(op, l, r) ==
    LET absorb == Bool(op = "or")
        unit == Bool(op = "and")
    IN  CASE absorb \in {l, r} -> absorb
          [] l = unit -> r
          [] r = unit -> l
          [] Complement(l, r) \/ Complement(r, l) -> absorb
          [] OTHER -> Bin(op, l, r)

\* binary_eval folds two one-word constants; collapsing_bvor and
\* collapsing_bvand also drop or spread an all-zero operand.
EvalBinary(op, l, r) ==
    CASE Bits64(l) /\ Bits64(r) -> bits64(ArithOn(op, Width(l), Value(l), Value(r)), Width(l))
      [] op = "bvor" /\ AllZero(l) -> r
      [] op = "bvor" /\ AllZero(r) -> l
      [] op = "bvand" /\ AllZero(l) -> bits64(0, Width(l))
      [] op = "bvand" /\ AllZero(r) -> bits64(0, Width(r))
      [] OTHER -> Bin(op, l, r)

EvalShl(l, r) ==
    IF Bits(l) /\ Bits(r)
    THEN Node(l.op, <<Width(l), ArithOn("bvshl", Width(l), Value(l), Value(r))>>, <<>>)
    ELSE Bin("bvshl", l, r)

\* Mutant: the sign is not extended.
EvalExtendUnsigned(e, x) ==
    IF Bits(x) THEN bits64(Value(x), Width(x) + e.par[1]) ELSE Node(e.op, e.par, <<x>>)
\* A constant vector stays in its form unless the new width needs the other.
EvalExtend(e, x) ==
    IF Bits(x)
    THEN LET w == Width(x) + e.par[1]
             n == IF e.op = "zero_extend" THEN Value(x) ELSE ToSigned(Width(x), Value(x))
         IN  IF Bits64(x) THEN bits64(n, w) ELSE Node("bits", <<w, n % 2 ^ w>>, <<>>)
    ELSE Node(e.op, e.par, <<x>>)

EvalNode(e, a) ==
    CASE e.op = "not" /\ IsBool(a[1]) -> Bool(a[1] = Bool(FALSE))
      [] e.op \in {"and", "or"} -> EvalConnective(e.op, a[1], a[2])
      [] e.op = "bvnot" /\ Bits(a[1]) ->
            Node(a[1].op, <<Width(a[1]), 2 ^ Width(a[1]) - 1 - Value(a[1])>>, <<>>)
      [] e.op \in {"bvand", "bvor", "bvxor", "bvadd", "bvsub", "bvlshr"} -> EvalBinary(e.op, a[1], a[2])
      [] e.op = "bvshl" -> EvalShl(a[1], a[2])
      [] e.op = "extract" /\ Bits(a[1]) ->
            bits64(Value(a[1]) \div 2 ^ e.par[2], e.par[1] - e.par[2] + 1)
      [] e.op \in {"zero_extend", "sign_extend"} -> EvalExtend(e, a[1])
      [] e.op = "concat" /\ Bits64(a[1]) /\ Bits64(a[2]) /\ Width(a[1]) + Width(a[2]) <= Word ->
            bits64(Value(a[1]) * 2 ^ Width(a[2]) + Value(a[2]), Width(a[1]) + Width(a[2]))
      [] e.op = "ite" /\ IsBool(a[1]) -> IF a[1] = Bool(TRUE) THEN a[2] ELSE a[3]
      [] OTHER -> Node(e.op, e.par, a)

RECURSIVE Eval(_)
Eval(e) == EvalNode(e, [i \in DOMAIN e.args |-> Eval(e.args[i])])
-----------------------------------------------------------------------------
(***************************************************************************)
(* The traversals.  Each one treats every constructor alike: visit the     *)
(* subexpressions, rebuild the node.                                       *)
(***************************************************************************)
\* Extract goes inwards through the operators of binary_commute_extract.
Commutes == {"bvand", "bvor", "bvxor", "bvadd", "bvsub"}
CommuteExtract(e) ==
    IF e.op = "extract" /\ e.args[1].op \in Commutes
    THEN Node(e.args[1].op, <<>>,
              [i \in 1 .. 2 |-> Extract(e.par[1], e.par[2], e.args[1].args[i])])
    ELSE e

\* modify, applied to CommuteExtract: bottom-up.
RECURSIVE Modify(_)
Modify(e) == CommuteExtract([e EXCEPT !.args = [i \in DOMAIN e.args |-> Modify(e.args[i])]])

\* modify_top_down: the root first, but everything below it bottom-up.
ModifyTopDown(e) ==
    LET top == CommuteExtract(e)
    IN  [top EXCEPT !.args = [i \in DOMAIN top.args |-> Modify(top.args[i])]]

\* map_var: the variables in the domain of f are replaced.
RECURSIVE MapVar(_, _)
MapVar(e, f) ==
    IF e.op = "var" THEN IF e.par \in DOMAIN f THEN f[e.par] ELSE e
    ELSE [e EXCEPT !.args = [i \in DOMAIN e.args |-> MapVar(e.args[i], f)]]

RECURSIVE Occurrences(_, _)
Occurrences(e, v) ==
    IF e.op = "var" THEN IF e.par = v THEN 1 ELSE 0
    ELSE SumSeq([i \in DOMAIN e.args |-> Occurrences(e.args[i], v)])
\* subst_once_in_place moves each expression out of the table: a second
\* occurrence panics.
SubstOnce(e, f) ==
    IF \E v \in DOMAIN f : Occurrences(e, v) > 1 THEN Node("panic", <<>>, <<>>) ELSE MapVar(e, f)

\* Variables are replaced by their definitions, and so on in these.
RECURSIVE CloneExpand(_, _)
CloneExpand(e, defs) ==
    IF e.op = "var" THEN IF e.par \in DOMAIN defs THEN CloneExpand(defs[e.par], defs) ELSE e
    ELSE [e EXCEPT !.args = [i \in DOMAIN e.args |-> CloneExpand(e.args[i], defs)]]

RECURSIVE Variables(_)
Variables(e) ==
    IF e.op = "var" THEN {e.par} ELSE UNION {Variables(e.args[i]) : i \in DOMAIN e.args}

RECURSIVE Infer(_)
Infer(e) ==
    CASE e.op = "var" -> e.par[2]
      [] Bits(e) -> Width(e)
      [] e.op \in {"true", "false", "not", "and", "or", "eq", "neq"} \cup Compare -> BoolSort
      [] e.op = "extract" -> e.par[1] - e.par[2] + 1
      [] e.op \in {"zero_extend", "sign_extend"} -> Infer(e.args[1]) + e.par[1]
      [] e.op = "concat" -> Infer(e.args[1]) + Infer(e.args[2])
      [] e.op = "ite" -> Infer(e.args[2])
      [] OTHER -> Infer(e.args[1])

\* What the solver demands of a term: operands of equal widths, no empty
\* vector, and extracts inside their operand.
RECURSIVE WellSorted(_)
WellSorted(e) ==
    LET ty(i) == Infer(e.args[i])
    IN  /\ \A i \in DOMAIN e.args : WellSorted(e.args[i])
        /\ Infer(e) # 0
        /\ e.op \in Arith \cup Compare \cup {"eq", "neq"} => ty(1) = ty(2)
        /\ e.op \in {"not", "and", "or"} => \A i \in DOMAIN e.args : ty(i) = BoolSort
        /\ e.op \notin {"not", "and", "or", "eq", "neq", "ite"} => \A i \in DOMAIN e.args : ty(i) # BoolSort
        /\ e.op = "ite" => ty(1) = BoolSort /\ ty(2) = ty(3)
        /\ e.op = "extract" => e.par[2] >= 0 /\ e.par[2] <= e.par[1] /\ e.par[1] < ty(1)
        /\ e.op \in {"zero_extend", "sign_extend"} => e.par[1] >= 0
=============================================================================
