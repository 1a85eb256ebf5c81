------------------------------ MODULE Fraction ------------------------------
(***************************************************************************)
(* isla-lib/src/fraction.rs: the exact dyadic fractions with which the     *)
(* executor tracks how much of a task is finished.  A fraction is          *)
(* num / 2^denom_pow, never reduced; num is a BigUint, so it does not wrap.*)
(***************************************************************************)
EXTENDS Naturals, Functions

Fractions == [num : Nat, denom_pow : Nat]

zero == [num |-> 0, denom_pow |-> 0]

one == [num |-> 1, denom_pow |-> 0]

\* Mutant: the share is copied instead of halved.
halve_mutant(f) == f

halve(f) == [f EXCEPT !.denom_pow = @ + 1]

divide_pow(f, pow) == [num |-> f.num * 2^pow, denom_pow |-> f.denom_pow + pow]

\* The part of f that min_split divides: a unit numerator is first scaled up.
splittable(f, pow) == IF f.num = 1 THEN divide_pow(f, pow) ELSE f

\* Mutant: the remainder keeps the unit that the receiver also keeps.
min_split_rest_mutant(f, pow) == splittable(f, pow)

\* min_split mutates its receiver (min_split_self) and returns the rest.
min_split_self(f, pow) == [splittable(f, pow) EXCEPT !.num = 1]

min_split_rest(f, pow) == [splittable(f, pow) EXCEPT !.num = @ - 1]

\* Mutant: the denominator is forgotten.
is_one_mutant(f) == f.num = 1

is_one(f) == f.num = 2^f.denom_pow

add_assign(f, g) ==
  IF f.denom_pow < g.denom_pow
    THEN [num |-> f.num * 2^(g.denom_pow - f.denom_pow) + g.num,
          denom_pow |-> g.denom_pow]
    ELSE [num |-> f.num + g.num * 2^(f.denom_pow - g.denom_pow),
          denom_pow |-> f.denom_pow]

\* f and g add up to h.
SumsTo(f, g, h) ==
  LET sum == add_assign(f, g) IN
  /\ h.denom_pow <= sum.denom_pow
  /\ sum.num = h.num * 2^(sum.denom_pow - h.denom_pow)

\* The sum of the Fractions fs[x], with which properties compare what main adds up.
total(fs) == FoldFunction(add_assign, zero, fs)

=============================================================================
