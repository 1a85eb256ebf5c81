----------------------------- MODULE PathLemmas ------------------------------
(***************************************************************************)
(* What the Fractions of isla-lib/src/fraction.rs have in common with real *)
(* fractions: += is associative and commutative and does not depend on how *)
(* a Fraction is written, and so the sum of a finite family of Fractions   *)
(* is the same in whatever order main adds them up.  And how the paths     *)
(* diverge to which they belong.                                           *)
(***************************************************************************)
EXTENDS Fraction, Sequences, FiniteSetTheorems, TLAPS

-----------------------------------------------------------------------------
(* Induction, in the form of least elements.                               *)

Sum == INSTANCE SeqFold WITH Step <- add_assign

(* A family of finite sets that is not empty has a set without a smaller   *)
(* one: none with an element less.                                         *)
LEMMA LeastSet ==
  ASSUME NEW F, F # {}, \A s \in F : IsFiniteSet(s)
  PROVE  \E s \in F : \A x \in s : s \ {x} \notin F
<1> DEFINE N == {n \in Nat : \E s \in F : Cardinality(s) = n}
<1>1. PICK s0 \in F : TRUE
  OBVIOUS
<1>2. Cardinality(s0) \in N
  BY FS_CardinalityType
<1>3. PICK n \in N : \A m \in N : n <= m
  <2>1. N \in SUBSET Nat /\ N # {}
    BY <1>2
  <2> HIDE DEF N
  <2> QED BY <2>1, Sum!LeastNat
<1>4. PICK s \in F : Cardinality(s) = n
  OBVIOUS
<1>5. ASSUME NEW x \in s, s \ {x} \in F PROVE FALSE
  <2>1. Cardinality(s \ {x}) = n - 1 /\ n \in Nat
    BY <1>4, FS_RemoveElement
  <2>2. n - 1 \in N
    BY <2>1, <1>5, FS_CardinalityType
  <2> HIDE DEF N
  <2> QED BY <2>1, <2>2, <1>3
<1> QED BY <1>5

-----------------------------------------------------------------------------
(* Powers of two, counted as sets of sets.                                 *)

(* The numbers of subsets of sets with n and n + 1 elements.               *)
LEMMA PowSucc ==
  ASSUME NEW n \in Nat
  PROVE  2^n \in Nat /\ 2^(n + 1) = 2 * 2^n
<1> DEFINE S == 1..n
           T == 1..(n + 1)
           A == {s \in SUBSET T : n + 1 \in s}
<1>1. IsFiniteSet(S) /\ Cardinality(S) = n /\ IsFiniteSet(T) /\ Cardinality(T) = n + 1
  BY FS_Interval
<1>2. T = S \cup {n + 1} /\ n + 1 \notin S
  OBVIOUS
<1> HIDE DEF S, T
<1>3. /\ IsFiniteSet(SUBSET S) /\ Cardinality(SUBSET S) = 2^n
      /\ Cardinality(SUBSET T) = 2^(n + 1)
  BY <1>1, FS_SUBSET
<1>4. Cardinality(SUBSET S) \in Nat
  BY <1>3, FS_CardinalityType
<1>5. ExistsBijection(SUBSET S, A)
  <2> DEFINE f == [s \in SUBSET S |-> s \cup {n + 1}]
  <2>1. f \in [SUBSET S -> A]
    BY <1>2
  <2>2. \A s, t \in SUBSET S : f[s] = f[t] => s = t
    BY <1>2
  <2>3. \A a \in A : a \ {n + 1} \in SUBSET S /\ f[a \ {n + 1}] = a
    BY <1>2
  <2>4. DOMAIN f = SUBSET S
    OBVIOUS
  <2> HIDE DEF f, A
  <2>5. f \in Injection(SUBSET S, A)
    BY <2>1, <2>2, <2>4 DEF Injection, IsInjective
  <2>6. f \in Surjection(SUBSET S, A)
    BY <2>1, <2>3 DEF Surjection
  <2> QED BY <2>5, <2>6 DEF ExistsBijection, Bijection
<1>6. IsFiniteSet(A) /\ Cardinality(A) = 2^n
  BY <1>3, <1>5, FS_Bijection
<1> DEFINE P == SUBSET S
           Q == SUBSET T
<1>7. (\A s \in Q : s \notin A => s \in P) /\ (\A s \in P : s \in Q /\ s \notin A) /\ A \subseteq Q
  <2>1. ASSUME NEW s \in SUBSET T, s \notin A PROVE s \in SUBSET S
    BY <1>2, <2>1
  <2>2. ASSUME NEW s \in SUBSET S PROVE s \in SUBSET T /\ s \notin A
    BY <1>2
  <2> QED BY <2>1, <2>2
<1>8. /\ IsFiniteSet(P) /\ Cardinality(P) = 2^n /\ Cardinality(P) \in Nat
      /\ Cardinality(Q) = 2^(n + 1)
  BY <1>3, <1>4
<1> HIDE DEF A, P, Q
<1>9. Q = P \cup A /\ P \cap A = {}
  BY <1>7
<1>10. Cardinality(Q) = Cardinality(P) + Cardinality(A) - Cardinality({})
  BY <1>6, <1>8, <1>9, FS_Union
<1> QED BY <1>6, <1>8, <1>10, FS_EmptySet

(* 2^0, where the exponent is not a literal.                               *)
LEMMA PowZero == ASSUME NEW n, n = 0 PROVE 2^n = 1
<1>1. 2^0 = 1
  OBVIOUS
<1> QED BY <1>1, Zenon

(* A power of two is positive.                                             *)
LEMMA PowPos == ASSUME NEW n \in Nat PROVE 2^n \in Nat \ {0}
<1> DEFINE Bad == {m \in Nat : 2^m = 0}
<1> SUFFICES ASSUME Bad # {} PROVE FALSE
  BY PowSucc
<1>1. PICK m \in Bad : \A k \in Bad : m <= k
  <2>1. Bad \in SUBSET Nat
    OBVIOUS
  <2> HIDE DEF Bad
  <2> QED BY <2>1, Sum!LeastNat
<1>2. m \in Nat /\ 2^m = 0
  OBVIOUS
<1>3. m # 0
  BY <1>2, PowZero
<1>4. 2^(m - 1) \in Nat /\ 2^((m - 1) + 1) = 2 * 2^(m - 1) /\ m - 1 \in Nat
  BY <1>2, <1>3, PowSucc
<1>5. (m - 1) + 1 = m
  BY <1>2
<1>6. 2^(m - 1) = 0
  BY <1>2, <1>4, <1>5
<1> QED BY <1>1, <1>2, <1>4, <1>6

(* 2^(a + b) is the product of 2^a and 2^b.                                *)
LEMMA PowSum == ASSUME NEW a \in Nat, NEW b \in Nat PROVE 2^(a + b) = 2^a * 2^b
<1> DEFINE Bad == {m \in Nat : 2^(a + m) # 2^a * 2^m}
<1> SUFFICES ASSUME Bad # {} PROVE FALSE
  OBVIOUS
<1>1. PICK m \in Bad : \A k \in Bad : m <= k
  <2>1. Bad \in SUBSET Nat
    OBVIOUS
  <2> HIDE DEF Bad
  <2> QED BY <2>1, Sum!LeastNat
<1>2. m \in Nat /\ 2^(a + m) # 2^a * 2^m /\ 2^a \in Nat
  BY PowSucc
<1>3. m # 0
  <2> SUFFICES ASSUME m = 0 PROVE FALSE
    OBVIOUS
  <2>1. a + m = a /\ 2^m = 1
    BY PowZero
  <2> QED BY <2>1, <1>2
<1> DEFINE k == m - 1
<1>4. k \in Nat /\ k + 1 = m /\ ~(m <= k) /\ a + m = (a + k) + 1 /\ a + k \in Nat
  BY <1>2, <1>3
<1> HIDE DEF k
<1>5. 2^(a + k) = 2^a * 2^k
  BY <1>1, <1>4
<1>6. 2^m = 2 * 2^k /\ 2^k \in Nat
  BY <1>4, PowSucc
<1>7. 2^(a + m) = 2 * 2^(a + k)
  BY <1>4, PowSucc
<1>8. 2 * (2^a * 2^k) = 2^a * (2 * 2^k)
  BY <1>2, <1>6
<1> QED BY <1>2, <1>5, <1>6, <1>7, <1>8

(* A positive factor can be cancelled.                                     *)
LEMMA Cancel ==
  ASSUME NEW a \in Nat, NEW b \in Nat, NEW p \in Nat \ {0}, a * p = b * p
  PROVE  a = b
<1>1. \A m, c \in Nat : (m + c) * p = m * p + c * p /\ m * p \in Nat /\ (c # 0 => c * p # 0)
  OBVIOUS
<1>2. CASE a < b
  <2>1. b - a \in Nat /\ b - a # 0 /\ a + (b - a) = b
    BY <1>2
  <2>2. b * p = a * p + (b - a) * p /\ (b - a) * p # 0 /\ a * p \in Nat /\ (b - a) * p \in Nat
    BY <2>1, <1>1
  <2> QED BY <2>2
<1>3. CASE b < a
  <2>1. a - b \in Nat /\ a - b # 0 /\ b + (a - b) = a
    BY <1>3
  <2>2. a * p = b * p + (a - b) * p /\ (a - b) * p # 0 /\ b * p \in Nat /\ (a - b) * p \in Nat
    BY <2>1, <1>1
  <2> QED BY <2>2
<1> QED BY <1>2, <1>3

-----------------------------------------------------------------------------
(* A Fraction over a larger denominator.                                   *)

\* The numerator of f over the denominator 2^d.
Over(f, d) == f.num * 2^(d - f.denom_pow)

(* It is natural, zero only for zero, and increases with the numerator.    *)
LEMMA OverFacts ==
  ASSUME NEW f \in Fractions, NEW d \in Nat, f.denom_pow <= d
  PROVE  /\ Over(f, d) \in Nat
         /\ Over(f, d) = 0 <=> f.num = 0
         /\ is_one(f) <=> Over(f, d) = 2^d
<1>1. f.num \in Nat /\ f.denom_pow \in Nat /\ d - f.denom_pow \in Nat
  BY DEF Fractions
<1> DEFINE p == 2^(d - f.denom_pow)
           q == 2^f.denom_pow
<1>2. p \in Nat \ {0} /\ q \in Nat \ {0}
  BY <1>1, PowPos
<1>3. 2^d = q * p
  <2>1. f.denom_pow + (d - f.denom_pow) = d
    BY <1>1
  <2> QED BY <2>1, <1>1, PowSum
<1>4. Over(f, d) = f.num * p /\ (is_one(f) <=> f.num = q)
  BY DEF Over, is_one
<1> HIDE DEF p, q
<1>5. f.num * p \in Nat /\ (f.num * p = 0 <=> f.num = 0)
  BY <1>1, <1>2
<1>6. f.num * p = q * p <=> f.num = q
  BY <1>1, <1>2, Cancel
<1> QED BY <1>3, <1>4, <1>5, <1>6

(* += adds the numerators over any common denominator.                     *)
LEMMA OverAdds ==
  ASSUME NEW f \in Fractions, NEW g \in Fractions, NEW d \in Nat,
         f.denom_pow <= d, g.denom_pow <= d
  PROVE  /\ add_assign(f, g) \in Fractions
         /\ add_assign(f, g).denom_pow = IF f.denom_pow < g.denom_pow THEN g.denom_pow ELSE f.denom_pow
         /\ Over(add_assign(f, g), d) = Over(f, d) + Over(g, d)
<1>1. /\ f.num \in Nat /\ f.denom_pow \in Nat /\ d - f.denom_pow \in Nat
      /\ g.num \in Nat /\ g.denom_pow \in Nat /\ d - g.denom_pow \in Nat
  BY DEF Fractions
<1>2. CASE f.denom_pow < g.denom_pow
  <2>1. g.denom_pow - f.denom_pow \in Nat
    BY <1>1, <1>2
  <2> DEFINE p == 2^(g.denom_pow - f.denom_pow)
             q == 2^(d - g.denom_pow)
  <2>2. p \in Nat /\ q \in Nat
    BY <2>1, <1>1, PowPos
  <2>3. 2^(d - f.denom_pow) = p * q
    <3>1. (g.denom_pow - f.denom_pow) + (d - g.denom_pow) = d - f.denom_pow
      BY <1>1
    <3> QED BY <3>1, <2>1, <1>1, PowSum
  <2>4. add_assign(f, g) = [num |-> f.num * p + g.num, denom_pow |-> g.denom_pow]
    BY <1>2 DEF add_assign
  <2> HIDE DEF p
  <2>5. f.num * p + g.num \in Nat
    BY <1>1, <2>2
  <2>6. /\ add_assign(f, g) \in Fractions
        /\ add_assign(f, g).num = f.num * p + g.num /\ add_assign(f, g).denom_pow = g.denom_pow
    BY <2>4, <2>5, <1>1 DEF Fractions
  <2>7. Over(add_assign(f, g), d) = (f.num * p + g.num) * q
    BY <2>6 DEF Over
  <2>8. Over(f, d) = f.num * (p * q) /\ Over(g, d) = g.num * q
    BY <2>3 DEF Over
  <2> HIDE DEF q
  <2>9. (f.num * p + g.num) * q = f.num * (p * q) + g.num * q
    BY <1>1, <2>2
  <2> QED BY <1>2, <2>6, <2>7, <2>8, <2>9
<1>3. CASE ~(f.denom_pow < g.denom_pow)
  <2>1. f.denom_pow - g.denom_pow \in Nat
    BY <1>1, <1>3
  <2> DEFINE p == 2^(f.denom_pow - g.denom_pow)
             q == 2^(d - f.denom_pow)
  <2>2. p \in Nat /\ q \in Nat
    BY <2>1, <1>1, PowPos
  <2>3. 2^(d - g.denom_pow) = p * q
    <3>1. (f.denom_pow - g.denom_pow) + (d - f.denom_pow) = d - g.denom_pow
      BY <1>1
    <3> QED BY <3>1, <2>1, <1>1, PowSum
  <2>4. add_assign(f, g) = [num |-> f.num + g.num * p, denom_pow |-> f.denom_pow]
    BY <1>3 DEF add_assign
  <2> HIDE DEF p
  <2>5. f.num + g.num * p \in Nat
    BY <1>1, <2>2
  <2>6. /\ add_assign(f, g) \in Fractions
        /\ add_assign(f, g).num = f.num + g.num * p /\ add_assign(f, g).denom_pow = f.denom_pow
    BY <2>4, <2>5, <1>1 DEF Fractions
  <2>7. Over(add_assign(f, g), d) = (f.num + g.num * p) * q
    BY <2>6 DEF Over
  <2>8. Over(g, d) = g.num * (p * q) /\ Over(f, d) = f.num * q
    BY <2>3 DEF Over
  <2> HIDE DEF q
  <2>9. (f.num + g.num * p) * q = f.num * q + g.num * (p * q)
    BY <1>1, <2>2
  <2> QED BY <1>3, <2>6, <2>7, <2>8, <2>9
<1> QED BY <1>2, <1>3

(* Two Fractions written with the same denominator are equal when they are *)
(* over another.                                                           *)
LEMMA OverEqual ==
  ASSUME NEW f \in Fractions, NEW g \in Fractions, NEW d \in Nat,
         f.denom_pow = g.denom_pow, f.denom_pow <= d, Over(f, d) = Over(g, d)
  PROVE  f = g
<1>1. f.num \in Nat /\ g.num \in Nat /\ d - f.denom_pow \in Nat
  BY DEF Fractions
<1> DEFINE p == 2^(d - f.denom_pow)
<1>2. p \in Nat \ {0}
  BY <1>1, PowPos
<1>3. f.num * p = g.num * p
  BY DEF Over
<1> HIDE DEF p
<1>4. f.num = g.num
  BY <1>1, <1>2, <1>3, Cancel
<1> QED BY <1>4 DEF Fractions

(* += is commutative and associative, to the last digit of the numerator,  *)
(* and zero is neutral.                                                    *)
LEMMA AddLaws ==
  ASSUME NEW f \in Fractions, NEW g \in Fractions, NEW h \in Fractions
  PROVE  /\ add_assign(f, g) \in Fractions
         /\ add_assign(f, g) = add_assign(g, f)
         /\ add_assign(f, add_assign(g, h)) = add_assign(g, add_assign(f, h))
         /\ add_assign(f, zero) = f
<1> DEFINE d == f.denom_pow + g.denom_pow + h.denom_pow
           fg == add_assign(f, g)
           gf == add_assign(g, f)
           gh == add_assign(g, h)
           fh == add_assign(f, h)
           l == add_assign(f, gh)
           r == add_assign(g, fh)
<1>1. f.denom_pow \in Nat /\ g.denom_pow \in Nat /\ h.denom_pow \in Nat
  BY DEF Fractions
<1>2. d \in Nat /\ f.denom_pow <= d /\ g.denom_pow <= d /\ h.denom_pow <= d
  BY <1>1
<1> HIDE DEF d
<1>3. /\ fg \in Fractions /\ Over(fg, d) = Over(f, d) + Over(g, d)
      /\ fg.denom_pow = IF f.denom_pow < g.denom_pow THEN g.denom_pow ELSE f.denom_pow
  BY <1>2, OverAdds
<1>4. /\ gf \in Fractions /\ Over(gf, d) = Over(g, d) + Over(f, d)
      /\ gf.denom_pow = IF g.denom_pow < f.denom_pow THEN f.denom_pow ELSE g.denom_pow
  BY <1>2, OverAdds
<1>5. /\ gh \in Fractions /\ Over(gh, d) = Over(g, d) + Over(h, d)
      /\ gh.denom_pow = IF g.denom_pow < h.denom_pow THEN h.denom_pow ELSE g.denom_pow
  BY <1>2, OverAdds
<1>6. /\ fh \in Fractions /\ Over(fh, d) = Over(f, d) + Over(h, d)
      /\ fh.denom_pow = IF f.denom_pow < h.denom_pow THEN h.denom_pow ELSE f.denom_pow
  BY <1>2, OverAdds
<1>7. Over(f, d) \in Nat /\ Over(g, d) \in Nat /\ Over(h, d) \in Nat
  BY <1>2, OverFacts
<1> HIDE DEF fg, gf, gh, fh
<1>8. /\ l \in Fractions /\ Over(l, d) = Over(f, d) + Over(gh, d)
      /\ l.denom_pow = IF f.denom_pow < gh.denom_pow THEN gh.denom_pow ELSE f.denom_pow
  BY <1>2, <1>5, OverAdds
<1>9. /\ r \in Fractions /\ Over(r, d) = Over(g, d) + Over(fh, d)
      /\ r.denom_pow = IF g.denom_pow < fh.denom_pow THEN fh.denom_pow ELSE g.denom_pow
  BY <1>2, <1>6, OverAdds
<1> HIDE DEF l, r
<1>10. fg = gf
  <2>1. fg.denom_pow = gf.denom_pow /\ fg.denom_pow <= d /\ Over(fg, d) = Over(gf, d)
    BY <1>1, <1>2, <1>3, <1>4, <1>7
  <2> QED BY <2>1, <1>2, <1>3, <1>4, OverEqual
<1>11. l = r
  <2>1. l.denom_pow = r.denom_pow /\ l.denom_pow <= d
    BY <1>1, <1>2, <1>5, <1>6, <1>8, <1>9
  <2>2. Over(l, d) = Over(r, d)
    BY <1>5, <1>6, <1>7, <1>8, <1>9
  <2> QED BY <2>1, <2>2, <1>2, <1>8, <1>9, OverEqual
<1>12. add_assign(f, zero) = f
  <2>1. f = [num |-> f.num, denom_pow |-> f.denom_pow] /\ f.num \in Nat
    BY DEF Fractions
  <2>2. ~(f.denom_pow < zero.denom_pow) /\ zero.num = 0 /\ zero.denom_pow = 0 /\ f.denom_pow - 0 \in Nat
    BY <1>1 DEF zero
  <2>3. 2^(f.denom_pow - 0) \in Nat
    BY <2>2, PowPos
  <2>4. f.num + 0 * 2^(f.denom_pow - 0) = f.num
    BY <2>1, <2>3
  <2> QED BY <2>1, <2>2, <2>4 DEF add_assign
<1> QED BY <1>3, <1>10, <1>11, <1>12 DEF fg, gf, gh, fh, l, r

-----------------------------------------------------------------------------
(* Sums.                                                                   *)

\* The element a fold takes next.
pick(s) == CHOOSE x \in s : TRUE

\* The subset sums of fs over S, computed as the fold does.
IsSums(it, fs, S) ==
  it = [s \in SUBSET S |-> IF s = {} THEN zero ELSE add_assign(fs[pick(s)], it[s \ {pick(s)}])]

(* The element taken is one of the set.                                    *)
LEMMA PickFacts == ASSUME NEW s, s # {} PROVE pick(s) \in s /\ s \ {pick(s)} \in SUBSET s
<1>1. \E x \in s : TRUE
  OBVIOUS
<1>2. pick(s) \in s
  BY <1>1 DEF pick
<1> QED BY <1>2

(* What subset sums are.                                                   *)
LEMMA SumsFacts ==
  ASSUME NEW it, NEW fs, NEW S, IsSums(it, fs, S)
  PROVE  \A s \in SUBSET S : it[s] = IF s = {} THEN zero ELSE add_assign(fs[pick(s)], it[s \ {pick(s)}])
<1> DEFINE g(s) == IF s = {} THEN zero ELSE add_assign(fs[pick(s)], it[s \ {pick(s)}])
<1>1. it = [s \in SUBSET S |-> g(s)]
  BY DEF IsSums
<1> HIDE DEF g
<1>2. \A s \in SUBSET S : it[s] = g(s)
  BY <1>1
<1> QED BY <1>2 DEF g

(* Two families that agree on a finite set have the same sum over it.      *)
LEMMA SumsAgree ==
  ASSUME NEW it, NEW fs, NEW S, IsSums(it, fs, S),
         NEW jt, NEW gs, NEW T, IsSums(jt, gs, T),
         NEW u \in SUBSET S, u \in SUBSET T, IsFiniteSet(u),
         \A x \in u : fs[x] = gs[x]
  PROVE  it[u] = jt[u]
<1> DEFINE Bad == {s \in SUBSET u : it[s] # jt[s]}
<1> SUFFICES ASSUME Bad # {} PROVE FALSE
  OBVIOUS
<1>1. \A s \in Bad : IsFiniteSet(s)
  BY FS_Subset
<1>2. PICK s \in Bad : \A x \in s : s \ {x} \notin Bad
  <2> HIDE DEF Bad
  <2> QED BY <1>1, LeastSet
<1>3. s \in SUBSET S /\ s \in SUBSET T /\ s \in SUBSET u /\ it[s] # jt[s]
  OBVIOUS
<1>4. s # {}
  BY <1>3, SumsFacts
<1>5. pick(s) \in s /\ pick(s) \in u /\ s \ {pick(s)} \in SUBSET u
  BY <1>3, <1>4, PickFacts
<1>6. it[s \ {pick(s)}] = jt[s \ {pick(s)}]
  BY <1>2, <1>5
<1>7. it[s] = add_assign(fs[pick(s)], it[s \ {pick(s)}]) /\ jt[s] = add_assign(gs[pick(s)], jt[s \ {pick(s)}])
  BY <1>3, <1>4, SumsFacts
<1>8. fs[pick(s)] = gs[pick(s)]
  BY <1>5
<1> QED BY <1>3, <1>6, <1>7, <1>8

(* Subset sums exist for every finite set.                                 *)
LEMMA SumsExist ==
  ASSUME NEW fs, NEW S, IsFiniteSet(S)
  PROVE  \E it : IsSums(it, fs, S)
<1> DEFINE Bad == {s \in SUBSET S : ~\E it : IsSums(it, fs, s)}
           sums(s) == CHOOSE it : IsSums(it, fs, s)
<1> SUFFICES ASSUME Bad # {} PROVE FALSE
  BY DEF Bad
<1>1. \A s \in Bad : IsFiniteSet(s)
  BY FS_Subset DEF Bad
<1> HIDE DEF Bad
<1>2. PICK s \in Bad : \A x \in s : s \ {x} \notin Bad
  BY <1>1, LeastSet
<1>3. s \in SUBSET S /\ IsFiniteSet(s) /\ ~\E it : IsSums(it, fs, s)
  BY <1>1 DEF Bad
<1>4. \A x \in s : \A u \in SUBSET (s \ {x}) : IsSums(sums(u), fs, u)
  <2> SUFFICES ASSUME NEW x \in s, NEW u \in SUBSET (s \ {x}) PROVE \E it : IsSums(it, fs, u)
    BY DEF sums
  <2>1. PICK jt : IsSums(jt, fs, s \ {x})
    BY <1>2, <1>3 DEF Bad
  <2> DEFINE kt == [v \in SUBSET u |-> jt[v]]
  <2>2. \A v \in SUBSET u : kt[v] = IF v = {} THEN zero ELSE add_assign(fs[pick(v)], kt[v \ {pick(v)}])
    <3> SUFFICES ASSUME NEW v \in SUBSET u
                 PROVE  jt[v] = IF v = {} THEN zero ELSE add_assign(fs[pick(v)], kt[v \ {pick(v)}])
      OBVIOUS
    <3>1. v \in SUBSET (s \ {x})
      OBVIOUS
    <3>2. v # {} => v \ {pick(v)} \in SUBSET u
      BY PickFacts
    <3> QED BY <2>1, <3>1, <3>2, SumsFacts
  <2>3. IsSums(kt, fs, u)
    BY <2>2 DEF IsSums
  <2> QED BY <2>3
<1> HIDE DEF sums
<1> DEFINE it == [u \in SUBSET s |-> IF u = {} THEN zero
                                    ELSE add_assign(fs[pick(u)], sums(u \ {pick(u)})[u \ {pick(u)}])]
<1>5. ASSUME NEW u \in SUBSET s
      PROVE  it[u] = IF u = {} THEN zero ELSE add_assign(fs[pick(u)], it[u \ {pick(u)}])
  <2> SUFFICES ASSUME u # {}
               PROVE  sums(u \ {pick(u)})[u \ {pick(u)}] = it[u \ {pick(u)}]
    OBVIOUS
  <2> DEFINE v == u \ {pick(u)}
  <2>1. pick(u) \in s /\ v \in SUBSET (s \ {pick(u)}) /\ v \in SUBSET s
    BY PickFacts
  <2> HIDE DEF v
  <2>2. IsSums(sums(v), fs, v)
    BY <2>1, <1>4
  <2>3. CASE v = {}
    <3>1. sums(v)[v] = zero
      BY <2>2, <2>3, SumsFacts
    <3>2. it[v] = zero
      BY <2>1, <2>3
    <3> QED BY <3>1, <3>2 DEF v
  <2>4. CASE v # {}
    <3> DEFINE z == v \ {pick(v)}
    <3>1. pick(v) \in v /\ z \in SUBSET v /\ z \in SUBSET (s \ {pick(v)}) /\ pick(v) \in s
      BY <2>1, <2>4, PickFacts
    <3>2. sums(v)[v] = add_assign(fs[pick(v)], sums(v)[z])
      BY <2>2, <2>4, SumsFacts
    <3>3. it[v] = add_assign(fs[pick(v)], sums(z)[z])
      BY <2>1, <2>4
    <3> HIDE DEF z
    <3>4. IsSums(sums(z), fs, z)
      BY <3>1, <1>4
    <3>5. IsFiniteSet(z)
      BY <3>1, <1>3, FS_Subset
    <3>6. sums(v)[z] = sums(z)[z]
      BY <3>1, <3>4, <3>5, <2>2, SumsAgree
    <3> QED BY <3>2, <3>3, <3>6 DEF v
  <2> QED BY <2>3, <2>4
<1>6. IsSums(it, fs, s)
  <2>1. it = [u \in SUBSET s |-> it[u]]
    OBVIOUS
  <2> HIDE DEF it
  <2>2. it = [u \in SUBSET s |-> IF u = {} THEN zero ELSE add_assign(fs[pick(u)], it[u \ {pick(u)}])]
    BY <2>1, <1>5
  <2> QED BY <2>2 DEF IsSums
<1> QED BY <1>3, <1>6

(* A subset sum is a Fraction.                                             *)
LEMMA SumsType ==
  ASSUME NEW fs, NEW S, IsFiniteSet(S), \A x \in S : fs[x] \in Fractions,
         NEW it, IsSums(it, fs, S), NEW u \in SUBSET S
  PROVE  it[u] \in Fractions
<1> DEFINE Bad == {s \in SUBSET S : it[s] \notin Fractions}
<1> SUFFICES ASSUME Bad # {} PROVE FALSE
  OBVIOUS
<1>1. \A s \in Bad : IsFiniteSet(s)
  BY FS_Subset
<1>2. PICK s \in Bad : \A x \in s : s \ {x} \notin Bad
  <2> HIDE DEF Bad
  <2> QED BY <1>1, LeastSet
<1>3. s \in SUBSET S /\ it[s] \notin Fractions
  OBVIOUS
<1>4. s # {}
  BY <1>3, SumsFacts DEF Fractions, zero
<1>5. pick(s) \in s /\ it[s] = add_assign(fs[pick(s)], it[s \ {pick(s)}])
  <2> HIDE DEF Bad
  <2>1. pick(s) \in s
    BY <1>4, PickFacts
  <2> QED BY <1>3, <1>4, <2>1, SumsFacts
<1>6. it[s \ {pick(s)}] \in Fractions /\ fs[pick(s)] \in Fractions
  BY <1>2, <1>3, <1>5
<1> QED BY <1>3, <1>5, <1>6, AddLaws

(* In a subset sum any element can be taken first.                         *)
LEMMA SumsRemove ==
  ASSUME NEW fs, NEW S, IsFiniteSet(S), \A x \in S : fs[x] \in Fractions,
         NEW it, IsSums(it, fs, S), NEW u \in SUBSET S, NEW e \in u
  PROVE  it[u] = add_assign(fs[e], it[u \ {e}])
<1> DEFINE Bad == {s \in SUBSET S : \E x \in s : it[s] # add_assign(fs[x], it[s \ {x}])}
<1> SUFFICES ASSUME Bad # {} PROVE FALSE
  OBVIOUS
<1>1. \A s \in Bad : IsFiniteSet(s)
  BY FS_Subset
<1>2. PICK s \in Bad : \A x \in s : s \ {x} \notin Bad
  <2> HIDE DEF Bad
  <2> QED BY <1>1, LeastSet
<1>3. PICK x \in s : it[s] # add_assign(fs[x], it[s \ {x}])
  OBVIOUS
<1> DEFINE a == pick(s)
           r == s \ {a, x}
<1>4. s \in SUBSET S /\ a \in s /\ it[s] = add_assign(fs[a], it[s \ {a}])
  BY PickFacts, SumsFacts
<1>5. x # a
  BY <1>3, <1>4
<1>6. /\ (s \ {a}) \ {x} = r /\ (s \ {x}) \ {a} = r /\ x \in s \ {a} /\ a \in s \ {x}
      /\ r \in SUBSET S
  BY <1>4, <1>5
<1>7. it[s \ {a}] = add_assign(fs[x], it[r]) /\ it[s \ {x}] = add_assign(fs[a], it[r])
  <2>1. s \ {a} \in SUBSET S /\ s \ {x} \in SUBSET S /\ s \ {a} \notin Bad /\ s \ {x} \notin Bad
    BY <1>2, <1>4
  <2> HIDE DEF a, r
  <2> QED BY <2>1, <1>6
<1> HIDE DEF a, r
<1>8. fs[a] \in Fractions /\ fs[x] \in Fractions /\ it[r] \in Fractions
  BY <1>4, <1>6, SumsType
<1>9. add_assign(fs[a], add_assign(fs[x], it[r])) = add_assign(fs[x], add_assign(fs[a], it[r]))
  <2>1. \A f, g, h \in Fractions :
          add_assign(f, add_assign(g, h)) = add_assign(g, add_assign(f, h))
    BY AddLaws
  <2> HIDE DEF Bad
  <2> QED BY <1>8, <2>1, Zenon
<1> QED BY <1>3, <1>4, <1>7, <1>9

-----------------------------------------------------------------------------
(* The sum of a finite family of Fractions.                                *)

IsShares(fs) == IsFiniteSet(DOMAIN fs) /\ fs \in [DOMAIN fs -> Fractions]

Without(fs, x) == [y \in DOMAIN fs \ {x} |-> fs[y]]

(* total is a subset sum, that of the whole domain.                        *)
LEMMA TotalIsSum ==
  ASSUME NEW fs, IsFiniteSet(DOMAIN fs)
  PROVE  \E it : IsSums(it, fs, DOMAIN fs) /\ total(fs) = it[DOMAIN fs]
<1> DEFINE sums == CHOOSE it : IsSums(it, fs, DOMAIN fs)
<1>1. IsSums(sums, fs, DOMAIN fs)
  BY SumsExist
<1>2. total(fs) = sums[DOMAIN fs]
  BY DEF total, FoldFunction, FoldFunctionOnSet, MapThenFoldSet, IsSums, pick
<1> QED BY <1>1, <1>2

(* The sum of no Fractions is zero; a sum is a Fraction, and is unchanged  *)
(* when some share is added last.                                          *)
LEMMA TotalFacts ==
  ASSUME NEW fs, IsShares(fs)
  PROVE  /\ total(fs) \in Fractions
         /\ DOMAIN fs = {} => total(fs) = zero
         /\ \A x \in DOMAIN fs : /\ IsShares(Without(fs, x))
                                 /\ total(fs) = add_assign(fs[x], total(Without(fs, x)))
<1> DEFINE D == DOMAIN fs
<1>0. IsFiniteSet(D) /\ \A x \in D : fs[x] \in Fractions
  BY DEF IsShares
<1>1. PICK it : IsSums(it, fs, D) /\ total(fs) = it[D]
  BY <1>0, TotalIsSum
<1>2. total(fs) \in Fractions
  BY <1>0, <1>1, SumsType
<1>3. D = {} => total(fs) = zero
  BY <1>1, SumsFacts
<1>4. ASSUME NEW x \in D
      PROVE  IsShares(Without(fs, x)) /\ total(fs) = add_assign(fs[x], total(Without(fs, x)))
  <2> DEFINE g == Without(fs, x)
             E == D \ {x}
  <2>1. DOMAIN g = E /\ g \in [E -> Fractions] /\ \A y \in E : g[y] = fs[y]
    BY <1>0 DEF Without
  <2>2. IsFiniteSet(E) /\ E \in SUBSET D
    BY <1>0, FS_RemoveElement
  <2> HIDE DEF g, E
  <2>3. PICK jt : IsSums(jt, g, E) /\ total(g) = jt[E]
    BY <2>1, <2>2, TotalIsSum
  <2>4. it[E] = jt[E]
    BY <1>1, <2>1, <2>2, <2>3, SumsAgree
  <2>5. it[D] = add_assign(fs[x], it[E])
    BY <1>0, <1>1, SumsRemove DEF E
  <2>6. IsShares(g)
    BY <2>1, <2>2 DEF IsShares
  <2> QED BY <1>1, <2>3, <2>4, <2>5, <2>6 DEF g
<1> QED BY <1>2, <1>3, <1>4

(* Renaming the shares does not change their sum.                          *)
LEMMA TotalRename ==
  ASSUME NEW fs, IsShares(fs), NEW gs, NEW h \in Bijection(DOMAIN fs, DOMAIN gs),
         gs \in [DOMAIN gs -> Fractions], \A x \in DOMAIN fs : gs[h[x]] = fs[x]
  PROVE  IsShares(gs) /\ total(gs) = total(fs)
<1> DEFINE D == DOMAIN fs
           E == DOMAIN gs
           im(s) == {h[x] : x \in s}
<1>0. /\ IsFiniteSet(D) /\ (\A x \in D : fs[x] \in Fractions) /\ (\A y \in E : gs[y] \in Fractions)
      /\ h \in [D -> E] /\ (\A x, y \in D : h[x] = h[y] => x = y) /\ (\A y \in E : \E x \in D : h[x] = y)
  BY DEF IsShares, Bijection, Injection, IsInjective, Surjection
<1>1. IsFiniteSet(E)
  BY <1>0, FS_Surjection DEF Bijection
<1>2. PICK it : IsSums(it, fs, D) /\ total(fs) = it[D]
  BY <1>0, TotalIsSum
<1>3. PICK jt : IsSums(jt, gs, E) /\ total(gs) = jt[E]
  BY <1>1, TotalIsSum
<1>4. im(D) = E
  BY <1>0
<1> HIDE DEF D, E
<1> SUFFICES it[D] = jt[im(D)]
  BY <1>1, <1>2, <1>3, <1>4 DEF IsShares, D, E
<1> DEFINE Bad == {s \in SUBSET D : it[s] # jt[im(s)]}
<1> SUFFICES ASSUME Bad # {} PROVE FALSE
  OBVIOUS
<1>5. \A s \in Bad : IsFiniteSet(s)
  BY <1>0, FS_Subset
<1>6. PICK s \in Bad : \A x \in s : s \ {x} \notin Bad
  <2> HIDE DEF Bad
  <2> QED BY <1>5, LeastSet
<1>7. s \in SUBSET D /\ it[s] # jt[im(s)] /\ im(s) \in SUBSET E
  BY <1>0
<1>8. CASE s = {}
  <2>1. im(s) = {}
    BY <1>8
  <2> QED BY <1>2, <1>3, <1>7, <1>8, <2>1, SumsFacts
<1>9. ASSUME NEW x \in s PROVE FALSE
  <2>1. im(s) \ {h[x]} = im(s \ {x}) /\ h[x] \in im(s)
    BY <1>0, <1>7
  <2>2. it[s] = add_assign(fs[x], it[s \ {x}])
    BY <1>0, <1>2, <1>7, SumsRemove
  <2>3. jt[im(s)] = add_assign(gs[h[x]], jt[im(s) \ {h[x]}])
    <3> HIDE DEF im
    <3> QED BY <1>0, <1>1, <1>3, <1>7, <2>1, SumsRemove
  <2>4. it[s \ {x}] = jt[im(s \ {x})]
    BY <1>6, <1>7
  <2>5. gs[h[x]] = fs[x]
    BY <1>7 DEF D
  <2> HIDE DEF im, Bad
  <2> QED BY <1>7, <2>1, <2>2, <2>3, <2>4, <2>5
<1> QED BY <1>8, <1>9

-----------------------------------------------------------------------------
(* Shares that add up to one with what was reported of them.               *)

Conserves(fs, p) == IsShares(fs) /\ p \in Fractions /\ is_one(add_assign(total(fs), p))

(* A share can be split in two that add up to it.                          *)
LEMMA SplitShare ==
  ASSUME NEW fs, NEW p, Conserves(fs, p), NEW x \in DOMAIN fs,
         NEW gs, NEW y, NEW z, y # z, gs \in [DOMAIN gs -> Fractions],
         y \notin DOMAIN fs, z \notin DOMAIN fs,
         DOMAIN gs = (DOMAIN fs \ {x}) \cup {y, z},
         \A u \in DOMAIN fs \ {x} : gs[u] = fs[u],
         SumsTo(gs[y], gs[z], fs[x])
  PROVE  Conserves(gs, p)
<1>1. IsShares(fs) /\ p \in Fractions /\ is_one(add_assign(total(fs), p))
  BY DEF Conserves
<1>2. IsShares(gs)
  <2>1. IsFiniteSet((DOMAIN fs \ {x}) \cup {y, z})
    <3>1. IsFiniteSet(DOMAIN fs \ {x})
      BY <1>1, FS_RemoveElement DEF IsShares
    <3>2. IsFiniteSet((DOMAIN fs \ {x}) \cup {y})
      BY <3>1, FS_AddElement
    <3>3. ((DOMAIN fs \ {x}) \cup {y}) \cup {z} = (DOMAIN fs \ {x}) \cup {y, z}
      OBVIOUS
    <3> QED BY <3>2, <3>3, FS_AddElement
  <2> QED BY <2>1 DEF IsShares
<1> DEFINE rest == Without(fs, x)
           i == fs[x]
           k == gs[y]
           c == gs[z]
           kc == add_assign(k, c)
           old == total(fs)
           part == total(Without(gs, y))
           new == total(gs)
           r == total(rest)
<1>3. old = add_assign(i, r) /\ r \in Fractions /\ i \in Fractions
  <2>1. IsShares(rest) /\ old = add_assign(i, r)
    BY <1>1, TotalFacts
  <2> QED BY <1>1, <2>1, TotalFacts DEF IsShares
<1>4. IsShares(Without(gs, y)) /\ new = add_assign(k, part) /\ k \in Fractions /\ c \in Fractions
  BY <1>2, TotalFacts
<1>5. part = add_assign(c, r)
  <2> DEFINE g == Without(gs, y)
  <2>1. DOMAIN g = DOMAIN gs \ {y} /\ \A u \in DOMAIN gs \ {y} : g[u] = gs[u]
    BY DEF Without
  <2> HIDE DEF g
  <2>2. z \in DOMAIN g /\ g[z] = c /\ DOMAIN g \ {z} = DOMAIN fs \ {x}
    BY <2>1
  <2>3. \A u \in DOMAIN g \ {z} : g[u] = fs[u]
    BY <2>1, <2>2
  <2>4. Without(g, z) = rest
    BY <2>2, <2>3 DEF Without
  <2> QED BY <1>4, <2>2, <2>4, TotalFacts DEF g
<1>6. SumsTo(k, c, i)
  OBVIOUS
<1> HIDE DEF rest, i, k, c, old, part, new, r
<1> DEFINE d == i.denom_pow + r.denom_pow + k.denom_pow + c.denom_pow + p.denom_pow
<1>7. /\ d \in Nat /\ i.denom_pow <= d /\ r.denom_pow <= d /\ k.denom_pow <= d
      /\ c.denom_pow <= d /\ p.denom_pow <= d
  BY <1>1, <1>3, <1>4 DEF Fractions
<1> HIDE DEF d
<1>8. /\ kc \in Fractions /\ kc.denom_pow <= d /\ Over(kc, d) = Over(k, d) + Over(c, d)
  BY <1>4, <1>7, OverAdds
<1>9. /\ old \in Fractions /\ old.denom_pow <= d /\ Over(old, d) = Over(i, d) + Over(r, d)
  BY <1>3, <1>7, OverAdds
<1>10. /\ part \in Fractions /\ part.denom_pow <= d /\ Over(part, d) = Over(c, d) + Over(r, d)
  BY <1>3, <1>4, <1>5, <1>7, OverAdds
<1>11. /\ new \in Fractions /\ new.denom_pow <= d /\ Over(new, d) = Over(k, d) + Over(part, d)
  BY <1>4, <1>7, <1>10, OverAdds
<1>12. Over(kc, d) = Over(i, d)
  <2> DEFINE a == 2^(kc.denom_pow - i.denom_pow)
             b == 2^(d - kc.denom_pow)
  <2>1. i.denom_pow <= kc.denom_pow /\ kc.num = i.num * a
    BY <1>6 DEF SumsTo
  <2>2. /\ kc.denom_pow - i.denom_pow \in Nat /\ d - kc.denom_pow \in Nat /\ i.num \in Nat
        /\ (kc.denom_pow - i.denom_pow) + (d - kc.denom_pow) = d - i.denom_pow
    BY <2>1, <1>3, <1>7, <1>8 DEF Fractions
  <2>3. 2^(d - i.denom_pow) = a * b /\ a \in Nat /\ b \in Nat
    BY <2>2, PowSum, PowPos
  <2>4. Over(kc, d) = kc.num * b /\ Over(i, d) = i.num * (a * b)
    BY <2>3 DEF Over
  <2> HIDE DEF a, b
  <2>5. (i.num * a) * b = i.num * (a * b)
    BY <2>2, <2>3
  <2> QED BY <2>1, <2>4, <2>5
<1>13. /\ Over(i, d) \in Nat /\ Over(r, d) \in Nat /\ Over(k, d) \in Nat /\ Over(c, d) \in Nat
       /\ Over(p, d) \in Nat
  BY <1>1, <1>3, <1>4, <1>7, OverFacts
<1>14. Over(new, d) = Over(old, d)
  BY <1>8, <1>9, <1>10, <1>11, <1>12, <1>13
<1>15. /\ add_assign(old, p) \in Fractions /\ add_assign(old, p).denom_pow <= d
       /\ Over(add_assign(old, p), d) = Over(old, d) + Over(p, d)
  BY <1>1, <1>7, <1>9, OverAdds
<1>16. /\ add_assign(new, p) \in Fractions /\ add_assign(new, p).denom_pow <= d
       /\ Over(add_assign(new, p), d) = Over(new, d) + Over(p, d)
  BY <1>1, <1>7, <1>11, OverAdds
<1>17. is_one(add_assign(old, p))
  BY <1>1 DEF old
<1>18. is_one(add_assign(new, p))
  BY <1>7, <1>14, <1>15, <1>16, <1>17, OverFacts
<1> QED BY <1>1, <1>2, <1>18 DEF Conserves, new

(* Shares can be renamed, for instance when an item becomes a message.     *)
LEMMA RenameShares ==
  ASSUME NEW fs, NEW p, Conserves(fs, p),
         NEW gs, NEW h \in Bijection(DOMAIN fs, DOMAIN gs),
         gs \in [DOMAIN gs -> Fractions], \A x \in DOMAIN fs : gs[h[x]] = fs[x]
  PROVE  Conserves(gs, p)
BY TotalRename DEF Conserves

(* A share moves to what was reported.                                     *)
LEMMA ReportShare ==
  ASSUME NEW fs, NEW p, Conserves(fs, p), NEW x \in DOMAIN fs
  PROVE  Conserves(Without(fs, x), add_assign(p, fs[x]))
<1> DEFINE r == total(Without(fs, x))
           m == fs[x]
<1>1. IsShares(fs) /\ p \in Fractions /\ is_one(add_assign(total(fs), p)) /\ m \in Fractions
  BY DEF Conserves, IsShares
<1>2. IsShares(Without(fs, x)) /\ total(fs) = add_assign(m, r)
  BY <1>1, TotalFacts
<1>3. r \in Fractions
  BY <1>2, TotalFacts
<1> HIDE DEF r, m
<1>4. add_assign(p, m) \in Fractions
  BY <1>1, AddLaws
<1>5. add_assign(add_assign(m, r), p) = add_assign(r, add_assign(p, m))
  <2>1. add_assign(m, r) = add_assign(r, m) /\ add_assign(r, m) \in Fractions
    BY <1>1, <1>3, AddLaws
  <2>2. add_assign(add_assign(r, m), p) = add_assign(p, add_assign(r, m))
    BY <1>1, <2>1, AddLaws
  <2>3. add_assign(p, add_assign(r, m)) = add_assign(r, add_assign(p, m))
    BY <1>1, <1>3, AddLaws
  <2> QED BY <2>1, <2>2, <2>3
<1>6. is_one(add_assign(r, add_assign(p, m)))
  BY <1>1, <1>2, <1>5
<1> QED BY <1>2, <1>4, <1>6 DEF Conserves, r, m

(* When what was reported is one, no share is left: none of them is zero.  *)
LEMMA NoShareLeft ==
  ASSUME NEW fs, NEW p, Conserves(fs, p), is_one(p), \A x \in DOMAIN fs : fs[x].num # 0
  PROVE  DOMAIN fs = {}
<1> SUFFICES ASSUME NEW x \in DOMAIN fs PROVE FALSE
  OBVIOUS
<1> DEFINE r == total(Without(fs, x))
           m == fs[x]
           sum == total(fs)
           all == add_assign(sum, p)
<1>1. IsShares(fs) /\ p \in Fractions /\ is_one(all) /\ m \in Fractions /\ m.num # 0
  BY DEF Conserves, IsShares
<1>2. IsShares(Without(fs, x)) /\ sum = add_assign(m, r)
  BY <1>1, TotalFacts
<1>3. r \in Fractions
  BY <1>2, TotalFacts
<1> HIDE DEF r, m, sum
<1> DEFINE d == m.denom_pow + r.denom_pow + p.denom_pow
<1>4. d \in Nat /\ m.denom_pow <= d /\ r.denom_pow <= d /\ p.denom_pow <= d
  BY <1>1, <1>3 DEF Fractions
<1> HIDE DEF d
<1>5. sum \in Fractions /\ sum.denom_pow <= d /\ Over(sum, d) = Over(m, d) + Over(r, d)
  BY <1>1, <1>2, <1>3, <1>4, OverAdds
<1>6. all \in Fractions /\ all.denom_pow <= d /\ Over(all, d) = Over(sum, d) + Over(p, d)
  BY <1>1, <1>4, <1>5, OverAdds
<1> HIDE DEF all
<1>7. Over(all, d) = 2^d /\ Over(p, d) = 2^d
  BY <1>1, <1>4, <1>6, OverFacts
<1>8. Over(m, d) \in Nat /\ Over(r, d) \in Nat /\ Over(p, d) \in Nat /\ Over(m, d) # 0
  BY <1>1, <1>3, <1>4, OverFacts
<1> QED BY <1>5, <1>6, <1>7, <1>8

-----------------------------------------------------------------------------
(* The Fractions of a fork.                                                *)

PosFraction == [num : Nat \ {0}, denom_pow : Nat]

(* halve gives two positive halves that add up to the whole.               *)
LEMMA HalvesAddUp ==
  ASSUME NEW f \in PosFraction
  PROVE  halve(f) \in PosFraction /\ SumsTo(halve(f), halve(f), f)
<1>1. halve(f) = [num |-> f.num, denom_pow |-> f.denom_pow + 1]
  BY DEF halve, PosFraction
<1>2. f.num \in Nat \ {0} /\ f.denom_pow \in Nat
  BY DEF PosFraction
<1>3. (f.denom_pow + 1) - (f.denom_pow + 1) = 0 /\ (f.denom_pow + 1) - f.denom_pow = 0 + 1
  BY <1>2
<1>4. 2^((f.denom_pow + 1) - (f.denom_pow + 1)) = 1 /\ 2^((f.denom_pow + 1) - f.denom_pow) = 2
  BY <1>3, PowZero, PowSucc
<1>5. f.num + f.num * 1 = f.num * 2 /\ ~(f.denom_pow + 1 < f.denom_pow + 1)
  BY <1>2
<1>6. add_assign(halve(f), halve(f)) = [num |-> f.num * 2, denom_pow |-> f.denom_pow + 1]
  BY <1>1, <1>4, <1>5 DEF add_assign
<1>7. SumsTo(halve(f), halve(f), f)
  BY <1>2, <1>4, <1>6 DEF SumsTo
<1> QED BY <1>1, <1>2, <1>7 DEF PosFraction

(* min_split keeps one part and returns the rest: both are positive, and   *)
(* they add up.                                                            *)
LEMMA SplitAddsUp ==
  ASSUME NEW f \in PosFraction, NEW pow \in Nat \ {0}
  PROVE  /\ min_split_self(f, pow) \in PosFraction
         /\ min_split_rest(f, pow) \in PosFraction
         /\ SumsTo(min_split_self(f, pow), min_split_rest(f, pow), f)
<1> DEFINE s == splittable(f, pow)
           k == 2^pow
<1>1. f.num \in Nat \ {0} /\ f.denom_pow \in Nat /\ pow \in Nat
  BY DEF PosFraction
<1>2. k \in Nat /\ k > 1
  <2> DEFINE n == pow - 1
  <2>1. n \in Nat /\ n + 1 = pow
    OBVIOUS
  <2> HIDE DEF n
  <2>2. 2^n \in Nat \ {0} /\ k = 2 * 2^n
    BY <2>1, PowPos, PowSucc
  <2> HIDE DEF k
  <2> QED BY <2>2
<1>3. /\ s = [num |-> s.num, denom_pow |-> s.denom_pow]
      /\ s.num \in Nat /\ s.num > 1 /\ s.denom_pow \in Nat /\ f.denom_pow <= s.denom_pow
      /\ s.num = f.num * 2^(s.denom_pow - f.denom_pow)
  <2>1. CASE f.num = 1
    <3>1. s = [num |-> f.num * k, denom_pow |-> f.denom_pow + pow]
      BY <2>1 DEF splittable, divide_pow
    <3>2. (f.denom_pow + pow) - f.denom_pow = pow
      BY <1>1
    <3> HIDE DEF s
    <3>3. s.num = f.num * k /\ s.denom_pow = f.denom_pow + pow
      BY <3>1
    <3>4. s.denom_pow - f.denom_pow = pow
      BY <3>2, <3>3
    <3>5. s.num = f.num * 2^(s.denom_pow - f.denom_pow)
      BY <3>3, <3>4
    <3> HIDE DEF k
    <3> QED BY <1>1, <1>2, <2>1, <3>1, <3>3, <3>5
  <2>2. CASE f.num # 1
    <3>1. s = f /\ f.denom_pow - f.denom_pow = 0
      BY <2>2, <1>1 DEF splittable
    <3>2. 2^(f.denom_pow - f.denom_pow) = 1
      BY <3>1, PowZero
    <3> QED BY <2>2, <3>1, <3>2, <1>1 DEF PosFraction
  <2> QED BY <2>1, <2>2
<1> HIDE DEF s, k
<1>4. /\ min_split_self(f, pow) = [num |-> 1, denom_pow |-> s.denom_pow]
      /\ min_split_rest(f, pow) = [num |-> s.num - 1, denom_pow |-> s.denom_pow]
  <2>1. /\ min_split_self(f, pow) = [s EXCEPT !.num = 1]
        /\ min_split_rest(f, pow) = [s EXCEPT !.num = @ - 1]
    BY DEF min_split_self, min_split_rest, s
  <2> QED BY <2>1, <1>3
<1>5. add_assign(min_split_self(f, pow), min_split_rest(f, pow))
        = [num |-> s.num, denom_pow |-> s.denom_pow]
  <2>1. s.denom_pow - s.denom_pow = 0 /\ ~(s.denom_pow < s.denom_pow)
    BY <1>3
  <2>2. 2^(s.denom_pow - s.denom_pow) = 1
    BY <2>1, PowZero
  <2>3. 1 + (s.num - 1) * 1 = s.num
    BY <1>3
  <2> QED BY <1>4, <2>1, <2>2, <2>3 DEF add_assign
<1>6. SumsTo(min_split_self(f, pow), min_split_rest(f, pow), f)
  BY <1>3, <1>5 DEF SumsTo
<1>7. s.num - 1 \in Nat \ {0} /\ 1 \in Nat \ {0}
  BY <1>3
<1> QED BY <1>3, <1>4, <1>6, <1>7 DEF PosFraction

-----------------------------------------------------------------------------
(* Paths of symbolic execution, as the branch numbers that their Fork      *)
(* events record (isla-lib/src/smt.rs, Event::Fork): 0 for the path that   *)
(* goes on, 1 for the task that is queued.                                 *)

\* Two paths part ways at some branch: neither is the beginning of the other.
Diverge(s, t) == \E n \in 1..Len(s) : n <= Len(t) /\ s[n] # t[n]

(* Diverging is symmetric and survives further branches, and the two       *)
(* branches of a path diverge, but neither does from the path itself.      *)
LEMMA DivergeFacts ==
  ASSUME NEW s \in Seq({0, 1}), NEW t \in Seq({0, 1}), NEW b \in {0, 1}
  PROVE  /\ Diverge(s, t) => Diverge(t, s)
         /\ Diverge(s, t) => Diverge(Append(s, b), t)
         /\ Diverge(Append(s, 0), Append(s, 1))
         /\ ~Diverge(s, Append(s, b)) /\ s # Append(s, b)
<1>1. /\ Len(s) \in Nat /\ Len(t) \in Nat /\ Len(Append(s, b)) = Len(s) + 1
      /\ \A c \in {0, 1} : /\ Append(s, c) \in Seq({0, 1})
                            /\ Len(Append(s, c)) = Len(s) + 1
                            /\ Append(s, c)[Len(s) + 1] = c
                            /\ \A n \in 1..Len(s) : Append(s, c)[n] = s[n]
  OBVIOUS
<1>2. Diverge(s, t) => Diverge(t, s)
  BY <1>1 DEF Diverge
<1>3. Diverge(s, t) => Diverge(Append(s, b), t)
  BY <1>1 DEF Diverge
<1>4. Diverge(Append(s, 0), Append(s, 1))
  <2>1. /\ Len(s) + 1 \in 1..Len(Append(s, 0)) /\ Len(s) + 1 <= Len(Append(s, 1))
        /\ Append(s, 0)[Len(s) + 1] # Append(s, 1)[Len(s) + 1]
    BY <1>1
  <2> QED BY <2>1 DEF Diverge
<1>5. ~Diverge(s, Append(s, b)) /\ s # Append(s, b)
  BY <1>1 DEF Diverge
<1> QED BY <1>2, <1>3, <1>4, <1>5

=============================================================================
