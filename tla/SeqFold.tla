------------------------------- MODULE SeqFold ------------------------------
(***************************************************************************)
(* The fold of a sequence, oldest element first, as a recursive function,  *)
(* and the two equations that define it, for any step.  The operator is a  *)
(* constant so that a module that folds instantiates the equations too.    *)
(***************************************************************************)
EXTENDS WellFoundedInduction, Sequences, TLAPS

CONSTANT Step(_, _)

fold(base, s) ==
  LET upto[n \in 0..Len(s)] == IF n = 0 THEN base ELSE Step(upto[n - 1], s[n])
  IN  upto[Len(s)]

-----------------------------------------------------------------------------
(* A set of numbers that is not empty has a least element.                 *)
LEMMA LeastNat ==
  ASSUME NEW T \in SUBSET Nat, T # {}
  PROVE  \E x \in T : \A y \in T : x <= y
<1> DEFINE R == OpToRel(<, Nat)
<1>1. \A x, y \in Nat : y < x => <<y, x>> \in R
  BY DEF OpToRel
<1>2. IsWellFoundedOn(R, Nat)
  BY NatLessThanWellFounded
<1> HIDE DEF R
<1>3. PICK x \in T : \A y \in T : ~(<<y, x>> \in R)
  BY <1>2, WFMin
<1>4. \A y \in T : ~(y < x)
  BY <1>1, <1>3
<1>5. \A y \in T : x <= y
  BY <1>4
<1> QED BY <1>5

\* g holds the folds of the prefixes of s, up to the n-th.
IsFold(g, base, s, n) ==
  g = [m \in 0..n |-> IF m = 0 THEN base ELSE Step(g[m - 1], s[m])]

(* There is such a function.                                               *)
LEMMA FoldExists ==
  ASSUME NEW base, NEW s, NEW n \in Nat PROVE \E g : IsFold(g, base, s, n)
<1> DEFINE Bad == {k \in Nat : ~ \E g : IsFold(g, base, s, k)}
<1> SUFFICES ASSUME Bad # {} PROVE FALSE
  OBVIOUS
<1>1. PICK k \in Bad : \A j \in Bad : k <= j
  BY LeastNat
<1>2. k # 0
  <2>1. IsFold([m \in 0..0 |-> base], base, s, 0)
    BY DEF IsFold
  <2> QED BY <2>1
<1>3. k \in Nat /\ k - 1 \in Nat /\ k - 1 \notin Bad
  BY <1>1, <1>2
<1>4. PICK g : IsFold(g, base, s, k - 1)
  BY <1>3
<1> DEFINE h == [m \in 0..k |-> IF m = k THEN Step(g[k - 1], s[k]) ELSE g[m]]
<1>5. \A m \in 0..k : h[m] = IF m = 0 THEN base ELSE Step(h[m - 1], s[m])
  <2>1. \A m \in 0..(k - 1) : h[m] = g[m] /\ g[m] = IF m = 0 THEN base ELSE Step(g[m - 1], s[m])
    BY <1>3, <1>4 DEF IsFold
  <2>2. h[k] = Step(h[k - 1], s[k])
    BY <2>1, <1>2, <1>3
  <2>3. \A m \in 0..(k - 1) : m # 0 => m - 1 \in 0..(k - 1)
    BY <1>3
  <2> HIDE DEF h
  <2>4. \A m \in 0..(k - 1) : h[m] = IF m = 0 THEN base ELSE Step(h[m - 1], s[m])
    BY <2>1, <2>3
  <2> QED BY <2>2, <2>4, <1>2, <1>3
<1>6. IsFold(h, base, s, k)
  BY <1>5 DEF IsFold
<1> QED BY <1>1, <1>6

(* It depends on the elements it has folded, and on nothing else.          *)
LEMMA FoldUnique ==
  ASSUME NEW base, NEW s, NEW t, NEW n \in Nat, NEW k \in Nat, NEW j \in Nat, n <= k, n <= j,
         NEW g, NEW h, IsFold(g, base, s, k), IsFold(h, base, t, j),
         \A m \in 1..n : s[m] = t[m]
  PROVE  g[n] = h[n]
<1> DEFINE Bad == {m \in 0..n : g[m] # h[m]}
<1> SUFFICES ASSUME Bad # {} PROVE FALSE
  OBVIOUS
<1>1. PICK m \in Bad : \A i \in Bad : m <= i
  <2>1. Bad \in SUBSET Nat
    OBVIOUS
  <2> HIDE DEF Bad
  <2> QED BY <2>1, LeastNat
<1>2. m \in 0..k /\ m \in 0..j
  OBVIOUS
<1>3. g[m] = (IF m = 0 THEN base ELSE Step(g[m - 1], s[m]))
      /\ h[m] = (IF m = 0 THEN base ELSE Step(h[m - 1], t[m]))
  BY <1>2 DEF IsFold
<1>4. m # 0
  BY <1>3
<1>5. m - 1 \in 0..n /\ m \in 1..n
  BY <1>4
<1>6. g[m - 1] = h[m - 1]
  BY <1>1, <1>5
<1> QED BY <1>3, <1>4, <1>5, <1>6

(* The fold of a sequence is the last of these.                            *)
LEMMA FoldIs ==
  ASSUME NEW base, NEW s, Len(s) \in Nat
  PROVE  \E g : IsFold(g, base, s, Len(s)) /\ fold(base, s) = g[Len(s)]
<1> DEFINE upto == CHOOSE g : IsFold(g, base, s, Len(s))
<1>1. IsFold(upto, base, s, Len(s))
  BY FoldExists
<1>2. fold(base, s) = upto[Len(s)]
  BY DEF fold, IsFold
<1> QED BY <1>1, <1>2

(* Nothing is folded.                                                      *)
LEMMA FoldEmpty == ASSUME NEW base PROVE fold(base, <<>>) = base
<1>1. PICK g : IsFold(g, base, <<>>, 0) /\ fold(base, <<>>) = g[0]
  BY FoldIs
<1> QED BY <1>1 DEF IsFold

(* One more element is one more step.                                      *)
LEMMA FoldAppend ==
  ASSUME NEW base, NEW E, NEW s \in Seq(E), NEW e \in E
  PROVE  fold(base, Append(s, e)) = Step(fold(base, s), e)
<1> DEFINE n == Len(s)
           t == Append(s, e)
<1>1. n \in Nat /\ Len(t) = n + 1 /\ t[n + 1] = e /\ \A m \in 1..n : t[m] = s[m]
  OBVIOUS
<1>a. Len(s) \in Nat /\ Len(t) \in Nat
  BY <1>1
<1> HIDE DEF t
<1>b. \E g : IsFold(g, base, s, Len(s)) /\ fold(base, s) = g[Len(s)]
  BY <1>a, FoldIs, Zenon
<1>c. \E h : IsFold(h, base, t, Len(t)) /\ fold(base, t) = h[Len(t)]
  BY <1>a, FoldIs, Zenon
<1>2. PICK g : IsFold(g, base, s, n) /\ fold(base, s) = g[n]
  BY <1>b
<1>3. PICK h : IsFold(h, base, t, n + 1) /\ fold(base, t) = h[n + 1]
  <2>1. Len(t) = n + 1
    BY <1>1
  <2> HIDE DEF n
  <2> QED BY <2>1, <1>c, Zenon
<1> HIDE DEF n
<1>4. h[n] = g[n]
  <2>1. n \in Nat /\ n + 1 \in Nat /\ n <= n /\ n <= n + 1 /\ \A m \in 1..n : s[m] = t[m]
    BY <1>1
  <2>2. IsFold(g, base, s, n) /\ IsFold(h, base, t, n + 1)
    BY <1>2, <1>3
  <2>3. g[n] = h[n]
    BY ONLY <2>1, <2>2, FoldUnique
  <2> QED BY <2>3
<1>5. h[n + 1] = Step(h[n], t[n + 1])
  <2>1. n + 1 \in 0..(n + 1) /\ n + 1 # 0 /\ (n + 1) - 1 = n
    BY <1>1
  <2>2. h[n + 1] = Step(h[(n + 1) - 1], t[n + 1])
    BY <1>3, <2>1 DEF IsFold
  <2> QED BY <2>1, <2>2
<1> QED BY <1>1, <1>2, <1>3, <1>4, <1>5 DEF t

(* A sequence that is not empty, without its last element.                 *)
LEMMA ButLast ==
  ASSUME NEW E, NEW s \in Seq(E), s # <<>>
  PROVE  /\ SubSeq(s, 1, Len(s) - 1) \in Seq(E) /\ Len(SubSeq(s, 1, Len(s) - 1)) = Len(s) - 1
         /\ Len(s) \in Nat \ {0} /\ s[Len(s)] \in E
         /\ \A n \in 1..(Len(s) - 1) : SubSeq(s, 1, Len(s) - 1)[n] = s[n]
         /\ s = Append(SubSeq(s, 1, Len(s) - 1), s[Len(s)])
<1> DEFINE n == Len(s)
           r == SubSeq(s, 1, n - 1)
           t == Append(r, s[n])
<1>1. n \in Nat \ {0} /\ s[n] \in E /\ DOMAIN s = 1..n
  OBVIOUS
<1>2. r \in Seq(E) /\ Len(r) = n - 1 /\ \A m \in 1..(n - 1) : r[m] = s[m]
  BY <1>1
<1> HIDE DEF r
<1>3. t \in Seq(E) /\ Len(t) = n /\ DOMAIN t = 1..n /\ t[n] = s[n] /\ \A m \in 1..(n - 1) : t[m] = s[m]
  <2> DEFINE x == s[n]
  <2>1. x \in E /\ n \in Nat \ {0} /\ t = Append(r, x)
    BY <1>1
  <2> HIDE DEF n, x, t
  <2>2. t \in Seq(E) /\ Len(t) = n /\ t[n] = x /\ \A m \in 1..(n - 1) : t[m] = r[m]
    BY <1>2, <2>1
  <2>3. DOMAIN t = 1..n
    BY <2>1, <2>2
  <2> QED BY <1>2, <2>2, <2>3 DEF x
<1> HIDE DEF t
<1>4. \A m \in 1..n : t[m] = s[m]
  BY <1>1, <1>3
<1>5. t = s
  <2>1. t = [m \in 1..n |-> t[m]] /\ s = [m \in 1..n |-> s[m]]
    BY <1>1, <1>3
  <2> QED BY <1>4, <2>1, Zenon
<1> QED BY <1>1, <1>2, <1>5 DEF r, t

(* What every step keeps, the fold has.                                    *)
LEMMA FoldType ==
  ASSUME NEW E, NEW T, NEW base \in T, \A a \in T, e \in E : Step(a, e) \in T, NEW s \in Seq(E)
  PROVE  fold(base, s) \in T
<1> DEFINE Bad == {n \in Nat : \E q \in Seq(E) : Len(q) = n /\ fold(base, q) \notin T}
<1> SUFFICES ASSUME Bad # {} PROVE FALSE
  <2>1. Len(s) \in Nat
    OBVIOUS
  <2> QED BY <2>1
<1>1. PICK n \in Bad : \A m \in Bad : n <= m
  <2>1. Bad \in SUBSET Nat
    OBVIOUS
  <2> HIDE DEF Bad
  <2> QED BY <2>1, LeastNat
<1>2. PICK q \in Seq(E) : Len(q) = n /\ fold(base, q) \notin T
  OBVIOUS
<1>3. q # <<>>
  BY <1>2, FoldEmpty
<1> DEFINE r == SubSeq(q, 1, Len(q) - 1)
           l == q[Len(q)]
<1>4. r \in Seq(E) /\ Len(r) = n - 1 /\ n \in Nat \ {0} /\ l \in E /\ q = Append(r, l)
  BY <1>2, <1>3, ButLast
<1> HIDE DEF r, l
<1>5. n - 1 \in Nat /\ n - 1 \notin Bad
  BY <1>1, <1>4
<1>6. fold(base, r) \in T
  BY <1>4, <1>5
<1>7. fold(base, q) = Step(fold(base, r), l)
  BY <1>4, FoldAppend
<1> QED BY <1>2, <1>4, <1>6, <1>7

(* What every step keeps of the elements folded and their fold, all of     *)
(* them have.                                                              *)
LEMMA FoldInduct ==
  ASSUME NEW E, NEW Rel, NEW base, << <<>>, base >> \in Rel,
         \A q \in Seq(E), e \in E : \A a : <<q, a>> \in Rel => <<Append(q, e), Step(a, e)>> \in Rel,
         NEW s \in Seq(E)
  PROVE  <<s, fold(base, s)>> \in Rel
<1> DEFINE Bad == {n \in Nat : \E q \in Seq(E) : Len(q) = n /\ <<q, fold(base, q)>> \notin Rel}
<1> SUFFICES ASSUME Bad # {} PROVE FALSE
  <2>1. Len(s) \in Nat
    OBVIOUS
  <2> QED BY <2>1
<1>1. PICK n \in Bad : \A m \in Bad : n <= m
  <2>1. Bad \in SUBSET Nat
    OBVIOUS
  <2> HIDE DEF Bad
  <2> QED BY <2>1, LeastNat
<1>2. PICK q \in Seq(E) : Len(q) = n /\ <<q, fold(base, q)>> \notin Rel
  OBVIOUS
<1>3. q # <<>>
  BY <1>2, FoldEmpty
<1> DEFINE r == SubSeq(q, 1, Len(q) - 1)
           l == q[Len(q)]
<1>4. r \in Seq(E) /\ Len(r) = n - 1 /\ n \in Nat \ {0} /\ l \in E /\ q = Append(r, l)
  BY <1>2, <1>3, ButLast
<1> HIDE DEF r, l
<1>5. n - 1 \in Nat /\ n - 1 \notin Bad
  <2> HIDE DEF Bad
  <2>1. n - 1 \in Nat /\ ~(n <= n - 1)
    BY <1>4
  <2> QED BY <1>1, <2>1
<1>6. <<r, fold(base, r)>> \in Rel
  BY <1>4, <1>5
<1>7. fold(base, q) = Step(fold(base, r), l)
  BY <1>4, FoldAppend
<1> QED BY <1>2, <1>4, <1>6, <1>7

=============================================================================
