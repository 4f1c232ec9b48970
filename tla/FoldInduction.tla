---------------------------- MODULE FoldInduction ----------------------------
(***************************************************************************)
(* Induction over a list: what a step keeps, the fold of the step over a   *)
(* list keeps.  The step and what it keeps are constants of this module,   *)
(* so that a proof cites the lemma through an instance of it.              *)
(***************************************************************************)
EXTENDS Integers, SequencesExt, WellFoundedInduction, TLAPS

CONSTANTS
  Step(_, _, _),   \* in a context, what is reached and the next element
  Keeps(_, _)      \* in a context, of what is reached

Fold(e, base, s) == FoldLeft(LAMBDA a, x : Step(e, a, x), base, s)

(* The fold of the elements whose indices are in a subset of 1..n, the     *)
(* largest index last.                                                     *)
IsIteration(f, e, base, s, n) ==
  f = [t \in SUBSET (1..n) |-> IF t = {} THEN base ELSE Step(e, f[t \ {Max(t)}], s[Max(t)])]

-----------------------------------------------------------------------------
(* The largest index of a set that reaches its bound is the bound.         *)
LEMMA MaxIsBound ==
    ASSUME NEW n \in Nat, NEW t \in SUBSET (1..n), n \in t
    PROVE  Max(t) = n
<1>1. \E x \in t : \A y \in t : x >= y
  OBVIOUS
<1>2. Max(t) \in t /\ \A y \in t : Max(t) >= y
  BY <1>1 DEF Max
<1>3. Max(t) \in 1..n /\ Max(t) >= n
  BY <1>2
<1> QED BY <1>3

(* A set of numbers with an element has a least one.                       *)
LEMMA LeastOf ==
    ASSUME NEW T \in SUBSET Nat, T # {}
    PROVE  \E m \in T : \A k \in T : m <= k
<1> DEFINE R == OpToRel(<, Nat)
<1>1. IsWellFoundedOn(R, Nat)
  BY NatLessThanWellFounded
<1>2. \A x, y \in Nat : x < y => <<x, y>> \in R
  BY DEF OpToRel
<1> HIDE DEF R
<1>3. PICK m \in T : \A k \in T : ~(<<k, m>> \in R)
  BY <1>1, WFMin
<1>4. \A k \in T : ~(k < m)
  BY <1>2, <1>3
<1> QED BY <1>4

(* The iteration over one element more extends the one without it.         *)
LEMMA IterationExtends ==
    ASSUME NEW e, NEW base, NEW s, NEW n \in Nat, NEW f, IsIteration(f, e, base, s, n)
    PROVE  \E g : IsIteration(g, e, base, s, n + 1)
<1> DEFINE g == [t \in SUBSET (1..(n + 1)) |->
                   IF n + 1 \in t THEN Step(e, f[t \ {n + 1}], s[n + 1]) ELSE f[t]]
<1>1. \A t \in SUBSET (1..(n + 1)) : n + 1 \notin t => t \in SUBSET (1..n) /\ g[t] = f[t]
  OBVIOUS
<1>2. ASSUME NEW t \in SUBSET (1..(n + 1))
      PROVE  g[t] = IF t = {} THEN base ELSE Step(e, g[t \ {Max(t)}], s[Max(t)])
  <2>1. CASE n + 1 \in t
    <3>1. Max(t) = n + 1
      BY <2>1, MaxIsBound
    <3>2. t \ {n + 1} \in SUBSET (1..(n + 1)) /\ n + 1 \notin t \ {n + 1}
      OBVIOUS
    <3>3. g[t \ {n + 1}] = f[t \ {n + 1}]
      BY <1>1, <3>2
    <3>4. g[t] = Step(e, f[t \ {n + 1}], s[n + 1])
      BY <2>1
    <3> QED BY <2>1, <3>1, <3>3, <3>4
  <2>2. CASE n + 1 \notin t
    <3>1. t \in SUBSET (1..n) /\ g[t] = f[t]
      BY <1>1, <2>2
    <3>2. f[t] = IF t = {} THEN base ELSE Step(e, f[t \ {Max(t)}], s[Max(t)])
      BY <3>1 DEF IsIteration
    <3>3. t \ {Max(t)} \in SUBSET (1..(n + 1)) /\ n + 1 \notin t \ {Max(t)}
      BY <2>2
    <3>4. g[t \ {Max(t)}] = f[t \ {Max(t)}]
      BY <1>1, <3>3
    <3> QED BY <3>1, <3>2, <3>4
  <2> QED BY <2>1, <2>2
<1>3. IsIteration(g, e, base, s, n + 1)
  <2>1. g = [t \in SUBSET (1..(n + 1)) |-> g[t]]
    OBVIOUS
  <2> HIDE DEF g
  <2> QED BY <1>2, <2>1 DEF IsIteration
<1> QED BY <1>3

(* There is an iteration over every list.                                  *)
LEMMA IterationExists ==
    ASSUME NEW e, NEW base, NEW s, NEW n \in Nat
    PROVE  \E f : IsIteration(f, e, base, s, n)
<1> DEFINE None == {k \in Nat : ~ \E f : IsIteration(f, e, base, s, k)}
<1>1. SUFFICES ASSUME None # {} PROVE FALSE
  BY DEF None
<1>2. PICK m \in None : \A k \in None : m <= k
  BY <1>1, LeastOf
<1>3. CASE m = 0
  <2> DEFINE f == [t \in SUBSET (1..0) |-> base]
  <2>1. \A t \in SUBSET (1..0) : t = {}
    OBVIOUS
  <2>2. IsIteration(f, e, base, s, 0)
    BY <2>1 DEF IsIteration
  <2> QED BY <1>2, <1>3, <2>2
<1>4. CASE m # 0
  <2>1. m - 1 \in Nat /\ m - 1 \notin None
    BY <1>2, <1>4
  <2>2. PICK f : IsIteration(f, e, base, s, m - 1)
    BY <2>1
  <2>3. (m - 1) + 1 = m
    BY <1>2
  <2>4. \E g : IsIteration(g, e, base, s, m)
    BY <2>1, <2>2, <2>3, IterationExtends
  <2> QED BY <1>2, <2>4
<1> QED BY <1>3, <1>4

(* The fold over a list is the last value of an iteration over it.         *)
LEMMA FoldIterates ==
    ASSUME NEW e, NEW base, NEW n \in Nat, NEW s, DOMAIN s = 1..n
    PROVE  \E f : IsIteration(f, e, base, s, n) /\ Fold(e, base, s) = f[1..n]
<1> DEFINE it == CHOOSE f : f = [t \in SUBSET (1..n) |->
                                   IF t = {} THEN base ELSE Step(e, f[t \ {Max(t)}], s[Max(t)])]
<1>1. IsIteration(it, e, base, s, n)
  <2>1. \E f : f = [t \in SUBSET (1..n) |->
                      IF t = {} THEN base ELSE Step(e, f[t \ {Max(t)}], s[Max(t)])]
    <3>1. PICK f : IsIteration(f, e, base, s, n)
      BY IterationExists
    <3>2. f = [t \in SUBSET (1..n) |-> IF t = {} THEN base ELSE Step(e, f[t \ {Max(t)}], s[Max(t)])]
      BY <3>1 DEF IsIteration
    <3> QED BY <3>2
  <2>2. it = [t \in SUBSET (1..n) |-> IF t = {} THEN base ELSE Step(e, it[t \ {Max(t)}], s[Max(t)])]
    BY <2>1
  <2> HIDE DEF it
  <2> QED BY <2>2 DEF IsIteration
<1>2. Fold(e, base, s) = it[1..n]
  BY Zenon DEF Fold, FoldLeft, MapThenFoldSet
<1> QED BY <1>1, <1>2

(* What holds at the start of a list and is kept by every step holds of    *)
(* the fold of the steps.                                                  *)
LEMMA FoldKeeps ==
    ASSUME NEW e, NEW base, NEW n \in Nat, NEW s, DOMAIN s = 1..n, Keeps(e, base),
           \A a : \A i \in 1..n : Keeps(e, a) => Keeps(e, Step(e, a, s[i]))
    PROVE  Keeps(e, Fold(e, base, s))
<1>1. PICK f : IsIteration(f, e, base, s, n) /\ Fold(e, base, s) = f[1..n]
  BY FoldIterates
<1> DEFINE Fails == {k \in 0..n : ~Keeps(e, f[1..k])}
<1>2. SUFFICES ASSUME Fails # {} PROVE FALSE
  <2>1. n \in 0..n
    OBVIOUS
  <2> QED BY <1>1, <2>1
<1>3. PICK m \in Fails : \A k \in Fails : m <= k
  <2>1. Fails \in SUBSET Nat
    OBVIOUS
  <2> HIDE DEF Fails
  <2> QED BY <1>2, <2>1, LeastOf
<1>4. 1..m \in SUBSET (1..n)
  BY <1>3
<1>5. f[1..m] = IF 1..m = {} THEN base ELSE Step(e, f[(1..m) \ {Max(1..m)}], s[Max(1..m)])
  BY <1>1, <1>4 DEF IsIteration
<1>6. CASE m = 0
  <2>1. 1..m = {}
    BY <1>6
  <2> QED BY <1>3, <1>5, <2>1
<1>7. CASE m # 0
  <2>1. m \in 1..n /\ m \in 1..m /\ 1..m \in SUBSET (1..m) /\ m \in Nat
    BY <1>3, <1>7
  <2>2. Max(1..m) = m
    BY <2>1, MaxIsBound
  <2>3. (1..m) \ {m} = 1..(m - 1)
    BY <2>1
  <2>4. m - 1 \in 0..n /\ m - 1 \notin Fails
    BY <1>3, <2>1
  <2>5. Keeps(e, f[1..(m - 1)])
    BY <2>4
  <2>6. f[1..m] = Step(e, f[1..(m - 1)], s[m])
    BY <1>5, <2>1, <2>2, <2>3
  <2>7. Keeps(e, f[1..m])
    BY <2>1, <2>5, <2>6
  <2> QED BY <1>3, <2>7
<1> QED BY <1>6, <1>7
=============================================================================
