------------------------------ MODULE Rational ------------------------------
(***************************************************************************)
(* Exact rational numbers <<numerator, denominator>>, reduced, standing    *)
(* for the doubles of the code: rounding is left out, so two methods that  *)
(* compute the same probability give equal values.                         *)
(***************************************************************************)
LOCAL INSTANCE Integers
LOCAL INSTANCE Sequences
LOCAL INSTANCE SequencesExt

gcd[a \in Nat, b \in Nat] == IF b = 0 THEN a ELSE gcd[b, a % b]

Abs(n) == IF n < 0 THEN -n ELSE n

Q(n, d) == LET g == gcd[Abs(n), d] IN <<n \div g, d \div g>>

Q0 == <<0, 1>>
Q1 == <<1, 1>>

QAdd(a, b) == Q(a[1] * b[2] + b[1] * a[2], a[2] * b[2])
QSub(a, b) == Q(a[1] * b[2] - b[1] * a[2], a[2] * b[2])
QMul(a, b) == Q(a[1] * b[1], a[2] * b[2])
QDiv(a, b) == IF b[1] > 0 THEN Q(a[1] * b[2], a[2] * b[1])
                          ELSE Q(-(a[1] * b[2]), -(a[2] * b[1]))
QNot(a)    == QSub(Q1, a)

QLe(a, b) == a[1] * b[2] <= b[1] * a[2]
QLt(a, b) == a[1] * b[2] < b[1] * a[2]
QMax(a, b) == IF QLe(a, b) THEN b ELSE a
QMin(a, b) == IF QLe(a, b) THEN a ELSE b

QSum(s)  == FoldLeft(QAdd, Q0, s)      \* of a sequence
QProd(s) == FoldLeft(QMul, Q1, s)
=============================================================================
