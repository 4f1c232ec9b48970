------------------------------ MODULE Semirings -----------------------------
(***************************************************************************)
(* The semirings provenance is evaluated in.  A class is an operator from  *)
(* the name of one of its methods and the sequence of its arguments to the *)
(* result; Apply picks the class by its name.  Parsing a leaf and printing *)
(* a value are left out, and so is the symbolic Formula class.             *)
(*                                                                         *)
(* Carriers: doubles are rationals, a tropical cost <<n>> with <<>> for    *)
(* infinity, a which-provenance {S} with {} for "no witness", a how-       *)
(* polynomial the bag of its monomials, each the bag of its labels, and a  *)
(* value of an enumerated type its rank among the members EnumRanks.       *)
(***************************************************************************)
EXTENDS Integers, Sequences, SequencesExt, Bags, Rational

EnumRanks == 0..2

Boolean(m, v) ==
  CASE m = "zero"  -> FALSE
    [] m = "one"   -> TRUE
    [] m = "plus"  -> \E i \in DOMAIN v : v[i]
    [] m = "times" -> \A i \in DOMAIN v : v[i]
    [] m = "monus" -> v[1] /\ ~ v[2]
    [] m = "delta" -> v[1]

Counting(m, v) ==
  CASE m = "zero"  -> 0
    [] m = "one"   -> 1
    [] m = "plus"  -> FoldLeft(LAMBDA a, b : a + b, 0, v)
    [] m = "times" -> FoldLeft(LAMBDA a, b : a * b, 1, v)
    [] m = "monus" -> IF v[1] <= v[2] THEN 0 ELSE v[1] - v[2]
    [] m = "delta" -> IF v[1] # 0 THEN 1 ELSE 0

Infinite == <<>>
CostLe(a, b) == b = Infinite \/ (a # Infinite /\ a[1] <= b[1])

Tropical(m, v) ==
  CASE m = "zero"  -> Infinite
    [] m = "one"   -> <<0>>
    [] m = "plus"  -> FoldLeft(LAMBDA a, b : IF CostLe(a, b) THEN a ELSE b, Infinite, v)
    [] m = "times" -> FoldLeft(LAMBDA a, b : IF Infinite \in {a, b} THEN Infinite
                                             ELSE <<a[1] + b[1]>>, <<0>>, v)
    [] m = "monus" -> IF CostLe(v[2], v[1]) THEN Infinite ELSE v[1]
    [] m = "delta" -> IF v[1] = Infinite THEN Infinite ELSE <<0>>

(* The part Viterbi and Lukasiewicz share.                                 *)
Fuzzy(m, v) ==
  CASE m = "zero"  -> Q0
    [] m = "one"   -> Q1
    [] m = "plus"  -> FoldLeft(QMax, Q0, v)
    [] m = "monus" -> IF QLe(v[1], v[2]) THEN Q0 ELSE v[1]
    [] m = "delta" -> IF v[1] # Q0 THEN Q1 ELSE Q0

Viterbi(m, v) == IF m = "times" THEN QProd(v) ELSE Fuzzy(m, v)

Lukasiewicz_Sum(m, v) ==
  IF m # "times" THEN Fuzzy(m, v)
  ELSE IF v = <<>> THEN Q1
  ELSE QMax(Q0, QSub(QSum(v), Q1))

Lukasiewicz(m, v) ==
  IF m # "times" THEN Fuzzy(m, v)
  ELSE IF v = <<>> THEN Q1
  ELSE QMax(Q0, QSub(QSum(v), <<Len(v) - 1, 1>>))

(* One class for the two orders of an enumerated type; "le" is the order   *)
(* of the semiring.                                                        *)
MinMax(m, v, reverse) ==
  LET le(a, b) == IF reverse THEN a <= b ELSE a >= b
      bottom == Head(SelectSeq(<<0, 1, 2>>, LAMBDA x : x \in EnumRanks /\ \A y \in EnumRanks : x <= y))
      top == Head(SelectSeq(<<0, 1, 2>>, LAMBDA x : x \in EnumRanks /\ \A y \in EnumRanks : y <= x))
      zero == IF reverse THEN bottom ELSE top
      one == IF reverse THEN top ELSE bottom
  IN  CASE m = "zero"  -> zero
        [] m = "one"   -> one
        [] m = "plus"  -> FoldLeft(LAMBDA a, b : IF le(a, b) THEN b ELSE a, zero, v)
        [] m = "times" -> FoldLeft(LAMBDA a, b : IF le(a, b) THEN a ELSE b, one, v)
        [] m = "monus" -> IF le(v[1], v[2]) THEN zero ELSE v[1]
        [] m = "delta" -> v[1]

Why(m, v) ==
  CASE m = "zero"  -> {}
    [] m = "one"   -> {{}}
    [] m = "plus"  -> UNION {v[i] : i \in DOMAIN v}
    [] m = "times" -> FoldLeft(LAMBDA a, b : {s \cup t : s \in a, t \in b}, {{}}, v)
    [] m = "monus" -> v[1] \ v[2]
    [] m = "delta" -> IF v[1] = {} THEN {} ELSE {{}}

Which(m, v) ==
  LET some == {v[i] : i \in DOMAIN v} \ {{}}
      labels(ws) == UNION UNION ws
  IN  CASE m = "zero"  -> {}
        [] m = "one"   -> {{}}
        [] m = "plus"  -> IF some = {} THEN {} ELSE {labels(some)}
        [] m = "times" -> IF \E i \in DOMAIN v : v[i] = {} THEN {} ELSE {labels(some)}
        [] m = "monus" -> IF v[1] = {} \/ v[2] = {} THEN v[1]
                          ELSE IF UNION v[1] \subseteq UNION v[2] THEN {}
                          ELSE {UNION v[1] \ UNION v[2]}
        [] m = "delta" -> IF v[1] = {} THEN {} ELSE {{}}

(* The bag of the products of the monomials of two polynomials.            *)
HowTimes(a, b) ==
  LET products == {p[1] (+) p[2] : p \in BagToSet(a) \X BagToSet(b)}
      coefficient(m) ==
        FoldLeft(LAMBDA acc, p : acc + CopiesIn(p[1], a) * CopiesIn(p[2], b), 0,
                 SetToSeq({p \in BagToSet(a) \X BagToSet(b) : p[1] (+) p[2] = m}))
  IN  [m \in products |-> coefficient(m)]

How(m, v) ==
  CASE m = "zero"  -> EmptyBag
    [] m = "one"   -> SetToBag({EmptyBag})
    [] m = "plus"  -> FoldLeft(LAMBDA a, b : a (+) b, EmptyBag, v)
    [] m = "times" -> FoldLeft(HowTimes, SetToBag({EmptyBag}), v)
    [] m = "monus" -> v[1] (-) v[2]
    [] m = "delta" -> IF v[1] = EmptyBag THEN EmptyBag ELSE SetToBag({EmptyBag})

(* Unions of intervals, as sets of points of the line "all".               *)
IntervalUnion(m, v, all) ==
  CASE m = "zero"  -> {}
    [] m = "one"   -> all
    [] m = "plus"  -> UNION {v[i] : i \in DOMAIN v}
    [] m = "times" -> {x \in all : \A i \in DOMAIN v : x \in v[i]}
    [] m = "monus" -> v[1] \ v[2]
    [] m = "delta" -> v[1]

-----------------------------------------------------------------------------
(* Gates of a Boolean circuit under construction, as terms: the leaf x, or *)
(* an operator over terms; "cert" is the d-DNNF certificate.               *)
Term(op, args, cert) == [op |-> op, leaf |-> 0, args |-> args, cert |-> cert]
Leaf(x) == [Term("IN", <<>>, FALSE) EXCEPT !.leaf = x]
Negated(t) == Term("NOT", <<t>>, FALSE)

Distinct(v) == FoldLeft(LAMBDA acc, t : IF \E i \in DOMAIN acc : acc[i] = t
                                        THEN acc ELSE Append(acc, t), <<>>, v)

BoolExpr(m, v) ==
  LET ZERO == Term("OR", <<>>, FALSE)
      ONE  == Term("AND", <<>>, FALSE)
  IN  CASE m = "zero" -> ZERO
        [] m = "one"  -> ONE
        [] m = "plus"  -> IF v = <<>> THEN ZERO ELSE Term("OR", Distinct(v), FALSE)
        [] m = "times" -> IF v = <<>> THEN ONE ELSE Term("AND", Distinct(v), FALSE)
        [] m = "monus" -> IF v[1] = ONE THEN Negated(v[2])
                          ELSE Term("AND", <<v[1], Negated(v[2])>>, FALSE)
        [] m = "delta" -> v[1]

independent_literal(t) == t.op = "IN" \/ (t.op \in {"AND", "OR"} /\ t.args = <<>>)

certified_world_term(present, missing) ==
  IF missing = <<>> /\ Len(present) = 1 THEN present[1]
  ELSE Term("AND", present \o [i \in DOMAIN missing |-> Negated(missing[i])], TRUE)

certified_exclusive_plus(v) == IF Len(v) = 1 THEN v[1] ELSE Term("OR", v, TRUE)

-----------------------------------------------------------------------------
(* The classes by name.  "points" is the line of interval_union.           *)
Apply(sr, m, v) ==
  CASE sr.name = "boolean"     -> Boolean(m, v)
    [] sr.name = "counting"    -> Counting(m, v)
    [] sr.name \in {"tropical", "tropical_nonneg"} -> Tropical(m, v)
    [] sr.name = "viterbi"     -> Viterbi(m, v)
    [] sr.name = "lukasiewicz" -> Lukasiewicz(m, v)
    [] sr.name = "minmax"      -> MinMax(m, v, FALSE)
    [] sr.name = "maxmin"      -> MinMax(m, v, TRUE)
    [] sr.name = "why"         -> Why(m, v)
    [] sr.name = "which"       -> Which(m, v)
    [] sr.name = "how"         -> How(m, v)
    [] sr.name = "interval_union" -> IntervalUnion(m, v, sr.points)
    [] sr.name = "boolexpr"    -> BoolExpr(m, v)

Zero(sr) == Apply(sr, "zero", <<>>)
One(sr) == Apply(sr, "one", <<>>)
Plus(sr, v) == Apply(sr, "plus", v)
Times(sr, v) == Apply(sr, "times", v)
Monus(sr, x, y) == Apply(sr, "monus", <<x, y>>)
Delta(sr, x) == Apply(sr, "delta", <<x>>)

absorptive(sr) ==
  sr.name \in {"boolean", "boolexpr", "interval_union", "lukasiewicz", "minmax", "maxmin",
               "tropical_nonneg", "viterbi"}

compatibleWithBooleanRewrite(sr) == sr.name \in {"boolean", "boolexpr", "interval_union"}

certifying(sr) == sr.name = "boolexpr"
=============================================================================
