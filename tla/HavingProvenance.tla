-------------------------- MODULE HavingProvenance --------------------------
(***************************************************************************)
(* The value of a comparison of aggregates in a semiring: the sum, over    *)
(* the sets of contributors of the group for which the comparison holds,   *)
(* of the product of the annotations present, times one minus the sum of   *)
(* those missing.                                                          *)
(*                                                                         *)
(* Contributors are numbered; a world is the set of those present.  Sets   *)
(* of worlds are enumerated as the code does, an "upset" by worlds whose   *)
(* missing contributors are free.                                          *)
(***************************************************************************)
EXTENDS GenericCircuit, FiniteSetsExt

LOCAL Each(s, f(_)) == SubSeq([i \in DOMAIN s |-> f(s[i])], 1, Len(s))

(* All subsets of 1..n, in the order of their binary numbers.              *)
masks[n \in Nat] ==
  IF n = 0 THEN <<{}>>
  ELSE LET half == masks[n - 1] IN half \o Each(half, LAMBDA m : m \cup {n})

all_worlds(n) == SUBSET (1..n) \ {{}}

-----------------------------------------------------------------------------
(* Comparisons and decimals.                                               *)
CmpHolds(op, less, equal) ==
  CASE op = "="  -> equal
    [] op = "<>" -> ~ equal
    [] op = "<"  -> less
    [] op = "<=" -> less \/ equal
    [] op = ">"  -> ~ less /\ ~ equal
    [] op = ">=" -> ~ less

compare(a, op, b) == CmpHolds(op, a < b, a = b)

flip_op(op) ==
  CASE op = "<" -> ">" [] op = "<=" -> ">=" [] op = ">" -> "<" [] op = ">=" -> "<="
    [] OTHER -> op

IsDecimal(x) == x[2] >= 0

Stripped[x \in Int \X Int] ==
  IF x[2] > 0 /\ x[1] % 10 = 0 THEN Stripped[<<x[1] \div 10, x[2] - 1>>] ELSE x

pow10[k \in Nat] == IF k = 0 THEN 1 ELSE 10 * pow10[k - 1]

rescale_to(x, scale) == x[1] * pow10[scale - x[2]]

ToRational(x) == Q(x[1], pow10[x[2]])

-----------------------------------------------------------------------------
(* The sets of contributors whose sum compares.  dp[j] holds those of sum  *)
(* j; in an absorptive semiring those already past the threshold are not   *)
(* extended.  A negative value leaves the work to the exhaustive search.   *)
sum_dp(values, C, op, absorbs, keep_empty) ==
  LET n == Len(values)
      total(S) == FoldSet(LAMBDA i, acc : acc + values[i], 0, S)
      T == total(1..n)
      J == IF op \in {">", ">="} THEN T ELSE IF op = "<" THEN Min({C - 1, T}) ELSE Min({C, T})
      past(p) == absorbs /\ ((op = ">" /\ p > C) \/ (op = ">=" /\ p >= C))
      reach(i) == Min({J, total(1..i)})
      extended(d, i) ==
        [j \in 0..J |->
           IF j \notin values[i]..reach(i) \/ past(j - values[i]) THEN d[j]
           ELSE d[j] \cup {m \cup {i} : m \in d[j - values[i]]}]
      dp[i \in 0..n] ==
        IF i = 0 THEN [j \in 0..J |-> IF j = 0 THEN {{}} ELSE {}]
        ELSE CHOOSE e \in {extended(d, i) : d \in {dp[i - 1]}} : TRUE
      range(lo, hi) == UNION {dp[n][j] : j \in Max({lo, 0})..Min({hi, J})}
      empty == IF keep_empty /\ compare(0, op, C) THEN {{}} ELSE {}
  IN  IF ~ compare(0, op, C) /\ ~ compare(T, op, C) /\ (op # "=" \/ C > T \/ C < 0)
      THEN [worlds |-> {}, upset |-> FALSE]
      ELSE IF op # "=" /\ compare(0, op, C) /\ compare(T, op, C)
      THEN [worlds |-> all_worlds(n), upset |-> FALSE]
      ELSE [worlds |-> ((CASE op = "="  -> range(C, C)
                           [] op = ">"  -> range(C + 1, J)
                           [] op = "<"  -> range(0, C - 1)
                           [] op = ">=" -> range(C, J)
                           [] op = "<=" -> range(0, C)) \ {{}}) \cup empty,
            upset |-> \E i \in 1..n : \E j \in values[i]..reach(i) : past(j - values[i])]

SumWorlds(values, C, op, absorbs, keep_empty) ==
  IF op # "<>" THEN sum_dp(values, C, op, absorbs, keep_empty)
  ELSE LET lt == sum_dp(values, C, "<", absorbs, keep_empty)
           gt == sum_dp(values, C, ">", absorbs, keep_empty)
       IN  [worlds |-> lt.worlds \cup gt.worlds, upset |-> lt.upset \/ gt.upset]

(* A count that ignores the empty group unless the aggregation has no      *)
(* GROUP BY.                                                               *)
count_enum(n, C, op, absorbs, is_scalar) ==
  LET lo == IF is_scalar THEN 0 ELSE 1
      ofsize(K) == {S \in SUBSET (1..n) : Cardinality(S) \in K}
      least == Max({lo, IF op = ">" THEN C + 1 ELSE C})
  IN  IF op \in {">", ">="} /\ absorbs THEN [worlds |-> ofsize({least}), upset |-> TRUE]
      ELSE [worlds |-> ofsize({k \in lo..n : compare(k, op, C)}), upset |-> FALSE]

(* The aggregate of a non-empty world.                                     *)
AggregateOf(kind, values, S) ==
  LET chosen == {values[i] : i \in S}
      sum == FoldSet(LAMBDA i, acc : acc + values[i], 0, S)
  IN  CASE kind \in {"sum", "count"} -> <<sum, 1>>
        [] kind = "avg" -> Q(sum, Cardinality(S))
        [] kind = "min" -> <<Min(chosen), 1>>
        [] kind = "max" -> <<Max(chosen), 1>>
        [] kind = "choose" -> <<values[Min(S)], 1>>

agg_cmp_holds_in_world(values, S, C, op, kind) ==
  LET a == AggregateOf(kind, values, S)
  IN  S # {} /\ CmpHolds(op, QLt(a, <<C, 1>>), a = <<C, 1>>)

enumerate_exhaustive(values, C, op, kind, absorbs) ==
  LET n == Len(values)
      worlds == {S \in all_worlds(n) : agg_cmp_holds_in_world(values, S, C, op, kind)}
  IN  IF worlds = all_worlds(n) /\ absorbs
      THEN [worlds |-> {{i} : i \in 1..n}, upset |-> TRUE]
      ELSE [worlds |-> worlds, upset |-> FALSE]

enumerate_valid_worlds(values, C, op, kind, absorbs, is_scalar) ==
  LET n == Len(values)
      negative == \E i \in 1..n : values[i] < 0
  IN  IF kind = "count" /\ \A i \in 1..n : values[i] = 1
      THEN count_enum(n, C, op, absorbs, is_scalar)
      ELSE IF kind \in {"count", "sum"} /\ ~ negative
      THEN SumWorlds(values, C, op, absorbs, kind = "count" /\ is_scalar)
      ELSE enumerate_exhaustive(values, C, op, kind, absorbs)

enumerate_array_agg_worlds(vals, target, want_equal) ==
  LET present(S) == Each(SelectSeq([i \in DOMAIN vals |-> i], LAMBDA i : i \in S),
                         LAMBDA i : vals[i])
  IN  {S \in all_worlds(Len(vals)) : (present(S) = target) = want_equal}

-----------------------------------------------------------------------------
(* The comparisons of a circuit valued in a semiring before the circuit is *)
(* evaluated: every comparison of aggregates reached from the root gets    *)
(* its value in the mapping.  A comparison of a shape no domain knows gets *)
(* none, and the evaluation then refuses it.                               *)
LOCAL All(n) == [i \in 1..n |-> i]
LOCAL Pick(s, S) == Each(SelectSeq(All(Len(s)), LAMBDA i : i \in S), LAMBDA i : s[i])

MaxCertified == 16      \* contributors of a certified enumeration
MaxWorldBits == 24      \* contributors of a general enumeration

IsContributor(gc, g) ==
  /\ gc.gates[g].type = "semimod"
  /\ gc.gates[gc.gates[g].wires[2]].type = "value"

(* A value under the annotation one.                                       *)
IsConstant(gc, g) == IsContributor(gc, g) /\ gc.gates[gc.gates[g].wires[1]].type = "one"

ValueOf(gc, g) == gc.gates[gc.gates[g].wires[2]].extra
KOf(gc, g) == gc.gates[g].wires[1]

RECURSIVE side_has_agg(_, _)
side_has_agg(gc, g) ==
  \/ gc.gates[g].type = "agg"
  \/ /\ gc.gates[g].type = "arith"
     /\ \E k \in DOMAIN gc.gates[g].wires : side_has_agg(gc, gc.gates[g].wires[k])

(* The comparisons of aggregates, in the order of a depth-first search     *)
(* that takes the last wire first.                                         *)
RECURSIVE Collect(_, _, _, _)
Collect(gc, stack, seen, out) ==
  IF stack = <<>> THEN out
  ELSE LET cur == stack[Len(stack)]
           rest == SubSeq(stack, 1, Len(stack) - 1)
           wires == gc.gates[cur].wires
           found == /\ gc.gates[cur].type = "cmp"
                    /\ side_has_agg(gc, wires[1]) \/ side_has_agg(gc, wires[2])
       IN  IF cur \in seen THEN Collect(gc, rest, seen, out)
           ELSE Collect(gc, rest \o wires, seen \cup {cur},
                        IF found THEN Append(out, cur) ELSE out)

collect_sp_cmp_gates(gc, start) == Collect(gc, <<start>>, {}, <<>>)

-----------------------------------------------------------------------------
certifiable_contributors_Repeats(sr, k) ==
  /\ certifying(sr)
  /\ Len(k) <= MaxCertified
  /\ \A i \in DOMAIN k : independent_literal(k[i])

(* A deterministic and decomposable circuit is built when the annotations  *)
(* are distinct independent literals and the semiring keeps certificates.  *)
certifiable_contributors(sr, k) ==
  /\ certifying(sr)
  /\ Len(k) <= MaxCertified
  /\ \A i \in DOMAIN k :
       /\ independent_literal(k[i])
       /\ k[i] \in {One(sr), Zero(sr)} \/ \A j \in 1..(i - 1) : k[j] # k[i]

(* Products in which the factor one is left out.                           *)
Product(sr, v) ==
  LET kept == SelectSeq(v, LAMBDA x : x # One(sr))
  IN  IF Len(kept) = 1 THEN kept[1] ELSE Times(sr, kept)

(* present times (one monus the sum of missing)                            *)
WorldTerm(sr, present, missing) ==
  LET p == Times(sr, SelectSeq(present, LAMBDA x : x # One(sr)))
      m == SelectSeq(missing, LAMBDA x : x # Zero(sr))
  IN  IF m = <<>> THEN p
      ELSE LET rest == Monus(sr, One(sr), Plus(sr, m))
           IN  IF p = One(sr) THEN rest ELSE Times(sr, <<p, rest>>)

combine_exhaustive_worlds(sr, k, worlds, upset, op, kind) ==
  LET n == Len(k)
      list == SelectSeq(masks[n], LAMBDA S : S \in worlds)
      monotone == absorptive(sr) /\ ((op \in {">=", ">"} /\ kind = "max")
                                     \/ (op \in {"<=", "<"} /\ kind = "min"))
      absent(S) == IF upset \/ monotone THEN {} ELSE 1..n \ S
  IN  IF worlds = {} THEN Zero(sr)
      ELSE IF certifiable_contributors(sr, k)
      THEN certified_exclusive_plus(
             Each(list, LAMBDA S : certified_world_term(Pick(k, S), Pick(k, 1..n \ S))))
      ELSE Plus(sr, Each(list, LAMBDA S : WorldTerm(sr, Pick(k, S), Pick(k, absent(S)))))

(* The first present of "before" is in heads, and none of "none" is there. *)
FirstPresent(sr, k, heads, before, none) ==
  LET order == SelectSeq(All(Len(k)), LAMBDA i : i \in heads)
      earlier(i) == {j \in before : j < i}
      without(S) == Product(sr, Each(Pick(k, S), LAMBDA x : Monus(sr, One(sr), x)))
  IN  IF heads = {} THEN Zero(sr)
      ELSE IF certifiable_contributors(sr, k)
      THEN certified_exclusive_plus(
             Each(order, LAMBDA i : certified_world_term(<<k[i]>>,
                                      Pick(k, earlier(i)) \o Pick(k, none))))
      ELSE Product(sr, << without(none),
             Plus(sr, Each(order, LAMBDA i : Product(sr, <<k[i], without(earlier(i))>>)))>>)

-----------------------------------------------------------------------------
(* An aggregate compared with a constant.                                  *)
TrueText == <<1, -2>>
FalseText == <<0, -2>>
Truths == {TrueText, <<1, 0>>}
Booleans == Truths \cup {FalseText, <<0, 0>>}

ChoosePw(sr, k, vals, C, op) ==
  FirstPresent(sr, k, {i \in DOMAIN k : (vals[i] = C) = (op = "=")}, DOMAIN k, {})

(* bool_or is true when some row is true, bool_and false when one is       *)
(* false; the other value takes a row of the other kind and none of those. *)
BooleanPw(sr, k, vals, C, op, kind) ==
  LET target == (C \in Truths) = (op = "=")
      trigger == {i \in DOMAIN k : (vals[i] \in Truths) = (kind = "bool_or")}
      others == DOMAIN k \ trigger
  IN  IF (kind = "bool_or") = target THEN FirstPresent(sr, k, trigger, trigger, {})
      ELSE FirstPresent(sr, k, others, others, trigger)

NumericPw(sr, k, vals, C, op, outer, kind, is_scalar) ==
  LET all == Each(Append(vals, C), LAMBDA x : Stripped[x])
      scale == Max({all[i][2] : i \in DOMAIN all})
      scaled == Each(all, LAMBDA x : rescale_to(x, scale))
      valid == enumerate_valid_worlds(SubSeq(scaled, 1, Len(k)), scaled[Len(k) + 1], op, kind,
                 absorptive(sr) /\ ~ certifiable_contributors(sr, k), is_scalar)
  IN  combine_exhaustive_worlds(sr, k, valid.worlds, valid.upset, outer, kind)

(* op is the comparison with the aggregate on the left, outer the one      *)
(* written.                                                                *)
build_from(gc, agg, const, op, outer, mapping, sr) ==
  LET gate == gc.gates[agg]
      text == \/ gate.aggtype = "text"
              \/ gate.op = "choose" /\ gate.aggtype \notin {"int", "numeric"}
      orderless == \/ gate.aggtype = "bool" /\ gate.op \in {"bool_or", "bool_and"}
                   \/ gate.aggtype # "bool" /\ gate.op = "array_agg"
      answers == Each(gate.wires, LAMBDA ch : evaluate(gc, KOf(gc, ch), mapping, sr))
      k == Each(answers, LAMBDA a : a.val)
      vals == Each(gate.wires, LAMBDA ch : ValueOf(gc, ch)[1])
      C == ValueOf(gc, const)
      members == {vals[i] : i \in DOMAIN vals} \cup {C[1]}
      equality == op \in {"=", "<>"}
  IN  IF gate.type # "agg" THEN Skip
      ELSE IF ~ text /\ orderless /\ ~ equality THEN Thrown
      ELSE IF ~ IsConstant(gc, const) \/ \E ch \in ToSet(gate.wires) : ~ IsContributor(gc, ch)
      THEN Skip
      ELSE IF \E i \in DOMAIN answers : answers[i].thrown THEN Thrown
      ELSE IF text
      THEN IF gate.op # "choose" \/ ~ equality THEN Thrown ELSE Some(ChoosePw(sr, k, vals, C[1], op))
      ELSE IF gate.aggtype = "bool"
      THEN IF gate.op \notin {"bool_or", "bool_and"} THEN Skip
           ELSE IF ~ members \subseteq Booleans THEN Skip
           ELSE Some(BooleanPw(sr, k, vals, C[1], op, gate.op))
      ELSE IF gate.op = "array_agg"
      THEN Some(combine_exhaustive_worlds(sr, k,
                  enumerate_array_agg_worlds(vals, C, op = "="), FALSE, op, gate.op))
      ELSE IF \E x \in members : ~ IsDecimal(x) THEN Skip
      ELSE Some(NumericPw(sr, k, vals, C[1], op, outer, gate.op, gate.scalar))

-----------------------------------------------------------------------------
(* Arithmetic over aggregates, or two aggregates: every world of the       *)
(* annotations met is tried, a NULL making the comparison fail.            *)
RECURSIVE AggsIn(_, _)
AggsIn(gc, g) ==
  LET wires == gc.gates[g].wires
  IN  IF gc.gates[g].type = "agg" THEN <<g>>
      ELSE IF gc.gates[g].type = "arith"
      THEN Deduplicated(FlattenSeq(Each(wires, LAMBDA c : AggsIn(gc, c))))
      ELSE <<>>

RECURSIVE Collectable(_, _)
Collectable(gc, g) ==
  LET gate == gc.gates[g]
      below == {gate.wires[i] : i \in DOMAIN gate.wires}
  IN  CASE gate.type = "agg" ->
             \A ch \in below : IsContributor(gc, ch) /\ IsDecimal(ValueOf(gc, ch)[1])
        [] gate.type = "arith" -> \A c \in below : Collectable(gc, c)
        [] gate.type = "value" -> TRUE
        [] gate.type = "semimod" -> IsConstant(gc, g)
        [] OTHER -> FALSE

Null == [null |-> TRUE]
Number(v, int) == [null |-> FALSE, val |-> v, int |-> int]

Truncated(q) == IF q[1] < 0 THEN -((-q[1]) \div q[2]) ELSE q[1] \div q[2]

Arith(op, v) ==
  LET x == Each(v, LAMBDA n : n.val)
      int == \A i \in DOMAIN v : v[i].int
  IN  IF \E i \in DOMAIN v : v[i].null THEN Null
      ELSE CASE op = "plus"  -> Number(QSum(x), int)
             [] op = "times" -> Number(QProd(x), int)
             [] op = "minus" -> Number(QSub(x[1], x[2]), int)
             [] op = "neg"   -> Number(QSub(Q0, x[1]), int)
             [] op = "max"   -> Number(FoldLeft(QMax, x[1], x), int)
             [] op = "min"   -> Number(FoldLeft(QMin, x[1], x), int)
             [] op = "div"   ->
                  (IF x[2] = Q0 THEN Null
                   ELSE IF int THEN Number(<<Truncated(QDiv(x[1], x[2])), 1>>, TRUE)
                   ELSE Number(QDiv(x[1], x[2]), FALSE))

(* The value of a side when the annotations of "there" are present; a      *)
(* constant that is no number is as good as NULL.                          *)
RECURSIVE SideValue(_, _, _)
SideValue(gc, g, there) ==
  LET gate == gc.gates[g]
      rows == SelectSeq(gate.wires, LAMBDA ch : KOf(gc, ch) \in there)
      x == Each(rows, LAMBDA ch : ToRational(ValueOf(gc, ch)[1]))
      int == gate.aggtype = "int"
      constant(c) == IF Len(c) = 1 /\ IsDecimal(c[1])
                     THEN Number(ToRational(c[1]), c[1][2] = 0) ELSE Null
  IN  CASE gate.type = "value"   -> constant(gate.extra)
        [] gate.type = "semimod" -> constant(ValueOf(gc, g))
        [] gate.type = "arith"   -> Arith(gate.op, Each(gate.wires, LAMBDA w : SideValue(gc, w, there)))
        [] gate.type = "agg"     ->
             (IF rows = <<>> /\ ~ (gate.op = "count" /\ gate.scalar) THEN Null
              ELSE CASE gate.op \in {"sum", "count"} -> Number(QSum(x), int)
                     [] gate.op = "avg" -> Number(QDiv(QSum(x), <<Len(x), 1>>), int)
                     [] gate.op = "min" -> Number(FoldLeft(QMin, x[1], x), int)
                     [] gate.op = "max" -> Number(FoldLeft(QMax, x[1], x), int)
                     [] OTHER -> Null)

SidesCompare(gc, L, R, op, there) ==
  LET a == SideValue(gc, L, there)
      b == SideValue(gc, R, there)
  IN  ~ a.null /\ ~ b.null /\ CmpHolds(op, QLt(a.val, b.val), a.val = b.val)

build_general(gc, L, R, op, mapping, sr) ==
  LET aggs == Deduplicated(AggsIn(gc, L) \o AggsIn(gc, R))
      kgates == Deduplicated(FlattenSeq(Each(aggs, LAMBDA a :
                  Each(gc.gates[a].wires, LAMBDA ch : KOf(gc, ch)))))
      n == Len(kgates)
      answers == Each(kgates, LAMBDA g : evaluate(gc, g, mapping, sr))
      k == Each(answers, LAMBDA a : a.val)
      least == IF \A i \in DOMAIN aggs : gc.gates[aggs[i]].scalar THEN {} ELSE {{}}
      worlds == SelectSeq(masks[n], LAMBDA S : S \notin least
                  /\ SidesCompare(gc, L, R, op, {kgates[i] : i \in S}))
  IN  IF ~ Collectable(gc, L) \/ ~ Collectable(gc, R) \/ n = 0 \/ n > MaxWorldBits THEN Skip
      ELSE IF \E i \in DOMAIN answers : answers[i].thrown THEN Thrown
      ELSE IF worlds = <<>> THEN Some(Zero(sr))
      ELSE IF certifiable_contributors(sr, k)
      THEN Some(certified_exclusive_plus(Each(worlds, LAMBDA S :
                  certified_world_term(Pick(k, S), Pick(k, 1..n \ S)))))
      ELSE Some(Plus(sr, Each(worlds, LAMBDA S : WorldTerm(sr, Pick(k, S), Pick(k, 1..n \ S)))))

-----------------------------------------------------------------------------
pw_from_cmp_gate(gc, cmp, mapping, sr) ==
  LET L == gc.gates[cmp].wires[1]
      R == gc.gates[cmp].wires[2]
      op == gc.gates[cmp].op
      left == build_from(gc, L, R, op, op, mapping, sr)
      right == build_from(gc, R, L, flip_op(op), op, mapping, sr)
  IN  IF left # Skip THEN left
      ELSE IF right # Skip THEN right
      ELSE build_general(gc, L, R, op, mapping, sr)

(* The mapping with the comparisons' values, or Thrown.                    *)
provsql_having(gc, g, mapping, sr) ==
  FoldLeft(LAMBDA acc, cmp :
             IF acc.thrown THEN acc
             ELSE LET pw == pw_from_cmp_gate(gc, cmp, acc.val, sr)
                  IN  IF pw.thrown THEN Thrown
                      ELSE IF ~ pw.ok THEN acc
                      ELSE Some((cmp :> pw.val) @@ acc.val),
           Some(mapping), collect_sp_cmp_gates(gc, g))

(* provenance_evaluate_compiled.                                           *)
pec(gc, mapping, sr) ==
  LET having == provsql_having(gc, gc.root, mapping, sr)
  IN  IF having.thrown THEN Thrown ELSE evaluate(gc, gc.root, having.val, sr)
=============================================================================
