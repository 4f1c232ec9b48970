------------------------- MODULE ComparatorResolution -------------------------
(***************************************************************************)
(* Comparisons replaced, before a probability is computed, by a gate of    *)
(* known probability: those an interval decides, and those whose aggregate *)
(* is over private, independent contributors, by a closed form per         *)
(* aggregate.                                                              *)
(***************************************************************************)
EXTENDS HavingProvenance

LOCAL Each(s, f(_)) == SubSeq([i \in DOMAIN s |-> f(s[i])], 1, Len(s))

Clamped(p) == QMin(Q1, QMax(Q0, p))

-----------------------------------------------------------------------------
(* Intervals.                                                              *)
decideCmp(lo, hi, op) ==
  CASE op = "<"  -> (IF QLt(hi, Q0) THEN {TRUE} ELSE IF QLe(Q0, lo) THEN {FALSE} ELSE {})
    [] op = "<=" -> (IF QLe(hi, Q0) THEN {TRUE} ELSE IF QLt(Q0, lo) THEN {FALSE} ELSE {})
    [] op = ">"  -> (IF QLt(Q0, lo) THEN {TRUE} ELSE IF QLe(hi, Q0) THEN {FALSE} ELSE {})
    [] op = ">=" -> (IF QLe(Q0, lo) THEN {TRUE} ELSE IF QLt(hi, Q0) THEN {FALSE} ELSE {})
    [] op \in {"=", "<>"} ->
         (IF QLt(hi, Q0) \/ QLt(Q0, lo) THEN {op = "<>"} ELSE {})

(* The values of an aggregate, and of the constant it is compared with.    *)
IsScalarConst(gc, g) ==
  \/ gc.gates[g].type = "value" /\ IsDecimal(gc.gates[g].extra[1])
  \/ IsConstant(gc, g) /\ IsDecimal(ValueOf(gc, g)[1])

extractScalarConst(gc, g) ==
  ToRational(IF gc.gates[g].type = "value" THEN gc.gates[g].extra[1] ELSE ValueOf(gc, g)[1])

(* What the interval of the aggregate says of the comparison: {} if        *)
(* nothing.                                                                *)
decideAggVsConstCmp(gc, agg, op, C) ==
  LET gate == gc.gates[agg]
      v == Each(gate.wires, LAMBDA ch : ToRational(ValueOf(gc, ch)[1]))
      negative == SelectSeq(v, LAMBDA x : QLt(x, Q0))
      positive == SelectSeq(v, LAMBDA x : QLe(Q0, x))
      bounds == CASE gate.op = "count" -> <<Q0, <<Len(v), 1>>>>
                  [] gate.op = "sum"   -> <<QSum(negative), QSum(positive)>>
                  [] OTHER -> <<FoldLeft(QMin, v[1], v), FoldLeft(QMax, v[1], v)>>
  IN  IF \/ \E ch \in {gate.wires[i] : i \in DOMAIN gate.wires} :
              ~ IsContributor(gc, ch) \/ ~ IsDecimal(ValueOf(gc, ch)[1])
         \/ gate.op \notin {"count", "sum", "min", "max"}
         \/ v = <<>> /\ gate.op \in {"min", "max"}
      THEN {}
      ELSE decideCmp(QSub(bounds[1], C), QSub(bounds[2], C), op)

(* The sides of a comparison of an aggregate with a constant, the          *)
(* aggregate put on the left; <<>> for another comparison.                 *)
AggAndConst(gc, cmp) ==
  LET w == gc.gates[cmp].wires
      op == gc.gates[cmp].op
      isagg(g) == gc.gates[g].type = "agg"
  IN  IF isagg(w[1]) /\ ~ isagg(w[2]) /\ IsScalarConst(gc, w[2]) THEN <<w[1], op, w[2]>>
      ELSE IF isagg(w[2]) /\ ~ isagg(w[1]) /\ IsScalarConst(gc, w[1])
      THEN <<w[2], flip_op(op), w[1]>> ELSE <<>>

DecisionOf(gc, cmp) ==
  LET s == AggAndConst(gc, cmp)
  IN  IF s = <<>> THEN {} ELSE decideAggVsConstCmp(gc, s[1], s[2], extractScalarConst(gc, s[3]))

(* A comparison that never holds is zero in every semiring.                *)
runRangeCheck(gc) ==
  FoldLeft(LAMBDA acc, cmp :
             LET w == acc.gates[cmp].wires
             IN  IF w[1] = w[2]
                 THEN resolveCmpToBernoulli(acc, cmp,
                        IF acc.gates[cmp].op \in {"=", "<=", ">="} THEN Q1 ELSE Q0)
                 ELSE IF DecisionOf(acc, cmp) = {FALSE} THEN resolveCmpToBernoulli(acc, cmp, Q0)
                 ELSE acc,
           gc, cmps(gc))

(* One that always holds is the existence of the group.                    *)
runHavingAlwaysTrueRewriter(gc) ==
  FoldLeft(LAMBDA acc, cmp :
             LET agg == AggAndConst(acc, cmp)[1]
             IN  IF DecisionOf(acc, cmp) # {TRUE} THEN acc
                 ELSE IF acc.gates[agg].scalar THEN resolveCmpToBernoulli(acc, cmp, Q1)
                 ELSE resolveCmpToPlusOfKGates(acc, cmp,
                        Each(acc.gates[agg].wires, LAMBDA ch : KOf(acc, ch))),
           gc, cmps(gc))

-----------------------------------------------------------------------------
(* A comparison of an aggregate of numbers with a number, on a common      *)
(* scale; <<>> for another one.                                            *)
matchAggCmp(gc, cmp) ==
  LET w == gc.gates[cmp].wires
      left == gc.gates[w[1]].type = "agg"
      agg == IF left THEN w[1] ELSE w[2]
      const == IF left THEN w[2] ELSE w[1]
      semimods == gc.gates[agg].wires
      vals == Each(Append(semimods, const), LAMBDA ch : Stripped[ValueOf(gc, ch)[1]])
      scale == Max({vals[i][2] : i \in DOMAIN vals})
      scaled == Each(vals, LAMBDA x : rescale_to(x, scale))
      n == Len(semimods)
  IN  IF \/ gc.gates[agg].type # "agg"
         \/ gc.gates[agg].aggtype = "text"
         \/ ~ IsConstant(gc, const)
         \/ n = 0
         \/ \E i \in 1..n : ~ IsContributor(gc, semimods[i])
         \/ \E ch \in {semimods[i] : i \in 1..n} \cup {const} : ~ IsDecimal(ValueOf(gc, ch)[1])
      THEN <<>>
      ELSE <<[agg |-> agg, semimods |-> semimods, ks |-> Each(semimods, LAMBDA ch : KOf(gc, ch)),
              ms |-> SubSeq(scaled, 1, n), kind |-> gc.gates[agg].op,
              op |-> IF left THEN gc.gates[cmp].op ELSE flip_op(gc.gates[cmp].op),
              C |-> scaled[n + 1], scalar |-> gc.gates[agg].scalar]>>

(* The probability of a contributor, when every gate of it has one parent; *)
(* <<>> otherwise.                                                         *)
RECURSIVE contributorProb(_, _, _)
contributorProb(gc, g, ref) ==
  LET gate == gc.gates[g]
      p == Each(gate.wires, LAMBDA c : contributorProb(gc, c, ref))
      sound == ref[g] = 1 /\ \A i \in DOMAIN p : p[i] # <<>>
  IN  CASE gate.type = "one"  -> Q1
        [] gate.type = "zero" -> Q0
        [] gate.type = "input" -> IF ref[g] = 1 THEN gate.prob ELSE <<>>
        [] gate.type = "times" -> IF sound THEN QProd(p) ELSE <<>>
        [] gate.type = "plus"  -> IF sound THEN QNot(QProd(Each(p, QNot))) ELSE <<>>
        [] gate.type = "monus" -> IF sound THEN QMul(p[1], QNot(p[2])) ELSE <<>>
        [] OTHER -> <<>>

(* The loop the three closed forms share: Pr(match, probabilities).        *)
ResolveMatching(gc, applies(_), pr(_, _)) ==
  LET ref == computeRefCounts(gc)
      resolve(acc, cmp) ==
        LET m == matchAggCmp(acc, cmp)
            p == Each(m[1].ks, LAMBDA k : contributorProb(acc, k, ref))
        IN  IF m = <<>> THEN acc
            ELSE IF ~ applies(m[1]) \/ ref[m[1].agg] # 1 THEN acc
            ELSE IF \E i \in DOMAIN p : p[i] = <<>> \/ ref[m[1].semimods[i]] # 1 THEN acc
            ELSE resolveCmpToBernoulli(acc, cmp, Clamped(pr(m[1], p)))
  IN  FoldLeft(resolve, gc, cmps(gc))

AllAbsent(p) == QProd(Each(p, QNot))

-----------------------------------------------------------------------------
(* Counts: the distribution of a sum of Bernoulli variables.               *)
partialPMF(p, jmax) ==
  FoldLeft(LAMBDA dp, q :
             SubSeq([j \in 1..(jmax + 1) |->
                QAdd(QMul(dp[j], QNot(q)), IF j = 1 THEN Q0 ELSE QMul(dp[j - 1], q))], 1, jmax + 1),
           [j \in 1..(jmax + 1) |-> IF j = 1 THEN Q1 ELSE Q0], p)

probAtLeast(p, T) ==
  LET N == Len(p)
  IN  IF T <= 0 THEN Q1
      ELSE IF T > N THEN Q0
      ELSE IF T - 1 <= N - T THEN QNot(QSum(partialPMF(p, T - 1)))
      ELSE QSum(partialPMF(Each(p, QNot), N - T))

probAtMost(p, T) ==
  LET N == Len(p)
  IN  IF T < 0 THEN Q0
      ELSE IF T >= N THEN Q1
      ELSE IF T <= N - 1 - T THEN QSum(partialPMF(p, T))
      ELSE QNot(QSum(partialPMF(Each(p, QNot), N - 1 - T)))

probEqual(p, T) ==
  LET N == Len(p)
  IN  IF T < 0 \/ T > N THEN Q0
      ELSE IF T <= N - T THEN partialPMF(p, T)[T + 1]
      ELSE partialPMF(Each(p, QNot), N - T)[N - T + 1]

(* The group must exist, or be the one of an aggregation without GROUP BY. *)
CountCdf(p, op, C, is_scalar) ==
  LET N == Len(p)
      atmost(T) == IF T < 1 THEN Q0 ELSE QSub(probAtMost(p, Min({T, N})), AllAbsent(p))
      equal == IF C < 1 \/ C > N THEN Q0 ELSE probEqual(p, C)
      r == CASE op = ">=" -> probAtLeast(p, Max({C, 1}))
             [] op = ">"  -> probAtLeast(p, Max({C + 1, 1}))
             [] op = "<=" -> atmost(C)
             [] op = "<"  -> atmost(C - 1)
             [] op = "="  -> equal
             [] op = "<>" -> QSub(QNot(AllAbsent(p)), equal)
  IN  IF is_scalar /\ compare(0, op, C) THEN QAdd(r, AllAbsent(p)) ELSE r

runCountCmpEvaluator(gc) ==
  ResolveMatching(gc, LAMBDA m : m.kind = "count" /\ \A i \in DOMAIN m.ms : m.ms[i] = 1,
                  LAMBDA m, p : CountCdf(p, m.op, m.C, m.scalar))

-----------------------------------------------------------------------------
(* Minimum and maximum: no contributor of one side of the threshold, one   *)
(* of the other.                                                           *)
MinMaxCdf(kind, op, p, ms, C) ==
  LET none(ops) == QProd([i \in DOMAIN p |-> IF compare(ms[i], ops, C) THEN QNot(p[i]) ELSE Q1])
      some(ops) == QNot(none(ops))
      beyond == IF kind = "max" THEN ">" ELSE "<"
      equal == QMul(none(beyond), some("="))
  IN  CASE op = "="  -> equal
        [] op = "<>" -> QSub(QNot(AllAbsent(p)), equal)
        [] op \in {">", ">="} /\ kind = "max" -> some(op)
        [] op \in {"<", "<="} /\ kind = "min" -> some(op)
        [] op = "<=" -> QMul(none(">"), some("<="))
        [] op = "<"  -> QMul(none(">="), some("<"))
        [] op = ">=" -> QMul(none("<"), some(">="))
        [] op = ">"  -> QMul(none("<="), some(">"))

runMinMaxCmpEvaluator(gc) ==
  ResolveMatching(gc, LAMBDA m : m.kind \in {"min", "max"},
                  LAMBDA m, p : MinMaxCdf(m.kind, m.op, p, m.ms, m.C))

-----------------------------------------------------------------------------
(* Sums: the distribution of a weighted sum, the empty group taken out.    *)
kMaxSumRange == 16777216

SumBounds(ms) == <<FoldLeft(LAMBDA a, m : IF m < 0 THEN a + m ELSE a, 0, ms),
                   FoldLeft(LAMBDA a, m : IF m > 0 THEN a + m ELSE a, 0, ms)>>

SumCdf(p, ms, op, C) ==
  LET lo == SumBounds(ms)[1]
      hi == SumBounds(ms)[2]
      at(d, s) == IF s \in lo..hi THEN d[s - lo + 1] ELSE Q0
      step(d, i) == SubSeq([j \in 1..(hi - lo + 1) |->
                       QAdd(QMul(d[j], QNot(p[i])), QMul(at(d, lo + j - 1 - ms[i]), p[i]))],
                       1, hi - lo + 1)
      d == FoldLeft(step, [j \in 1..(hi - lo + 1) |-> IF j = 1 - lo THEN Q1 ELSE Q0],
                    [i \in DOMAIN p |-> i])
      hit == QSum([j \in DOMAIN d |-> IF compare(lo + j - 1, op, C) THEN d[j] ELSE Q0])
  IN  IF compare(0, op, C) THEN QSub(hit, AllAbsent(p)) ELSE hit

runSumCmpEvaluator(gc) ==
  ResolveMatching(gc,
    LAMBDA m : m.kind = "sum" /\ SumBounds(m.ms)[2] - SumBounds(m.ms)[1] + 1 <= kMaxSumRange,
    LAMBDA m, p : SumCdf(p, m.ms, m.op, m.C))

-----------------------------------------------------------------------------
(* The safe plan of a comparison of an aggregate over a join: contributors *)
(* are products of independent inputs, coupled only by a hierarchy of      *)
(* shared inputs or by a Cartesian product, and the distribution of the    *)
(* aggregate is computed along that structure.                             *)
(*                                                                         *)
(* A contributor is its set of inputs, a sequence of them a group; the     *)
(* distribution of a count or of a sum maps its values to probabilities.   *)
(* <<>> is a structure that is not supported.                              *)

LOCAL Ordered(S) == SetToSortSeq(S, LAMBDA a, b : a < b)
LOCAL Forced(f) == f @@ << >>

Unsupported == <<>>

kMaxContributorLeaves == 20

Prob(gc, leaves) == FoldSet(LAMBDA l, acc : QMul(acc, gc.gates[l].prob), Q1, leaves)

(* The inputs of a product, {} for one; Refuse for another shape or an     *)
(* input met twice.                                                        *)
RECURSIVE productLeaves(_, _)
productLeaves(gc, g) ==
  CASE gc.gates[g].type = "one"   -> <<>>
    [] gc.gates[g].type = "input" -> <<g>>
    [] gc.gates[g].type = "times" ->
         FlattenSeq(Each(gc.gates[g].wires, LAMBDA c : productLeaves(gc, c)))
    [] OTHER -> <<0>>

IsProduct(gc, g) ==
  LET leaves == productLeaves(gc, g)
  IN  0 \notin ToSet(leaves) /\ Cardinality(ToSet(leaves)) = Len(leaves)

parseProductContributor(gc, g) == ToSet(productLeaves(gc, g))

-----------------------------------------------------------------------------
(* Privacy: every wire to a gate below comes from below.                   *)
Below(gc, g) ==
  LET grow[n \in Nat] ==
        IF n = 0 THEN {g}
        ELSE LET S == grow[n - 1] IN S \cup UNION {ToSet(gc.gates[u].wires) : u \in S}
  IN  grow[Len(gc.gates)]

PrivateBelow(gc, g, ref, constants) ==
  LET cone == Below(gc, g)
      inside(u) == FoldSet(LAMBDA x, acc : acc + Len(SelectSeq(gc.gates[x].wires, LAMBDA c : c = u)),
                           0, cone)
  IN  \A u \in cone \ {g} : gc.gates[u].type \in constants \/ ref[u] = inside(u)

aggSubtreePrivate(gc, agg, ref) == PrivateBelow(gc, agg, ref, {"one", "zero", "value"})

(* The probability of a union or a difference of private inputs.           *)
contributorExactMarginal(gc, g, ref) ==
  LET cone == Below(gc, g)
      inputs == {u \in cone : gc.gates[u].type = "input"}
      holds(W) ==
        LET h[u \in cone] ==
              CASE gc.gates[u].type = "one"   -> TRUE
                [] gc.gates[u].type = "zero"  -> FALSE
                [] gc.gates[u].type = "input" -> u \in W
                [] gc.gates[u].type = "times" -> \A c \in ToSet(gc.gates[u].wires) : h[c]
                [] gc.gates[u].type = "plus"  -> \E c \in ToSet(gc.gates[u].wires) : h[c]
                [] gc.gates[u].type = "monus" -> h[gc.gates[u].wires[1]] /\ ~ h[gc.gates[u].wires[2]]
        IN  h[g]
      weight(W) == QMul(Prob(gc, W),
                        FoldSet(LAMBDA l, acc : QMul(acc, QNot(gc.gates[l].prob)), Q1, inputs \ W))
  IN  IF \/ \E u \in cone : gc.gates[u].type \notin {"one", "zero", "input", "times", "plus", "monus"}
         \/ ~ PrivateBelow(gc, g, ref, {"one", "zero"})
         \/ Cardinality(inputs) > kMaxContributorLeaves
      THEN Unsupported
      ELSE FoldSet(LAMBDA W, acc : IF holds(W) THEN QAdd(acc, weight(W)) ELSE acc,
                   Q0, SUBSET inputs)

-----------------------------------------------------------------------------
(* The structure of a group of contributors.  Blocks are the classes of    *)
(* contributors connected by shared inputs, as sets of positions.          *)
Classes(S, linked(_, _)) ==
  LET grow[n \in Nat, x \in S] ==
        IF n = 0 THEN {x}
        ELSE UNION {{y \in S : y = z \/ linked(z, y)} : z \in grow[n - 1, x]}
  IN  {grow[Cardinality(S), x] : x \in S}

independenceBlocks(contribs) ==
  Classes(DOMAIN contribs, LAMBDA i, j : contribs[i] \cap contribs[j] # {})

commonLeaves(contribs, members) ==
  {l \in contribs[CHOOSE m \in members : TRUE] : \A m \in members : l \in contribs[m]}

(* The classes of inputs two of which never meet in a contributor; parts   *)
(* are what the contributors take in each class.  The block is a product   *)
(* when every combination of parts is a contributor.                       *)
ProductFactors(contribs, members) ==
  LET leaves == UNION {contribs[m] : m \in members}
  IN  Classes(leaves, LAMBDA u, v : \A m \in members : {u, v} \subseteq contribs[m] => u = v)

PartsOf(contribs, members, F) == {contribs[m] \cap F : m \in members}

decomposeProduct_Incomplete(contribs, members) ==
  LET factors == ProductFactors(contribs, members)
  IN  /\ Cardinality(factors) >= 2
      /\ \A F \in factors : {} \notin PartsOf(contribs, members, F)

decomposeProduct(contribs, members) ==
  LET factors == ProductFactors(contribs, members)
      combinations == FoldSet(LAMBDA F, acc : acc * Cardinality(PartsOf(contribs, members, F)),
                              1, factors)
  IN  /\ Cardinality(factors) >= 2
      /\ \A F \in factors : {} \notin PartsOf(contribs, members, F)
      /\ combinations = Cardinality(members)

-----------------------------------------------------------------------------
(* Distributions: functions from values to probabilities.                  *)
Certain(x) == x :> Q1
Bernoulli(p, absent, present) ==
  IF absent = present THEN Certain(absent) ELSE (absent :> QNot(p)) @@ (present :> p)

(* Of the combination of two independent values.                           *)
Combined(a, b, op(_, _)) ==
  LET pairs == (DOMAIN a) \X (DOMAIN b)
      mass(v) == FoldSet(LAMBDA q, acc : IF op(q[1], q[2]) = v
                                         THEN QAdd(acc, QMul(a[q[1]], b[q[2]])) ELSE acc,
                         Q0, pairs)
  IN  Forced([v \in {op(q[1], q[2]) : q \in pairs} |-> mass(v)])

(* inner with probability p, and "absent" otherwise.                       *)
Mixed(p, inner, absent) ==
  Forced([v \in DOMAIN inner \cup {absent} |->
     QAdd(IF v \in DOMAIN inner THEN QMul(p, inner[v]) ELSE Q0,
          IF v = absent THEN QNot(p) ELSE Q0)])

convolve(a, b) == Combined(a, b, LAMBDA x, y : x + y)
productConvolve(a, b) == Combined(a, b, LAMBDA x, y : x * y)

(* A list of the elements of a set of sets, in some order.                 *)
Listing(S) == FoldSet(LAMBDA x, acc : Append(acc, x), <<>>, S)

Residuals(contribs, order, common) == Each(order, LAMBDA m : contribs[m] \ common)

(* The distribution of the number of contributors present.                 *)
RECURSIVE countPMF(_, _)
countPMF(gc, contribs) ==
  LET block(members) ==
        LET common == commonLeaves(contribs, members)
            inner == countPMF(gc, Residuals(contribs, Ordered(members), common))
            factors == Listing(ProductFactors(contribs, members))
            counts == Each(factors, LAMBDA F :
                             countPMF(gc, Listing(PartsOf(contribs, members, F))))
        IN  IF Cardinality(members) = 1
            THEN Bernoulli(Prob(gc, contribs[CHOOSE m \in members : TRUE]), 0, 1)
            ELSE IF common # {}
            THEN IF inner = Unsupported THEN Unsupported ELSE Mixed(Prob(gc, common), inner, 0)
            ELSE IF ~ decomposeProduct(contribs, members) \/ Unsupported \in ToSet(counts)
            THEN Unsupported
            ELSE FoldLeft(productConvolve, Certain(1), counts)
      pmfs == Each(Listing(independenceBlocks(contribs)), block)
  IN  IF Unsupported \in ToSet(pmfs) THEN Unsupported ELSE FoldLeft(convolve, Certain(0), pmfs)

(* The probability that no contributor is present.                         *)
RECURSIVE pAllAbsent(_, _)
pAllAbsent(gc, contribs) ==
  LET block(members) ==
        LET common == commonLeaves(contribs, members)
            inner == pAllAbsent(gc, Residuals(contribs, Ordered(members), common))
            absent == Each(Listing(ProductFactors(contribs, members)), LAMBDA F :
                        pAllAbsent(gc, Listing(PartsOf(contribs, members, F))))
        IN  IF Cardinality(members) = 1
            THEN QNot(Prob(gc, contribs[CHOOSE m \in members : TRUE]))
            ELSE IF common # {}
            THEN IF inner = Unsupported THEN Unsupported
                 ELSE QAdd(QNot(Prob(gc, common)), QMul(Prob(gc, common), inner))
            ELSE IF ~ decomposeProduct(contribs, members) \/ Unsupported \in ToSet(absent)
            THEN Unsupported
            ELSE QNot(QProd(Each(absent, QNot)))
      ps == Each(Listing(independenceBlocks(contribs)), block)
  IN  IF Unsupported \in ToSet(ps) THEN Unsupported ELSE QProd(ps)

-----------------------------------------------------------------------------
(* Sums.  weights are aligned with the contributors.                       *)
WeightAt(contribs, members, weights, leaves) ==
  weights[Max({m \in members : contribs[m] = leaves})]

(* The weight of member m0 with its part in F replaced; the block must     *)
(* hold that combination.                                                  *)
Replaced(contribs, m0, F, part) == (contribs[m0] \ F) \cup part

HasGrid(contribs, members, factors, m0) ==
  \A F \in factors : \A part \in PartsOf(contribs, members, F) :
    \E m \in members : contribs[m] = Replaced(contribs, m0, F, part)

(* The weight is a constant plus a term per factor: the terms.             *)
Terms(contribs, members, weights, F, m0) ==
  [part \in PartsOf(contribs, members, F) |->
     WeightAt(contribs, members, weights, Replaced(contribs, m0, F, part)) - weights[m0]]

AdditivelySeparable(contribs, members, weights, factors, m0) ==
  /\ HasGrid(contribs, members, factors, m0)
  /\ \A m \in members :
       weights[m] = FoldSet(LAMBDA F, acc :
                      acc + Terms(contribs, members, weights, F, m0)[contribs[m] \cap F],
                      weights[m0], factors)

(* The joint distribution of the sum and of the number of contributors.    *)
JointPlus(a, b) == <<a[1] + b[1], a[2] + b[2]>>
JointTimes(a, b) == <<a[1] * b[2] + b[1] * a[2], a[2] * b[2]>>

RECURSIVE sumCountPMF(_, _, _)
sumCountPMF(gc, contribs, weights) ==
  LET block(members) ==
        LET order == Ordered(members)
            m0 == order[1]
            common == commonLeaves(contribs, members)
            inner == sumCountPMF(gc, Residuals(contribs, order, common),
                                 Each(order, LAMBDA m : weights[m]))
            factors == Listing(ProductFactors(contribs, members))
            joint(i) ==
              LET parts == Listing(PartsOf(contribs, members, factors[i]))
                  terms == Terms(contribs, members, weights, factors[i], m0)
              IN  sumCountPMF(gc, parts,
                    Each(parts, LAMBDA q : terms[q] + (IF i = 1 THEN weights[m0] ELSE 0)))
            joints == Each([i \in DOMAIN factors |-> i], joint)
        IN  IF Len(order) = 1
            THEN Bernoulli(Prob(gc, contribs[m0]), <<0, 0>>, <<weights[m0], 1>>)
            ELSE IF common # {}
            THEN IF inner = Unsupported THEN Unsupported
                 ELSE Mixed(Prob(gc, common), inner, <<0, 0>>)
            ELSE IF \/ ~ decomposeProduct(contribs, members)
                    \/ ~ AdditivelySeparable(contribs, members, weights, ToSet(factors), m0)
                    \/ Unsupported \in ToSet(joints)
            THEN Unsupported
            ELSE FoldLeft(LAMBDA a, b : Combined(a, b, JointTimes), Certain(<<0, 1>>), joints)
      pmfs == Each(Listing(independenceBlocks(contribs)), block)
  IN  IF Unsupported \in ToSet(pmfs) THEN Unsupported
      ELSE FoldLeft(LAMBDA a, b : Combined(a, b, JointPlus), Certain(<<0, 0>>), pmfs)

(* The distribution of its sums, the counts forgotten.                     *)
SumsOf(joint) ==
  IF joint = Unsupported THEN Unsupported
  ELSE Combined(joint, Certain(0), LAMBDA x, y : x[1])

power(b, n) == FoldLeft(LAMBDA acc, i : acc * b, 1, [i \in 1..n |-> i])

(* The weight is a product of a term per factor, up to a power of the      *)
(* weight of one member.                                                   *)
MultiplicativelySeparable(contribs, members, weights, factors, m0) ==
  /\ HasGrid(contribs, members, factors, m0)
  /\ \A m \in members :
       weights[m] * power(weights[m0], Cardinality(factors) - 1)
         = FoldSet(LAMBDA F, acc :
             acc * WeightAt(contribs, members, weights,
                            Replaced(contribs, m0, F, contribs[m] \cap F)), 1, factors)

RECURSIVE sumPMF(_, _, _)
sumPMF(gc, contribs, weights) ==
  LET block(members) ==
        LET order == Ordered(members)
            m0 == order[1]
            common == commonLeaves(contribs, members)
            inner == sumPMF(gc, Residuals(contribs, order, common),
                            Each(order, LAMBDA m : weights[m]))
            factors == ProductFactors(contribs, members)
            \* the weight depends on the part in F alone
            carries(F) == \A m, q \in members :
                            contribs[m] \cap F = contribs[q] \cap F => weights[m] = weights[q]
            valued(F, leader) ==
              LET parts == Listing(PartsOf(contribs, members, F))
              IN  sumPMF(gc, parts, Each(parts, LAMBDA q :
                    WeightAt(contribs, members, weights, Replaced(contribs, leader, F, q))))
            byfactor(F) ==
              LET sum == valued(F, m0)
                  counts == Each(Listing(factors \ {F}), LAMBDA G :
                                 countPMF(gc, Listing(PartsOf(contribs, members, G))))
              IN  IF Unsupported \in {sum} \cup ToSet(counts) THEN Unsupported
                  ELSE productConvolve(sum, FoldLeft(productConvolve, Certain(1), counts))
            pivots == SelectSeq(order, LAMBDA m : weights[m] # 0)
            unit == power(weights[pivots[1]], Cardinality(factors) - 1)
            sums == Each(Listing(factors), LAMBDA F : valued(F, pivots[1]))
        IN  IF Len(order) = 1 THEN Bernoulli(Prob(gc, contribs[m0]), 0, weights[m0])
            ELSE IF common # {}
            THEN IF inner = Unsupported THEN Unsupported ELSE Mixed(Prob(gc, common), inner, 0)
            ELSE IF ~ decomposeProduct(contribs, members) THEN Unsupported
            ELSE IF \E F \in factors : carries(F)
            THEN byfactor(CHOOSE F \in factors : carries(F))
            ELSE IF AdditivelySeparable(contribs, members, weights, factors, m0)
            THEN SumsOf(sumCountPMF(gc, Each(order, LAMBDA m : contribs[m]),
                                    Each(order, LAMBDA m : weights[m])))
            ELSE IF /\ pivots # <<>>
                    /\ MultiplicativelySeparable(contribs, members, weights, factors, pivots[1])
                    /\ Unsupported \notin ToSet(sums)
            THEN Combined(FoldLeft(productConvolve, Certain(1), sums), Certain(unit),
                          LAMBDA x, y : IF y < 0 THEN (-x) \div (-y) ELSE x \div y)
            ELSE Unsupported
      pmfs == Each(Listing(independenceBlocks(contribs)), block)
  IN  IF Unsupported \in ToSet(pmfs) THEN Unsupported ELSE FoldLeft(convolve, Certain(0), pmfs)

-----------------------------------------------------------------------------
(* The contributors of a comparison: products of inputs, and blocks of     *)
(* exclusive alternatives [key, p, m]: those of a repaired key, and an     *)
(* annotation of another shape as the one alternative of its own.          *)
Products(gc, m) == SelectSeq([i \in DOMAIN m.ks |-> i], LAMBDA i : IsProduct(gc, m.ks[i]))

Alternative(gc, k, w, ref) ==
  IF gc.gates[k].type = "mulinput"
  THEN [key |-> gc.gates[k].wires[1], p |-> gc.gates[k].prob, m |-> w]
  ELSE [key |-> k, p |-> contributorExactMarginal(gc, k, ref), m |-> w]

Alternatives(gc, m, ref) ==
  Each(SelectSeq([i \in DOMAIN m.ks |-> i], LAMBDA i : ~ IsProduct(gc, m.ks[i])),
       LAMBDA i : Alternative(gc, m.ks[i], m.ms[i], ref))

Keys(alts) == {alts[i].key : i \in DOMAIN alts}

(* The probability that the block draws a value of some kind.              *)
blockMass(alts, key, wanted(_)) ==
  QMin(Q1, QSum(Each(SelectSeq(alts, LAMBDA a : a.key = key /\ wanted(a.m)), LAMBDA a : a.p)))

(* The distribution of the contribution of a block.                        *)
blockPMF(alts, key, contribution(_)) ==
  LET drawn == {contribution(alts[i].m) : i \in {j \in DOMAIN alts : alts[j].key = key}}
      mass(v) == QSum(Each(SelectSeq(alts, LAMBDA a : a.key = key /\ contribution(a.m) = v),
                           LAMBDA a : a.p))
  IN  [v \in drawn \cup {0} |->
         QAdd(IF v \in drawn THEN mass(v) ELSE Q0,
              IF v = 0 THEN QNot(blockMass(alts, key, LAMBDA w : TRUE)) ELSE Q0)]

CountProb(gc, m, contribs, alts) ==
  LET products == countPMF(gc, contribs)
      total == FoldSet(LAMBDA key, acc :
                          convolve(acc, Bernoulli(blockMass(alts, key, LAMBDA w : TRUE), 0, 1)),
                       products, Keys(alts))
      counted == {v \in DOMAIN total : compare(v, m.op, m.C) /\ (v >= 1 \/ m.scalar)}
  IN  IF products = Unsupported \/ \E i \in DOMAIN m.ms : m.ms[i] # 1 THEN Unsupported
      ELSE FoldSet(LAMBDA v, acc : QAdd(acc, total[v]), Q0, counted)

(* An average is the sum of the values less the threshold.                 *)
SumProb(gc, m, contribs, weights, alts) ==
  LET shift(w) == IF m.kind = "avg" THEN w - m.C ELSE w
      thr == IF m.kind = "avg" THEN 0 ELSE m.C
      products == sumPMF(gc, contribs, Each(weights, shift))
      total == FoldSet(LAMBDA key, acc : convolve(acc, blockPMF(alts, key, shift)),
                       products, Keys(alts))
      hit == FoldSet(LAMBDA v, acc : QAdd(acc, total[v]), Q0,
                     {v \in DOMAIN total : compare(v, m.op, thr)})
      absent == pAllAbsent(gc, contribs)
      empty == FoldSet(LAMBDA key, acc :
                  QMul(acc, QNot(blockMass(alts, key, LAMBDA w : TRUE))), absent, Keys(alts))
  IN  IF products = Unsupported THEN Unsupported
      ELSE IF ~ compare(0, m.op, thr) THEN hit
      ELSE IF absent = Unsupported THEN Unsupported
      ELSE QSub(hit, empty)

MinMaxProb(gc, m, contribs, weights, alts) ==
  LET absent(wanted(_)) ==
        LET among == SelectSeq([i \in DOMAIN contribs |-> i], LAMBDA i : wanted(weights[i]))
            products == pAllAbsent(gc, Each(among, LAMBDA i : contribs[i]))
        IN  IF products = Unsupported THEN Unsupported
            ELSE FoldSet(LAMBDA key, acc : QMul(acc, QNot(blockMass(alts, key, wanted))),
                         products, Keys(alts))
      none(op) == absent(LAMBDA w : compare(w, op, m.C))
      nobody == absent(LAMBDA w : TRUE)
      beyond == IF m.kind = "max" THEN ">" ELSE "<"      \* the better side
      orequal == IF m.kind = "max" THEN ">=" ELSE "<="
      equal == QSub(none(beyond), none(orequal))
      needed == CASE m.op \in {beyond, orequal} -> {m.op}
                  [] m.op \in {"=", "<>"} -> {beyond, orequal}
                  [] m.op = flip_op(beyond) -> {orequal}
                  [] m.op = flip_op(orequal) -> {beyond}
  IN  IF (\E op \in needed : none(op) = Unsupported) \/ nobody = Unsupported THEN Unsupported
      ELSE CASE m.op \in {beyond, orequal} -> QNot(none(m.op))
             [] m.op = "="  -> equal
             [] m.op = "<>" -> QSub(QNot(nobody), equal)
             [] m.op = flip_op(beyond) -> QSub(none(orequal), nobody)
             [] m.op = flip_op(orequal) -> QSub(none(beyond), nobody)

MarginalOf(gc, m, ref) ==
  LET order == Products(gc, m)
      contribs == Each(order, LAMBDA i : parseProductContributor(gc, m.ks[i]))
      weights == Each(order, LAMBDA i : m.ms[i])
      alts == Alternatives(gc, m, ref)
  IN  IF \/ m.kind \notin {"count", "sum", "avg", "min", "max"}
         \/ ref[m.agg] # 1
         \/ \E i \in DOMAIN alts : alts[i].p = Unsupported
         \/ UNION ToSet(contribs) \cap Keys(alts) # {}
         \/ ~ aggSubtreePrivate(gc, m.agg, ref)
      THEN Unsupported
      ELSE IF m.kind = "count" THEN CountProb(gc, m, contribs, alts)
      ELSE IF m.kind \in {"sum", "avg"} THEN SumProb(gc, m, contribs, weights, alts)
      ELSE MinMaxProb(gc, m, contribs, weights, alts)

runAggMarginalEvaluator(gc) ==
  LET ref == computeRefCounts(gc)
      resolve(acc, cmp) ==
        LET m == matchAggCmp(acc, cmp)
            p == MarginalOf(acc, m[1], ref)
        IN  IF m = <<>> THEN acc
            ELSE IF p = Unsupported THEN acc
            ELSE resolveCmpToBernoulli(acc, cmp, Clamped(p))
  IN  FoldLeft(resolve, gc, cmps(gc))

(* The comparisons replaced before a probability is computed.              *)
resolveComparators(gc, cmp_probability_evaluation) ==
  LET forms == runAggMarginalEvaluator(runSumCmpEvaluator(runMinMaxCmpEvaluator(
                 runCountCmpEvaluator(runRangeCheck(gc)))))
  IN  runHavingAlwaysTrueRewriter(IF cmp_probability_evaluation THEN forms ELSE runRangeCheck(gc))
=============================================================================
