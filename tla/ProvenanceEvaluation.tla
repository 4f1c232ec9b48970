------------------------ MODULE ProvenanceEvaluation -------------------------
(***************************************************************************)
(* A session reads a provenance circuit from the store under a provenance  *)
(* class, and asks for its value in a semiring or for its probability.     *)
(* Against it: the value and the probability the circuit has as stored,    *)
(* without any fold, closed form or enumeration shortcut.  The four stages *)
(* of a session are parameters: a configuration gives them the definitions *)
(* named beside them.                                                      *)
(***************************************************************************)
EXTENDS ComparatorResolution

CONSTANTS
  Cases,              \* circuits as stored, each with the semirings to try
  Simplify(_, _),     \* a circuit loaded under a class: applyLoadTimeSimplification
  Evaluate(_, _, _),  \* its value in a semiring: pec
  Comparators(_, _),  \* its comparisons replaced: resolveComparators
  ToBoolean(_)        \* its Boolean circuit: getBooleanCircuit

VARIABLES case,         \* the circuit as stored and its semirings
          class,        \* the provenance class of the session
          gc,           \* the circuit in memory
          stage,        \* what was done last
          sr,           \* the semiring of the evaluation
          answer        \* the value, the term or the probability

vars == <<case, class, gc, stage, sr, answer>>

Classes3 == {"semiring", "absorptive", "boolean"}

LOCAL Each(s, f(_)) == SubSeq([i \in DOMAIN s |-> f(s[i])], 1, Len(s))

applyLoadTimeSimplification(c, provenance_class) ==
  LET folded == foldSemiringIdentities(runRangeCheck(c))
  IN  CASE provenance_class = "boolean"    -> foldBooleanIdentities(folded)
        [] provenance_class = "absorptive" -> foldAbsorptiveIdentities(folded)
        [] OTHER -> folded

(* The values of a mapping table: a list repeated over the inputs, the     *)
(* inputs of "unmapped" left out.                                          *)
Inputs(c) == {g \in DOMAIN c.gates : c.gates[g].type = "input"}

initialize_provenance_mapping(c, s) ==
  [g \in Inputs(c) \ s.unmapped |-> s.leaf[((g - 1) % Len(s.leaf)) + 1]]

BoolExprSemiring == [name |-> "boolexpr"]

(* Every input and alternative, those of replaced comparisons included, is *)
(* a gate of the Boolean circuit.                                          *)
getBooleanCircuit(c) ==
  LET leaves == {u \in DOMAIN c.gates : c.gates[u].type \in {"input", "mulinput"}}
  IN  pec(c, [g \in leaves |-> Leaf(g)], BoolExprSemiring)

-----------------------------------------------------------------------------
Init ==
  /\ case \in Cases
  /\ class = "none" /\ gc = case.circuit /\ stage = "stored"
  /\ sr = [name |-> "none"] /\ answer = Skip

Load(c) ==
  /\ stage = "stored"
  /\ class' = c
  /\ gc' = Simplify(case.circuit, c)
  /\ stage' = "loaded"
  /\ UNCHANGED <<case, sr, answer>>

provenance_evaluate_compiled(s) ==
  /\ stage = "loaded"
  /\ sr' = s
  /\ answer' = Evaluate(gc, initialize_provenance_mapping(gc, s), s)
  /\ stage' = "evaluated"
  /\ UNCHANGED <<case, class, gc>>

(* A probability: comparisons are replaced, or not at all when the setting *)
(* is off, and the rest becomes a Boolean circuit.                         *)
Resolve(setting) ==
  /\ stage = "loaded"
  /\ gc' = Comparators(gc, setting)
  /\ stage' = "resolved"
  /\ UNCHANGED <<case, class, sr, answer>>

Compile ==
  /\ stage = "resolved"
  /\ answer' = ToBoolean(gc)
  /\ stage' = "compiled"
  /\ UNCHANGED <<case, class, gc, sr>>

Next ==
  \/ \E c \in Classes3 : Load(c)
  \/ \E s \in case.semirings : provenance_evaluate_compiled(s)
  \/ \E setting \in BOOLEAN : Resolve(setting)
  \/ Compile

Spec == Init /\ [][Next]_vars

-----------------------------------------------------------------------------
(* The reference.  The rows of an aggregate present in a world, and SQL's  *)
(* value of the aggregate over them.                                       *)
KGates(c, g) ==
  LET aggs == AggsIn(c, g)
  IN  {KOf(c, ch) : ch \in UNION {ToSet(c.gates[aggs[i]].wires) : i \in DOMAIN aggs}}

SQLAggregate(kind, x, scalar) ==
  LET numbers == Each(x, ToRational)
      truths == {(x[i] \in Truths) : i \in DOMAIN x}
  IN  IF kind = "count" THEN <<QSum(numbers)>>
      ELSE IF x = <<>> THEN <<>>
      ELSE CASE kind = "sum" -> <<QSum(numbers)>>
             [] kind = "avg" -> <<QDiv(QSum(numbers), <<Len(x), 1>>)>>
             [] kind = "min" -> <<FoldLeft(QMin, numbers[1], numbers)>>
             [] kind = "max" -> <<FoldLeft(QMax, numbers[1], numbers)>>
             [] kind = "choose" -> <<IF IsDecimal(x[1]) THEN numbers[1] ELSE x[1]>>
             [] kind = "array_agg" -> <<x>>
             [] kind = "bool_or" -> <<IF TRUE \in truths THEN TrueText ELSE FalseText>>
             [] kind = "bool_and" -> <<IF FALSE \in truths THEN FalseText ELSE TrueText>>

(* A side of a comparison; <<>> is NULL.                                   *)
RECURSIVE SQLSide(_, _, _)
SQLSide(c, g, there) ==
  LET gate == c.gates[g]
      rows == SelectSeq(gate.wires, LAMBDA ch : KOf(c, ch) \in there)
      constant(x) == <<IF Len(x) > 1 THEN x
                       ELSE IF IsDecimal(x[1]) THEN ToRational(x[1]) ELSE x[1]>>
      args == Each(gate.wires, LAMBDA ch : SQLSide(c, ch, there))
      whole(u) == c.gates[u].aggtype = "int" \/ c.gates[u].type \in {"value", "semimod"}
      result == Arith(gate.op, [i \in DOMAIN args |->
                  IF args[i] = <<>> THEN Null ELSE Number(args[i][1], whole(gate.wires[i]))])
  IN  CASE gate.type = "agg" -> SQLAggregate(gate.op, Each(rows, LAMBDA ch : ValueOf(c, ch)[1]),
                                             gate.scalar)
        [] gate.type = "value"   -> constant(gate.extra)
        [] gate.type = "semimod" -> constant(ValueOf(c, g))
        [] gate.type = "arith"   -> IF result.null THEN <<>> ELSE <<result.val>>

(* HAVING: the group exists, or the aggregation has no GROUP BY, and the   *)
(* comparison is true.                                                     *)
SQLHaving(c, cmp, there) ==
  LET L == c.gates[cmp].wires[1]
      R == c.gates[cmp].wires[2]
      op == c.gates[cmp].op
      a == SQLSide(c, L, there)
      b == SQLSide(c, R, there)
      aggs == AggsIn(c, L) \o AggsIn(c, R)
      scalar == \A i \in DOMAIN aggs : c.gates[aggs[i]].scalar
  IN  /\ scalar \/ (KGates(c, L) \cup KGates(c, R)) \cap there # {}
      /\ a # <<>> /\ b # <<>>
      /\ IF op \in {"=", "<>"} THEN (a = b) = (op = "=")
         ELSE CmpHolds(op, QLt(a[1], b[1]), a = b)

(* The value of a stored circuit in a semiring: every set of annotations   *)
(* for which the comparison holds, those present times one minus those     *)
(* missing.                                                                *)
Reference(c, s, mapping) ==
  LET value[u \in DOMAIN c.gates] ==
        LET gate == c.gates[u]
            v == Each(gate.wires, LAMBDA w : value[w])
            k == KGates(c, gate.wires[1]) \cup KGates(c, gate.wires[2])
            all(S) == Each(Listing(S), LAMBDA w : value[w])
            term(S) == Times(s, Append(all(S), Monus(s, One(s), Plus(s, all(k \ S)))))
        IN  IF u \in DOMAIN mapping THEN mapping[u]
            ELSE CASE gate.type \in {"one", "input"} -> One(s)
                   [] gate.type = "zero"  -> Zero(s)
                   [] gate.type = "plus"  -> Plus(s, v)
                   [] gate.type = "times" -> Times(s, v)
                   [] gate.type = "monus" -> Monus(s, v[1], v[2])
                   [] gate.type = "delta" -> Delta(s, v[1])
                   [] gate.type = "assumed" -> v[1]
                   [] gate.type = "cmp" ->
                        Plus(s, Each(Listing({S \in SUBSET k : SQLHaving(c, u, S)}), term))
  IN  value[c.root]

(* The truth of a stored circuit in a world of inputs and alternatives.    *)
HoldsIn(c, W) ==
  LET holds[u \in DOMAIN c.gates] ==
        LET gate == c.gates[u]
        IN  CASE gate.type = "one"  -> TRUE
              [] gate.type = "zero" -> FALSE
              [] gate.type \in {"input", "mulinput"} -> u \in W
              [] gate.type = "plus"  -> \E w \in ToSet(gate.wires) : holds[w]
              [] gate.type = "times" -> \A w \in ToSet(gate.wires) : holds[w]
              [] gate.type = "monus" -> holds[gate.wires[1]] /\ ~ holds[gate.wires[2]]
              [] gate.type \in {"delta", "assumed"} -> holds[gate.wires[1]]
              [] gate.type = "cmp" ->
                   SQLHaving(c, u, {g \in KGates(c, gate.wires[1]) \cup KGates(c, gate.wires[2]) :
                                      holds[g]})
  IN  holds[c.root]

(* Worlds: the inputs are independent, at most one alternative of a key is *)
(* there.                                                                  *)
KeyOf(c, g) == c.gates[g].wires[1]
Alts(c) == {g \in DOMAIN c.gates : c.gates[g].type = "mulinput"}
Free(c) == Inputs(c) \ {KeyOf(c, g) : g \in Alts(c)}

Worlds(c, among) ==
  {W \in SUBSET ((Free(c) \cup Alts(c)) \cap among) :
     \A g, h \in W \cap Alts(c) : KeyOf(c, g) = KeyOf(c, h) => g = h}

WorldWeight(c, among, W) ==
  LET out == (Free(c) \cap among) \ W
      keys == {KeyOf(c, g) : g \in Alts(c) \cap among}
      none(k) == FoldSet(LAMBDA g, acc : QSub(acc, c.gates[g].prob), Q1,
                         {g \in Alts(c) : KeyOf(c, g) = k})
      absent == {k \in keys : \A g \in W \cap Alts(c) : KeyOf(c, g) # k}
  IN  QMul(QMul(Prob(c, W), FoldSet(LAMBDA g, acc : QMul(acc, QNot(c.gates[g].prob)), Q1, out)),
           FoldSet(LAMBDA k, acc : QMul(acc, none(k)), Q1, absent))

(* An alternative not looked at is as good as absent.                      *)
Measure(c, among, holds(_)) ==
  LET all == among \cup {g \in Alts(c) : KeyOf(c, g) \in {KeyOf(c, h) : h \in Alts(c) \cap among}}
  IN  FoldSet(LAMBDA W, acc : IF holds(W) THEN QAdd(acc, WorldWeight(c, all, W)) ELSE acc,
              Q0, Worlds(c, all))

-----------------------------------------------------------------------------
(* Terms of a Boolean circuit.                                             *)
RECURSIVE TermLeaves(_)
TermLeaves(t) ==
  IF t.op = "IN" THEN {t.leaf} ELSE UNION {TermLeaves(t.args[i]) : i \in DOMAIN t.args}

RECURSIVE TermHolds(_, _)
TermHolds(t, W) ==
  CASE t.op = "IN"  -> t.leaf \in W
    [] t.op = "AND" -> \A i \in DOMAIN t.args : TermHolds(t.args[i], W)
    [] t.op = "OR"  -> \E i \in DOMAIN t.args : TermHolds(t.args[i], W)
    [] t.op = "NOT" -> ~ TermHolds(t.args[1], W)

RECURSIVE Certified(_)
Certified(t) ==
  (IF t.cert THEN {t} ELSE {}) \cup UNION {Certified(t.args[i]) : i \in DOMAIN t.args}

Decomposable(t) ==
  \A i, j \in DOMAIN t.args : i < j => TermLeaves(t.args[i]) \cap TermLeaves(t.args[j]) = {}

Deterministic(t) ==
  \A W \in SUBSET TermLeaves(t) :
    \A i, j \in DOMAIN t.args : i < j => ~ (TermHolds(t.args[i], W) /\ TermHolds(t.args[j], W))

-----------------------------------------------------------------------------
HasAssumption(s) ==
  \E g \in DOMAIN case.circuit.gates :
    /\ case.circuit.gates[g].type = "assumed"
    /\ ~ (IF case.circuit.gates[g].op = "boolean" THEN compatibleWithBooleanRewrite(s)
          ELSE absorptive(s))

(* A mark a fold left where evaluation never looks, although it refuses    *)
(* the semiring: on an input mapped before the evaluation starts           *)
(* (GenericCircuit.hpp 233-237), or on a "one" then dropped from a product *)
(* (GenericCircuit.cpp 88-97).                                             *)
UnseenMark ==
  \E u \in (gc.boolean \cup gc.absorptive) \ {gc.root} :
    /\ ~ Admits(gc, sr, u)
    /\ gc.gates[u].type \in {"input", "one"}

(* A value that is returned is the value of the circuit as stored: no      *)
(* fold, mark or enumeration shortcut is felt by a semiring it is not      *)
(* sound for, unless its mark is unseen.  The comment of GenericCircuit.hpp*)
(* 64-69 says a mark moved onto a mapped input refuses too: it does so at  *)
(* the root alone.                                                         *)
ValueAsStored ==
  stage = "evaluated" /\ answer.ok /\ ~ UnseenMark =>
    answer.val = Reference(case.circuit, sr, initialize_provenance_mapping(case.circuit, sr))

(* The probability of the Boolean circuit is that of the circuit as        *)
(* stored, whichever comparisons were replaced by a gate of their own      *)
(* probability.                                                            *)
ProbabilityAsStored ==
  stage = "compiled" =>
    /\ answer.ok
    /\ Measure(gc, TermLeaves(answer.val), LAMBDA W : TermHolds(answer.val, W))
         = Measure(case.circuit, DOMAIN case.circuit.gates, LAMBDA W : HoldsIn(case.circuit, W))

(* A certified OR never has two true arms and a certified AND no shared    *)
(* input: methods that trust certificates add and multiply.                *)
CertificatesHold ==
  stage = "compiled" =>
    \A t \in Certified(answer.val) : IF t.op = "OR" THEN Deterministic(t) ELSE Decomposable(t)

(* The mapped values and the constants obey the laws the folds and the     *)
(* HAVING enumeration rest on: a commutative semiring, a monus that is the *)
(* least z with x <= y + z, and the two claims on absorption and Boolean   *)
(* rewriting.  They are of the semiring alone: the evaluations of circuits *)
(* without a comparison, under one class, meet every semiring.             *)
SemiringLaws ==
  stage = "evaluated" /\ class = "semiring" /\ cmps(gc) = <<>> =>
    LET V == {Zero(sr), One(sr)} \cup ToSet(sr.leaf)
        plus(x, y) == Plus(sr, <<x, y>>)
        times(x, y) == Times(sr, <<x, y>>)
    IN  \A x, y, z \in V :
          /\ plus(x, y) = plus(y, x) /\ times(x, y) = times(y, x)
          /\ plus(x, Zero(sr)) = x /\ times(x, One(sr)) = x /\ times(x, Zero(sr)) = Zero(sr)
          /\ plus(x, plus(y, z)) = Plus(sr, <<x, y, z>>) /\ plus(plus(x, y), z) = Plus(sr, <<x, y, z>>)
          /\ times(x, times(y, z)) = Times(sr, <<x, y, z>>)
          /\ times(times(x, y), z) = Times(sr, <<x, y, z>>)
          /\ times(x, plus(y, z)) = plus(times(x, y), times(x, z))
          /\ plus(x, Monus(sr, y, x)) = plus(y, Monus(sr, x, y))
          /\ Monus(sr, x, x) = Zero(sr) /\ Monus(sr, Zero(sr), x) = Zero(sr)
          /\ Monus(sr, x, plus(y, z)) = Monus(sr, Monus(sr, x, y), z)
          /\ absorptive(sr) => plus(One(sr), x) = One(sr)
          /\ compatibleWithBooleanRewrite(sr) => times(x, x) = x /\ times(x, plus(x, y)) = x

(* subset.hpp says of the flag that lets the missing contributors go: it   *)
(* is set when the worlds returned generate an upward-closed set.          *)
UpsetIsClosed ==
  stage = "loaded" =>
    \A m \in {matchAggCmp(gc, cmp)[1] : cmp \in ToSet(cmps(gc))} :
      \A valid \in {enumerate_valid_worlds(m.ms, m.C, m.op, m.kind, TRUE, m.scalar)} :
        valid.upset => \A U \in valid.worlds, S \in all_worlds(Len(m.ms)) :
                         U \subseteq S => agg_cmp_holds_in_world(m.ms, S, m.C, m.op, m.kind)
=============================================================================
