-------------------------- MODULE CircuitEvaluation -------------------------
(***************************************************************************)
(* One evaluation of one Boolean circuit: a method asked by name, or the   *)
(* portfolio that runs under a tolerance.  The portfolio acquires features *)
(* and runs methods, the cheapest first; the costs are calibration         *)
(* constants and are left open, so the next thing done is any thing that   *)
(* is ready.  A method that gives up leaves the portfolio.  The compiler   *)
(* and the counter are external; a sampler is modelled by its expectation. *)
(* The registry of the methods is a parameter, as it is in the code: a     *)
(* configuration registers the definitions EvaluateMethod and buildDD.     *)
(***************************************************************************)
EXTENDS ReachabilityCompiler

CONSTANTS
  Circuits,      \* the circuits loaded: [gates, root]
  Tolerances,    \* the tolerances asked: [kind, eps, sampled]
  kPossibleWorldsSanityMax,   \* most inputs the worlds are enumerated for
  kSieveSanityMaxClauses,     \* most clauses inclusion-exclusion is run on
  evaluate_as(_, _, _, _),    \* the probability a method finds, or Refused
  build_as(_, _, _),          \* the d-DNNF a method makes, or NoDD
  Queries,       \* reachability queries, each over its edge relation
  compile_as(_)  \* the circuit of a query and its roots, or NoCircuit

VARIABLES
  source,        \* the circuit as it is loaded, or the query to compile
  ctx,           \* the context: circuit (rewritten or not), features
  request,       \* what is asked: "none" before
  portfolio,     \* the methods left to try
  answer         \* what the call returned

evars == <<source, ctx, request, portfolio, answer>>

-----------------------------------------------------------------------------
(* Probability bounds by partial compilation: an interval narrowed by      *)
(* splitting into independent components and branching on the most         *)
(* frequent variable until it is no wider than asked, over the clauses of  *)
(* a DNF and over any circuit of Boolean gates.  The memo of exact values  *)
(* and the cost budget are left out: a memoised value is the recomputed    *)
(* one, and running out of budget is a refusal.                            *)

Interval(l, u) == [lower |-> l, upper |-> u]
Point(p) == Interval(p, p)
Width(iv) == QSub(iv.upper, iv.lower)
OverN(w, n) == Q(w[1], w[2] * n)

removeSubsumed(clauses) == canonical(clauses)

components(clauses) ==
  LET share(u, w) == u \cap w # {} IN Blocks(clauses, share)

Count(v, fam) == Cardinality({s \in fam : v \in s})

mostFrequentVar(fam) ==
  CHOOSE x \in UNION fam : \A y \in UNION fam :
    Count(x, fam) > Count(y, fam) \/ (Count(x, fam) = Count(y, fam) /\ x <= y)

(* 1 minus the product of the complements, and the mixture over a variable *)
IndependentOr(ivs) ==
  Interval(QNot(QProd([i \in DOMAIN ivs |-> QNot(ivs[i].lower)])),
           QNot(QProd([i \in DOMAIN ivs |-> QNot(ivs[i].upper)])))

Mix(p, hi, lo) ==
  Interval(QAdd(QMul(p, hi.lower), QMul(QNot(p), lo.lower)),
           QAdd(QMul(p, hi.upper), QMul(QNot(p), lo.upper)))

RECURSIVE recurse(_, _, _)
recurse(c, clauses0, w) ==
  LET clauses == removeSubsumed(clauses0)
      b == dnfBounds(c, ListOf(clauses))
      comps == ListOf(components(clauses))
      x == mostFrequentVar(clauses)
      pos == {cl \ {x} : cl \in clauses}
      neg == {cl \in clauses : x \notin cl}
  IN  IF clauses0 = {} THEN Point(Q0)
      ELSE IF {} \in clauses0 THEN Point(Q1)
      ELSE IF QLe(QSub(b.upper, b.lower), w) THEN Interval(b.lower, b.upper)
      ELSE IF Len(comps) > 1
        THEN IndependentOr([i \in DOMAIN comps |-> recurse(c, comps[i], OverN(w, Len(comps)))])
      ELSE Mix(c[x].prob, recurse(c, pos, w), recurse(c, neg, w))

dtreeBounds(c, g, w) == recurse(c, ToSet(dnfShape(c, g)), w)

-----------------------------------------------------------------------------
(* The same over a circuit.  A is the partial assignment: [pos, neg].      *)

(* The uncertain inputs below a gate.                                      *)
footprintOf(c, g) ==
  {x \in Reachable(c, g) : c[x].type = "IN" /\ QLt(Q0, c[x].prob) /\ QLt(c[x].prob, Q1)}

Free(c, g, A) == footprintOf(c, g) \ (A.pos \cup A.neg)

determined(c, g, A) == Free(c, g, A) = {}

evalDet(c, g, A) ==
  evaluate(c, g, A.pos \cup {x \in Inputs(c) \ (A.pos \cup A.neg) : QLe(Q1, c[x].prob)})

genComponents(c, live, A) ==
  LET share(u, w) == Free(c, u, A) \cap Free(c, w, A) # {} IN Blocks(live, share)

genPivot(c, live, A) ==
  LET fr(x) == Cardinality({g \in live : x \in Free(c, g, A)})
      vs == UNION {Free(c, g, A) : g \in live}
  IN  CHOOSE x \in vs : \A y \in vs : fr(x) > fr(y) \/ (fr(x) = fr(y) /\ x <= y)

(* Bounds without branching: products over independent components, the     *)
(* union bound and Bonferroni's inside one.                                *)
RECURSIVE genBound(_, _, _)
genBoundGroup(c, op, children, A) ==
  LET comps == ListOf(genComponents(c, children, A))
      bnd(S) == LET q == ListOf(S) IN [i \in DOMAIN q |-> genBound(c, q[i], A)]
      Group(S) ==
        LET bs == bnd(S)
            lows == [i \in DOMAIN bs |-> bs[i].lower]
            ups == [i \in DOMAIN bs |-> bs[i].upper]
        IN  IF Len(bs) = 1 THEN bs[1]
            ELSE IF op = "AND"
              THEN Interval(QMax(Q0, QSub(QSum(lows), Q(Len(bs) - 1, 1))), Steps(QMin, Q1, ups))
            ELSE Interval(Steps(QMax, Q0, lows), QMin(Q1, QSum(ups)))
      gs == [i \in DOMAIN comps |-> Group(comps[i])]
  IN  IF op = "AND" THEN Interval(QProd([i \in DOMAIN gs |-> gs[i].lower]),
                                  QProd([i \in DOMAIN gs |-> gs[i].upper]))
      ELSE IndependentOr(gs)

genBound(c, g, A) ==
  LET below == genBound(c, c[g].wires[1], A)
  IN  CASE c[g].type = "IN" -> IF g \in A.pos THEN Point(Q1)
                               ELSE IF g \in A.neg THEN Point(Q0) ELSE Point(c[g].prob)
        [] c[g].type = "NOT" -> Interval(QNot(below.upper), QNot(below.lower))
        [] OTHER -> genBoundGroup(c, c[g].type, ToSet(c[g].wires), A)

RECURSIVE genRefine(_, _, _, _)
RECURSIVE genRefineGroup(_, _, _, _, _)

genRefine(c, g, A, w) ==
  LET b == genBound(c, g, A)
      r == genRefine(c, c[g].wires[1], A, w)
  IN  IF determined(c, g, A) THEN Point(IF evalDet(c, g, A) THEN Q1 ELSE Q0)
      ELSE IF QLt(Q0, w) /\ QLe(Width(b), w) THEN b
      ELSE CASE c[g].type = "NOT" -> Interval(QNot(r.upper), QNot(r.lower))
             [] c[g].type = "IN" -> Point(c[g].prob)
             [] OTHER -> genRefineGroup(c, c[g].type, ToSet(c[g].wires), A, w)

genRefineGroup(c, op, children, A, w) ==
  LET fixed == {g \in children : determined(c, g, A)}
      live == children \ fixed
      comps == ListOf(genComponents(c, live, A))
      parts == [i \in DOMAIN comps |->
                  genRefineGroup(c, op, comps[i], A, OverN(w, Len(comps)))]
      b == genBoundGroup(c, op, live, A)
      x == genPivot(c, live, A)
  IN  IF \E g \in fixed : evalDet(c, g, A) # (op = "AND")
        THEN Point(IF op = "AND" THEN Q0 ELSE Q1)
      ELSE IF live = {} THEN Point(IF op = "AND" THEN Q1 ELSE Q0)
      ELSE IF Len(comps) > 1
        THEN IF op = "AND" THEN Interval(QProd([i \in DOMAIN parts |-> parts[i].lower]),
                                         QProd([i \in DOMAIN parts |-> parts[i].upper]))
             ELSE IndependentOr(parts)
      ELSE IF Cardinality(live) = 1 THEN genRefine(c, CHOOSE g \in live : TRUE, A, w)
      ELSE IF QLt(Q0, w) /\ QLe(Width(b), w) THEN b
      ELSE Mix(c[x].prob, genRefineGroup(c, op, live, [A EXCEPT !.pos = @ \cup {x}], w),
                          genRefineGroup(c, op, live, [A EXCEPT !.neg = @ \cup {x}], w))

dtreeBoundsCircuit(c, root, w) == genRefine(c, root, [pos |-> {}, neg |-> {}], w)

-----------------------------------------------------------------------------
(* The methods and the portfolio *)

NotYet == <<0>>   \* no answer so far
Failed == <<1>>   \* an error is reported

Methods == {"independent", "route", "inversion-free", "tree-decomposition", "compilation",
            "possible-worlds", "sieve", "d-tree", "monte-carlo", "karp-luby",
            "stopping-rule", "interpret-as-dd", "wmc"}

inDefaultChain == Methods \ {"interpret-as-dd", "wmc"}
isDeterministic == Methods \ {"monte-carlo", "karp-luby", "stopping-rule"}
producesDD == {"interpret-as-dd", "tree-decomposition", "compilation"}
handlesMultivalued == {"independent", "route"}

guaranteeKind(m) ==
  CASE m \in {"karp-luby", "stopping-rule", "wmc"} -> "relative"
    [] m = "monte-carlo" -> "additive"
    [] OTHER -> "exact"

toleranceAdmits(asked, kind) ==
  CASE asked = "exact" -> kind = "exact"
    [] asked = "relative" -> kind # "additive"
    [] OTHER -> TRUE

requiredFeatures(m) ==
  CASE m = "tree-decomposition" -> {"TreewidthProxy"}
    [] m \in {"karp-luby", "sieve", "d-tree"} -> {"DnfShape"}
    [] OTHER -> {}

(* The route that produced the root: a certified root carries its tag.     *)
rootRoute(c) == IF isDNNFCertified(c.gates, c.root) THEN "route" ELSE "none"

(* When a method applies, at a finite cost, once its features are there.   *)
(* Features and input count are those of the circuit when they were taken. *)
IndependentMethod == rootRoute(source) = "none"
RouteMethod == rootRoute(source) = "route"
InversionFreeMethod == Extractable(source.gates, source.root)
TreeDecompositionMethod == ctx.tw <= MAX_TREEWIDTH
PossibleWorldsMethod ==
  Cardinality(Inputs(source.gates)) \in 1..kPossibleWorldsSanityMax
SieveMethod ==
  ctx.dnf /\ Len(ClauseRoots(source.gates, source.root)) <= kSieveSanityMaxClauses
KarpLubyMethod(tol) == ctx.dnf /\ tol.kind # "exact"
DTreeBoundsMethod(tol) == ctx.dnf \/ tol.kind # "exact"
MonteCarloMethod(tol) == tol.kind # "exact"
StoppingRuleMethod(tol) == tol.kind # "exact"

applicable(m, tol) ==
  CASE m = "independent" -> IndependentMethod
    [] m = "route" -> RouteMethod
    [] m = "inversion-free" -> InversionFreeMethod
    [] m = "tree-decomposition" -> TreeDecompositionMethod
    [] m = "possible-worlds" -> PossibleWorldsMethod
    [] m = "sieve" -> SieveMethod
    [] m = "karp-luby" -> KarpLubyMethod(tol)
    [] m = "d-tree" -> DTreeBoundsMethod(tol)
    [] m = "monte-carlo" -> MonteCarloMethod(tol)
    [] m = "stopping-rule" -> StoppingRuleMethod(tol)
    [] OTHER -> TRUE

(* Methods that cannot take multivalued inputs see the circuit rewritten.  *)
Rewritten(x) == [x EXCEPT !.c = rewriteMultivaluedGates(@)]

-----------------------------------------------------------------------------
(* The d-tree: an interval of the width the tolerance allows (a relative   *)
(* one from a lower bound of the probability), answered by its middle.     *)
TreeWidthFor(c, root, tol) ==
  LET l0 == IF dnfShapeInfo(c, root) THEN dnfBounds(c, dnfShape(c, root)).lower
            ELSE dtreeBoundsCircuit(c, root, Q1).lower
      twice == QMul(Q(2, 1), tol.eps)
  IN  CASE tol.kind = "additive" -> twice
        [] tol.kind = "relative" -> QMul(twice, l0)
        [] OTHER -> Q0

dtreeInterval(c, root, w) ==
  IF dnfShapeInfo(c, root) THEN dtreeBounds(c, root, w) ELSE dtreeBoundsCircuit(c, root, w)

EvaluateDTree(c, root, tol) ==
  LET iv == dtreeInterval(c, root, TreeWidthFor(c, root, tol))
  IN  QMul(Q(1, 2), QAdd(iv.lower, iv.upper))

(* External: a d-DNNF of the circuit from a knowledge compiler.            *)
compilation(c, root) ==
  IF Extractable(c, root) THEN structuredDNNF(c, root) ELSE treeDecompositionDD(c, root)

buildDD(m, c, root) ==
  LET compiled == compilation(c, root)
  IN  CASE m = "interpret-as-dd" -> interpretAsDD(c, root)
        [] m = "tree-decomposition" -> treeDecompositionDD(c, root)
        [] m = "compilation" -> compiled

OfDD(dd) == IF dd = NoDD THEN Refused ELSE probabilityEvaluation(dd)

EvaluateMethod(m, c, root, tol) ==
  LET dnf == dnfShapeInfo(c, root)
  IN  CASE m \in {"independent", "route"} -> independentEvaluation(c, root)
        [] m = "inversion-free" -> OfDD(structuredDNNF(c, root))
        [] m \in producesDD -> OfDD(buildDD(m, c, root))
        [] m \in {"possible-worlds", "monte-carlo", "stopping-rule"} -> possibleWorlds(c, root)
        [] m = "sieve" -> IF dnf THEN sieve(c, dnfShape(c, root)) ELSE Refused
        [] m = "karp-luby" -> IF dnf THEN karpLuby(c, dnfShape(c, root)) ELSE Refused
        [] m = "d-tree" -> EvaluateDTree(c, root, tol)
        [] m = "wmc" -> wmcCount(c, TseytinCNF(c, root))

(* Too large a budget makes these two give up in the portfolio, and a      *)
(* compiler may be missing or fail.                                        *)
MayGiveUp == {"tree-decomposition", "d-tree", "compilation"}

-----------------------------------------------------------------------------
Context(c) == [c |-> c, acquired |-> {}, dnf |-> FALSE, tw |-> 0]

Init ==
  /\ \/ source \in Circuits /\ ctx = Context(source.gates) /\ request = [by |-> "none"]
     \/ source \in Queries /\ ctx = Context(<<>>) /\ request = [by |-> "data"]
  /\ portfolio = {} /\ answer = NotYet

(* A method by name; the circuit is rewritten first unless it copes.       *)
EvaluateByName == \E m \in Methods \ {"compilation"}, tol \in Tolerances :
  LET x == IF m \in handlesMultivalued THEN ctx ELSE Rewritten(ctx)
  IN  /\ request.by = "none"
      /\ m # "d-tree" => tol.kind = "exact"
      /\ m = "d-tree" => tol.kind # "relative"
      /\ m = "route" => rootRoute(source) = "route"
      /\ m = "inversion-free" => Extractable(source.gates, source.root)
      /\ request' = [by |-> "name", method |-> m, tol |-> tol]
      /\ ctx' = x /\ answer' = evaluate_as(m, x.c, source.root, tol)
      /\ UNCHANGED <<source, portfolio>>

(* The portfolio of a tolerance.                                           *)
chooseAndRun == \E tol \in Tolerances :
  /\ request.by = "none"
  /\ request' = [by |-> "tolerance", tol |-> tol]
  /\ portfolio' = {m \in inDefaultChain : /\ toleranceAdmits(tol.kind, guaranteeKind(m))
                                          /\ tol.sampled \/ m \in isDeterministic}
  /\ UNCHANGED <<source, ctx, answer>>

Ready(m) == requiredFeatures(m) \subseteq ctx.acquired /\ applicable(m, request.tol)
Pending == UNION {requiredFeatures(m) : m \in portfolio} \ ctx.acquired

acquireFeature == \E f \in Pending :
  /\ request.by = "tolerance" /\ answer = NotYet
  /\ ctx' = [ctx EXCEPT !.acquired = @ \cup {f},
               !.dnf = IF f = "DnfShape" THEN dnfShapeInfo(ctx.c, source.root) ELSE @,
               !.tw = IF f = "TreewidthProxy" THEN degeneracyLowerBound(Graph(ctx.c)) ELSE @]
  /\ UNCHANGED <<source, request, portfolio, answer>>

RunMethod == \E m \in portfolio :
  LET x == IF m \in handlesMultivalued THEN ctx ELSE Rewritten(ctx)
      p == evaluate_as(m, x.c, source.root, request.tol)
  IN  /\ request.by = "tolerance" /\ answer = NotYet /\ Ready(m)
      /\ ctx' = x
      /\ \/ p # Refused /\ answer' = p /\ UNCHANGED portfolio
         \/ /\ p = Refused \/ m \in MayGiveUp
            /\ portfolio' = portfolio \ {m} /\ UNCHANGED answer
      /\ UNCHANGED <<source, request>>

(* Nothing is left to run or to acquire: the last error is reported.       *)
PortfolioFails ==
  /\ request.by = "tolerance" /\ answer = NotYet
  /\ Pending = {} /\ \A m \in portfolio : ~ Ready(m)
  /\ answer' = Failed /\ UNCHANGED <<source, ctx, request, portfolio>>

(* shapley() and banzhaf() of every input, over the d-DNNF of any method   *)
(* that makes one.                                                         *)
shapley_all_vars == \E isBanzhaf \in BOOLEAN, m \in producesDD :
  LET dd == build_as(m, source.gates, source.root)
  IN  /\ request.by = "none" /\ Mulinputs(source.gates) = {} /\ dd # NoDD
      /\ request' = [by |-> "value", banzhaf |-> isBanzhaf, dd |-> dd]
      /\ answer' = [x \in Inputs(source.gates) |-> shapley_internal(dd, x, isBanzhaf)]
      /\ UNCHANGED <<source, ctx, portfolio>>

(* A d-DNNF of the circuit, by a method that makes one.                    *)
chooseAndBuildDD == \E m \in producesDD :
  LET x == Rewritten(ctx)
  IN  /\ request.by = "none"
      /\ ctx' = x
      /\ request' = [by |-> "dd", method |-> m, dd |-> build_as(m, x.c, source.root)]
      /\ UNCHANGED <<source, portfolio, answer>>

(* The circuits of a reachability query, one root per answer.              *)
compileReachable ==
  /\ request.by = "data"
  /\ request' = [by |-> "reach", made |-> compile_as(source)]
  /\ UNCHANGED <<source, ctx, portfolio, answer>>

Next == chooseAndBuildDD \/ EvaluateByName \/ chooseAndRun \/ acquireFeature \/ RunMethod \/ PortfolioFails
        \/ shapley_all_vars \/ compileReachable

Spec == Init /\ [][Next]_evars

-----------------------------------------------------------------------------
ProbabilityAsked == request.by \in {"name", "tolerance"} /\ answer # NotYet
True == Probability(source.gates, source.root)
Apart(a, b) == IF QLe(a, b) THEN QSub(b, a) ELSE QSub(a, b)

(* Every method that answers, and the portfolio whatever it has tried      *)
(* before, is within the tolerance asked: exactly the sum over the worlds  *)
(* for an exact request, however the circuit was rewritten meanwhile.      *)
WithinTolerance ==
  ProbabilityAsked /\ answer \notin {Refused, Failed} =>
    QLe(Apart(answer, True),
        CASE request.tol.kind = "exact" -> Q0
          [] request.tol.kind = "additive" -> request.tol.eps
          [] OTHER -> QMul(request.tol.eps, True))

(* The inputs met on the way down, once per path; certain ones left out.   *)
RECURSIVE Occurrences(_, _)
Occurrences(c, g) ==
  IF c[g].type = "IN" THEN (IF c[g].prob \in {Q0, Q1} THEN <<>> ELSE <<g>>)
  ELSE IF c[g].type = "MULIN" THEN <<c[g].wires[1]>>
  ELSE FlattenSeq([i \in DOMAIN c[g].wires |-> Occurrences(c, c[g].wires[i])])

IsReadOnce(c, g) ==
  LET o == Occurrences(c, g) IN Cardinality(ToSet(o)) = Len(o)

(* A portfolio never runs out of methods on a circuit with inputs few      *)
(* enough to enumerate, even when compilers and budgets fail it; and the   *)
(* read-once evaluation answers when no uncertain input occurs twice.      *)
SomeMethodAnswers ==
  /\ request.by = "tolerance"
     /\ Cardinality(Inputs(source.gates)) \in 1..kPossibleWorldsSanityMax => answer # Failed
  /\ request.by = "name" /\ request.method = "independent"
     /\ IsReadOnce(source.gates, source.root) => answer # Refused

(* The decomposition covers every wire with connected bags, and still does *)
(* after it is made friendly.                                              *)
FriendlyDecomposition ==
  request.by = "dd" /\ request.method = "tree-decomposition" =>
    LET td == Decompose(Graph(ctx.c))
        friendly == makeFriendly(td, source.root)
    IN  ~ td.bad =>
          /\ IsDecomposition(td, Graph(ctx.c))
          /\ IsDecomposition(friendly, Graph(ctx.c))
          /\ IsFriendly(friendly, source.root)

(* A d-DNNF made for a circuit is deterministic and decomposable and has   *)
(* the function of the circuit, the decomposition it is made along being   *)
(* one of the circuit.  The circuit of a reachability query is one too, in  *)
(* every world of its data, and each of its roots is true when the vertex  *)
(* it stands for is reached.                                               *)
CompiledIsDDNNF ==
  /\ FriendlyDecomposition
  /\ request.by = "dd" /\ request.dd # NoDD =>
       /\ IsDDNNF(request.dd)
       /\ \A s \in SUBSET Inputs(ctx.c) : DDValue(request.dd, s) = evaluate(ctx.c, source.root, s)
  /\ request.by = "reach" /\ request.made # NoCircuit =>
       CompilesReachability(source, request.made)

(* The Shapley value of every input is the one the documentation defines,  *)
(* expected over the inputs present.  The Banzhaf value is NOT the one     *)
(* shapley.rst 15-16 defines, an average over the subsets of the other     *)
(* inputs: the code never divides by their number, so that it is the sum   *)
(* p.(ENV(C1) - ENV(C0)) of probability-evaluation.rst 1289-1295, each     *)
(* game's average times its number of subsets.  A sum depends on who       *)
(* plays: V is the inputs the d-DNNF mentions, those a compilation         *)
(* simplified away left out.                                               *)
ValuesAreExpected ==
  request.by = "value" =>
    LET c == source.gates
        V(x) == ({request.dd.gates[g].uuid : g \in DOMAIN request.dd.gates} \ {0}) \cup {x}
        subsets(Z) == Q(2 ^ (Cardinality(Z) - 1), 1)
    IN  \A x \in Inputs(c) : answer[x] =
          IF request.banzhaf
          THEN Expected(c, x, V(x), LAMBDA Z : QMul(subsets(Z), BanzhafIn(c, source.root, x, Z)))
          ELSE Expected(c, x, Inputs(c), LAMBDA Z : ShapleyIn(c, source.root, x, Z))
=============================================================================
