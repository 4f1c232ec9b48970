--------------------------- MODULE BooleanCircuit ---------------------------
(***************************************************************************)
(* Boolean provenance circuits in memory and the probability methods that  *)
(* work on them directly: possible worlds, read-once evaluation with       *)
(* certified islands, inclusion-exclusion, bounds of a DNF, Karp-Luby,     *)
(* Tseytin transformation, and the rewriting of multivalued inputs.        *)
(*                                                                         *)
(* A circuit is the sequence of its gates, a gate id its position.  "info" *)
(* is the alternative number of a MULIN and the certificate of an AND or   *)
(* OR; the first wire of a MULIN is its MULVAR.  A thrown CircuitException *)
(* is the value Refused.                                                   *)
(***************************************************************************)
EXTENDS Integers, FiniteSets, Sequences, SequencesExt, FiniteSetsExt, TLC, Rational

(* A finite set as a sequence: in some order, or by a strict total order.  *)
(* (SetToSeq and SetToSortSeq of the library enumerate all functions.)     *)
ListOf(S) == FoldSet(LAMBDA x, acc : Append(acc, x), <<>>, S)

SortedSeq(S, less(_, _)) ==
  [i \in 1..Cardinality(S) |->
     CHOOSE x \in S : Cardinality({y \in S : less(y, x)}) = i - 1]

(* The same sequence, or function, computed.  (TLC updates a comprehension *)
(* lazily, and wrongly when it is updated twice.)                          *)
Listed(s) == SubSeq(s, 1, Len(s))
Computed(f) == f @@ <<>>

(* FoldLeft with every intermediate value computed before the next step.   *)
RECURSIVE Steps(_, _, _)
Steps(op(_, _), base, s) ==
  IF s = <<>> THEN base
  ELSE CHOOSE r \in {Steps(op, next, Tail(s)) : next \in {op(base, Head(s))}} : TRUE

Refused == <<>>

DNNF_CERT_INFO == 1

NewGate(type, wires, p, u) ==
  [type |-> type, wires |-> wires, prob |-> p, info |-> 0, uuid |-> u]

(* Adding a gate: a gate with the uuid of an earlier one is that gate.     *)
setGate(c, type, wires, p, u) ==
  IF u # 0 /\ \E g \in DOMAIN c : c[g].uuid = u
    THEN LET g == CHOOSE g \in DOMAIN c : c[g].uuid = u
         IN  [c |-> [c EXCEPT ![g].type = type, ![g].prob = p], g |-> g]
    ELSE [c |-> Append(c, NewGate(type, wires, p, u)), g |-> Len(c) + 1]

addWire(c, f, t) == [c EXCEPT ![f].wires = Append(@, t)]

Inputs(c) == {g \in DOMAIN c : c[g].type = "IN"}
Mulinputs(c) == {g \in DOMAIN c : c[g].type = "MULIN"}

isDNNFCertified(c, g) ==
  c[g].type \in {"AND", "OR"} /\ c[g].info = DNNF_CERT_INFO

RECURSIVE Reachable(_, _)
Reachable(c, g) == {g} \cup UNION {Reachable(c, c[g].wires[i]) : i \in DOMAIN c[g].wires}

(* The value of gate g when exactly the inputs in "sampled" are true.  The *)
(* code throws at a MULIN (possibleWorlds has the refusal); the reference  *)
(* Probability below gives it the value of its alternative.                *)
RECURSIVE evaluate(_, _, _)
evaluate(c, g, sampled) ==
  LET Child(i) == evaluate(c, c[g].wires[i], sampled)
  IN  CASE c[g].type \in {"IN", "MULIN"} -> g \in sampled
        [] c[g].type = "NOT" -> ~ Child(1)
        [] c[g].type = "AND" -> \A i \in DOMAIN c[g].wires : Child(i)
        [] c[g].type = "OR"  -> \E i \in DOMAIN c[g].wires : Child(i)

(* Sum of f over a set, in the rationals.                                  *)
QSumOver(S, f(_)) == FoldSet(LAMBDA x, acc : QAdd(f(x), acc), Q0, S)
QProdOver(S, f(_)) == FoldSet(LAMBDA x, acc : QMul(f(x), acc), Q1, S)

WorldProb(c, ins, s) ==
  QProdOver(ins, LAMBDA g : IF g \in s THEN c[g].prob ELSE QNot(c[g].prob))

(* Every world of the reachable inputs; multivalued inputs are refused by  *)
(* evaluate, which meets them in the first world.                          *)
possibleWorlds(c, g) ==
  LET ins == Inputs(c) \cap Reachable(c, g)
  IN  IF Mulinputs(c) \cap Reachable(c, g) # {} THEN Refused
      ELSE QSumOver({s \in SUBSET ins : evaluate(c, g, s)},
                    LAMBDA s : WorldProb(c, ins, s))

-----------------------------------------------------------------------------
(* DNF-shaped circuits: an OR of conjunctions of inputs.                   *)

ClauseRoots(c, g) == IF c[g].type = "OR" THEN c[g].wires ELSE <<g>>

dnfShapeInfo(c, g) ==
  \A i \in DOMAIN ClauseRoots(c, g) :
    \A x \in Reachable(c, ClauseRoots(c, g)[i]) : c[x].type \in {"IN", "AND"}

(* The supports of the clauses, in order.                                  *)
dnfShape(c, g) ==
  LET roots == ClauseRoots(c, g)
  IN  [i \in DOMAIN roots |-> Inputs(c) \cap Reachable(c, roots[i])]

ClauseProb(c, sup) == QProdOver(sup, LAMBDA x : c[x].prob)

sieve(c, supports) ==
  LET Term(s) == LET p == ClauseProb(c, UNION {supports[i] : i \in s})
                 IN  IF Cardinality(s) % 2 = 1 THEN p ELSE QSub(Q0, p)
  IN  QSumOver((SUBSET DOMAIN supports) \ {{}}, Term)

(* Karp-Luby, stratified: n[i] samples of clause i, each a world in which  *)
(* the clause is true, accepted when no earlier clause is.  The estimate   *)
(* is modelled by its expected value, which neither the allocation n nor   *)
(* drawing the clauses at random (fewer samples than clauses) changes.     *)
karpLubyCovers(c, supports, i, world) ==
  /\ supports[i] \subseteq world
  /\ \A j \in 1..(i - 1) : ~ supports[j] \subseteq world

karpLuby(c, supports) ==
  LET relevant == UNION {supports[i] : i \in DOMAIN supports}
      S == QSum([i \in DOMAIN supports |-> ClauseProb(c, supports[i])])
      Accepted(i) ==       \* probability that a sample of clause i is accepted
        QSumOver({w \in SUBSET relevant : karpLubyCovers(c, supports, i, w)},
                 LAMBDA w : WorldProb(c, relevant \ supports[i], w))
  IN  IF supports = <<>> \/ S = Q0 THEN Q0
      ELSE QSum([i \in DOMAIN supports |->
                   QMul(ClauseProb(c, supports[i]), Accepted(i))])

(* Lower and upper bound of a DNF from greedy buckets of disjoint clauses. *)
dnfBounds(c, supports) ==
  LET P(i) == ClauseProb(c, supports[i])
      order == SortedSeq(DOMAIN supports,
                 LAMBDA a, b : QLt(P(b), P(a)) \/ (P(a) = P(b) /\ a < b))
      Place(bs, i) ==
        LET fit == {b \in DOMAIN bs : bs[b].sup \cap supports[i] = {}}
            t == IF fit = {} THEN Len(bs) + 1 ELSE Min(fit)
            old == IF fit = {} THEN [sup |-> {}, p |-> Q0] ELSE bs[t]
            new == [sup |-> old.sup \cup supports[i],
                    p |-> QNot(QMul(QNot(old.p), QNot(P(i))))]
        IN  IF fit = {} THEN Append(bs, new) ELSE [bs EXCEPT ![t] = new]
      buckets == Steps(Place, <<>>, order)
      ps == [b \in DOMAIN buckets |-> buckets[b].p]
  IN  [lower |-> Steps(QMax, Q0, ps), upper |-> QMin(Q1, QSum(ps))]

-----------------------------------------------------------------------------
(* The Tseytin transformation: a set of clauses over the gates, a literal  *)
(* g or -g, and the root as a unit clause.                                 *)
Clauses(c, g) ==
  LET W == {c[g].wires[i] : i \in DOMAIN c[g].wires}
  IN  CASE c[g].type = "AND" -> {{-g, s} : s \in W} \cup {{g} \cup {-s : s \in W}}
        [] c[g].type = "OR"  -> {{g, -s} : s \in W} \cup {{-g} \cup W}
        [] c[g].type = "NOT" -> {{-g, -c[g].wires[1]}, {g, c[g].wires[1]}}
        [] OTHER -> {}

TseytinCNF(c, root) ==
  IF Mulinputs(c) # {} THEN Refused
  ELSE UNION {Clauses(c, g) : g \in DOMAIN c} \cup {{root}}

(* External: what a weighted model counter returns for the CNF, with the   *)
(* weights of the inputs and 1 for both signs of every other variable.     *)
wmcCount(c, cnf) ==
  LET Models == {m \in SUBSET DOMAIN c :
                   \A cl \in cnf : \E l \in cl : IF l > 0 THEN l \in m ELSE -l \notin m}
  IN  QSumOver(Models, LAMBDA m : WorldProb(c, Inputs(c), m))

-----------------------------------------------------------------------------
(* Read-once evaluation.  "seen" holds the inputs and multivalued          *)
(* variables already used; a second use is refused, except of a leaf of    *)
(* probability 0 or 1.  (A gate that used none is memoised by the code,    *)
(* which recomputing it does not change.)                                  *)

Use_Again(x, seen, p) == [p |-> p, seen |-> seen \cup {x}]

Use(x, seen, p) == IF x \in seen THEN [p |-> Refused, seen |-> seen]
                                 ELSE [p |-> p, seen |-> seen \cup {x}]

Certain_Never(p) == FALSE

Certain(p) == p = Q0 \/ p = Q1

RECURSIVE independentEvaluationInternal(_, _, _)
RECURSIVE evaluateCertifiedIsland(_, _, _)

(* The children of an OR that are MULINs, grouped by their variable.       *)
MulGroups(c, g) ==
  LET muls == {c[g].wires[i] : i \in DOMAIN c[g].wires} \cap Mulinputs(c)
      key(m) == c[m].wires[1]
  IN  [k \in {key(m) : m \in muls} |->
         LET mine == {m \in muls : key(m) = k}
         IN  QSumOver({c[m].info : m \in mine},
                LAMBDA a : c[Min({m \in mine : c[m].info = a})].prob)]

(* Children in order, threading "seen"; the first refusal is kept.         *)
EachChild(c, ws, seen) ==
  Steps(LAMBDA acc, w :
             LET r == independentEvaluationInternal(c, w, acc.seen)
             IN  IF acc.bad \/ r.p = Refused THEN [acc EXCEPT !.bad = TRUE]
                 ELSE [ps |-> Append(acc.ps, r.p), seen |-> r.seen, bad |-> FALSE],
           [ps |-> <<>>, seen |-> seen, bad |-> FALSE], ws)

independentEvaluationInternal(c, g, seen) ==
  LET none == [p |-> Refused, seen |-> seen]
      plain == SelectSeq(c[g].wires, LAMBDA w : c[w].type # "MULIN")
      groups == MulGroups(c, g)
      all == EachChild(c, c[g].wires, seen)
      rest == EachChild(c, plain, seen \cup DOMAIN groups)
  IN  CASE isDNNFCertified(c, g) -> evaluateCertifiedIsland(c, g, seen)
        [] c[g].type = "IN" -> IF Certain(c[g].prob)
                                 THEN [p |-> c[g].prob, seen |-> seen]
                                 ELSE Use(g, seen, c[g].prob)
        [] c[g].type = "MULIN" -> Use(c[g].wires[1], seen, c[g].prob)
        [] c[g].type = "NOT" -> IF all.bad THEN none
                                ELSE [p |-> QNot(all.ps[1]), seen |-> all.seen]
        [] c[g].type = "AND" /\ ~ isDNNFCertified(c, g) ->
             IF all.bad THEN none ELSE [p |-> QProd(all.ps), seen |-> all.seen]
        [] c[g].type = "OR" /\ ~ isDNNFCertified(c, g) ->
             IF DOMAIN groups \cap seen # {} \/ rest.bad THEN none
             ELSE [p |-> QNot(QMul(QProd([i \in DOMAIN rest.ps |-> QNot(rest.ps[i])]),
                              QProdOver(DOMAIN groups, LAMBDA k : QNot(groups[k])))),
                   seen |-> rest.seen]

(* An island of certified gates: product at AND, sum at OR, every gate     *)
(* once; "keys" are the multivalued variables this island has claimed.     *)
RECURSIVE IslandVisit(_, _, _)
IslandVisit(c, g, s) ==
  LET val(x, v) == Computed([y \in DOMAIN s.val \cup {x} |-> IF y = x THEN v ELSE s.val[y]])
      fail == [s EXCEPT !.bad = TRUE]
      sub == independentEvaluationInternal(c, g, s.seen)
      after == Steps(LAMBDA acc, w : IslandVisit(c, w, acc), s, c[g].wires)
      vs == [i \in DOMAIN c[g].wires |-> after.val[c[g].wires[i]]]
      v == CASE c[g].type = "NOT" -> QNot(vs[1])
             [] c[g].type = "AND" -> QProd(vs)
             [] OTHER -> QSum(vs)
  IN  CASE s.bad \/ g \in DOMAIN s.val -> s
        [] ~ (s.bad \/ g \in DOMAIN s.val) /\ c[g].type = "IN" ->
             IF ~ Certain(c[g].prob) /\ g \in s.seen THEN fail
             ELSE [s EXCEPT !.val = val(g, c[g].prob),
                            !.seen = IF Certain(c[g].prob) THEN @ ELSE @ \cup {g}]
        [] ~ (s.bad \/ g \in DOMAIN s.val) /\ c[g].type = "MULIN" ->
             LET k == c[g].wires[1]
             IN  IF k \notin s.keys /\ k \in s.seen THEN fail
                 ELSE [s EXCEPT !.val = val(g, c[g].prob), !.seen = @ \cup {k},
                                !.keys = @ \cup {k}]
        [] ~ (s.bad \/ g \in DOMAIN s.val) /\ c[g].type \in {"AND", "OR"}
           /\ ~ isDNNFCertified(c, g) ->
             IF sub.p = Refused THEN fail
             ELSE [s EXCEPT !.val = val(g, sub.p), !.seen = sub.seen]
        [] OTHER ->
             IF after.bad THEN after
             ELSE [after EXCEPT !.val = Computed([y \in DOMAIN after.val \cup {g} |->
                                           IF y = g THEN v ELSE after.val[y]])]

evaluateCertifiedIsland(c, root, seen) ==
  LET s == IslandVisit(c, root, [val |-> <<>>, seen |-> seen, keys |-> {}, bad |-> FALSE])
  IN  IF s.bad THEN [p |-> Refused, seen |-> seen]
               ELSE [p |-> s.val[root], seen |-> s.seen]

independentEvaluation(c, g) == independentEvaluationInternal(c, g, {}).p

-----------------------------------------------------------------------------
(* Multivalued inputs become conjunctions of fresh Boolean inputs: a       *)
(* binary tree over the alternatives, each split with the probability of   *)
(* its left half given the whole (a quotient 0/0 is NaN, which setGate     *)
(* turns into 1), under one more input when the total is below 1.          *)

RECURSIVE rewriteMultivaluedGatesRec(_, _, _, _, _, _)
rewriteMultivaluedGatesRec(c, muls, cum, start, end, prefix) ==
  LET mid == (start + end) \div 2
      prev == IF start = 1 THEN Q0 ELSE cum[start - 1]
      den == QSub(cum[end], prev)
      p == IF den = Q0 THEN Q1 ELSE QDiv(QSub(cum[mid], prev), den)
      g == Len(c) + 1
      grown == c \o <<NewGate("IN", <<>>, p, 0), NewGate("NOT", <<g>>, Q1, 0)>>
  IN  IF start = end THEN [c EXCEPT ![muls[start]].wires = prefix]
      ELSE rewriteMultivaluedGatesRec(
             rewriteMultivaluedGatesRec(grown, muls, cum, start, mid, Append(prefix, g)),
             muls, cum, mid + 1, end, Append(prefix, g + 1))

RewriteVar(c, muls) ==
  LET cum == Listed([i \in DOMAIN muls |-> QSum([j \in 1..i |-> c[muls[j]].prob])])
      ands == Listed([g \in DOMAIN c |-> IF \E i \in DOMAIN muls : muls[i] = g
                                         THEN [c[g] EXCEPT !.type = "AND", !.wires = <<>>]
                                         ELSE c[g]])
      total == cum[Len(cum)]
  IN  IF total = Q1 THEN rewriteMultivaluedGatesRec(ands, muls, cum, 1, Len(muls), <<>>)
      ELSE rewriteMultivaluedGatesRec(Append(ands, NewGate("IN", <<>>, total, 0)),
                                      muls, cum, 1, Len(muls), <<Len(c) + 1>>)

rewriteMultivaluedGates(c) ==
  LET keys == {c[m].wires[1] : m \in Mulinputs(c)}
      muls(k) == SortedSeq({m \in Mulinputs(c) : c[m].wires[1] = k}, <)
  IN  Steps(LAMBDA acc, k : RewriteVar(acc, muls(k)), c, SortedSeq(keys, <))

-----------------------------------------------------------------------------
(* Reference: the probability that g is true, over the worlds that give    *)
(* every input a value and every multivalued variable one alternative or   *)
(* none.  An alternative named by several gates is one alternative.        *)
Alternatives(c, k) == {c[m].info : m \in {m \in Mulinputs(c) : c[m].wires[1] = k}}

MulVars(c) == {c[m].wires[1] : m \in Mulinputs(c)}

AltProb(c, k, a) ==
  c[CHOOSE m \in Mulinputs(c) : c[m].wires[1] = k /\ c[m].info = a].prob

Probability(c, g) ==
  LET ins == Inputs(c)
      keys == MulVars(c)
      choices == {f \in [keys -> UNION {Alternatives(c, k) : k \in keys} \cup {0}] :
                    \A k \in keys : f[k] = 0 \/ f[k] \in Alternatives(c, k)}
      PChoice(f) == QProdOver(keys, LAMBDA k :
          IF f[k] # 0 THEN AltProb(c, k, f[k])
          ELSE QNot(QSumOver(Alternatives(c, k), LAMBDA a : AltProb(c, k, a))))
      True(s, f) == s \cup {m \in Mulinputs(c) : f[c[m].wires[1]] = c[m].info}
  IN  QSumOver(SUBSET ins, LAMBDA s :
        QMul(WorldProb(c, ins, s),
             QSumOver({f \in choices : evaluate(c, g, True(s, f))}, PChoice)))
=============================================================================
