---------------------------- MODULE GenericCircuit ---------------------------
(***************************************************************************)
(* A provenance circuit loaded in memory: the folds applied to it at load  *)
(* time, the replacement of comparison gates, and its evaluation in a      *)
(* semiring.                                                               *)
(*                                                                         *)
(* A circuit is its sequence of gates, the gate its root now stands for    *)
(* and the two sets of marked gates.  "op" is a comparison operator, an    *)
(* aggregate, an arithmetic operator or the marker of an assumed gate;     *)
(* "extra" the values of a value gate: decimals <<mantissa, scale>>, texts *)
(* <<code, -1>>.                                                           *)
(***************************************************************************)
EXTENDS Integers, Sequences, FiniteSets, SequencesExt, Semirings, TLC

Gate(type, wires) ==
  [type |-> type, wires |-> wires, op |-> "", aggtype |-> "", scalar |-> FALSE,
   extra |-> <<>>, prob |-> Q1]

Circuit(gates, root) == [gates |-> gates, root |-> root, boolean |-> {}, absorptive |-> {}]

Ids(gates) == [i \in DOMAIN gates |-> i]

-----------------------------------------------------------------------------
(* Identities of every semiring: ones under times and zeros under plus     *)
(* vanish, a times with a zero and a gate with one wire collapse onto it.  *)
DropIdentities(gates, i) ==
  LET identity == IF gates[i].type = "times" THEN "one" ELSE "zero"
      kept == SelectSeq(gates[i].wires, LAMBDA c : gates[c].type # identity)
  IN  IF gates[i].type \notin {"times", "plus"} THEN gates
      ELSE IF kept = <<>> THEN [gates EXCEPT ![i] = Gate(identity, <<>>)]
      ELSE [gates EXCEPT ![i].wires = kept]

(* The gates that collapse, and onto which of their wires.                 *)
Collapses(gates, gone) ==
  LET zeros(g) == SelectSeq(gates[g].wires, LAMBDA c : gates[c].type = "zero")
      absorbed(g) == gates[g].type = "times" /\ zeros(g) # <<>>
      collapsing == {g \in DOMAIN gates \ gone :
                       /\ gates[g].type \in {"times", "plus"}
                       /\ absorbed(g) \/ Len(gates[g].wires) = 1}
  IN  [g \in collapsing |-> IF absorbed(g) THEN zeros(g)[1] ELSE gates[g].wires[1]]

RECURSIVE Chase(_, _)
Chase(map, g) == IF g \in DOMAIN map THEN Chase(map, map[g]) ELSE g

RECURSIVE FoldRounds(_, _)
FoldRounds(gates, redirect) ==
  LET kept == FoldLeft(DropIdentities, gates, Ids(gates))
      subst == Collapses(kept, DOMAIN redirect)
      map == subst @@ redirect
      rewired == [i \in DOMAIN kept |->
                    [kept[i] EXCEPT !.wires =
                       [k \in DOMAIN kept[i].wires |->
                          IF kept[i].wires[k] \in DOMAIN subst
                          THEN Chase(map, kept[i].wires[k]) ELSE kept[i].wires[k]]]]
  IN  IF rewired = gates THEN [gates |-> gates, redirect |-> map]
      ELSE FoldRounds(SubSeq(rewired, 1, Len(rewired)), map)

(* The mark of a collapsed gate stays on the gate alone.                   *)
foldSemiringIdentities_Unmarked(gc) ==
  LET folded == FoldRounds(gc.gates, << >>)
  IN  [gc EXCEPT !.gates = folded.gates, !.root = Chase(folded.redirect, gc.root)]

foldSemiringIdentities(gc) ==
  LET folded == FoldRounds(gc.gates, << >>)
      redirect == folded.redirect
      moved(marks) == marks \cup {Chase(redirect, g) : g \in marks \cap DOMAIN redirect}
  IN  [gates |-> folded.gates, root |-> Chase(redirect, gc.root),
       boolean |-> moved(gc.boolean), absorptive |-> moved(gc.absorptive)]

-----------------------------------------------------------------------------
(* The rules sound in absorptive semirings only, and, with boolean_level,  *)
(* those sound for Boolean functions only; a rewritten gate is marked.     *)
Deduplicated(wires) ==
  FoldLeft(LAMBDA acc, c : IF \E k \in DOMAIN acc : acc[k] = c THEN acc ELSE Append(acc, c),
           <<>>, wires)

Unabsorbed(gates, g) ==
  LET wires == gates[g].wires
      opposite == IF gates[g].type = "plus" THEN "times" ELSE "plus"
      siblings == {wires[k] : k \in DOMAIN wires}
      absorbed(c) == /\ gates[c].type = opposite
                     /\ \E k \in DOMAIN gates[c].wires :
                          gates[c].wires[k] \in siblings \ {c}
  IN  SelectSeq(wires, LAMBDA c : ~ absorbed(c))

SweepGate(gc, g, boolean_level) ==
  LET gate == gc.gates[g]
      isplus == gate.type = "plus"
      applies == isplus \/ (gate.type = "times" /\ boolean_level)
      deduped == Deduplicated(gate.wires)
      hasone == isplus /\ \E k \in DOMAIN deduped : gc.gates[deduped[k]].type = "one"
      gates1 == [gc.gates EXCEPT ![g] = IF hasone THEN Gate("one", <<>>)
                                        ELSE [gate EXCEPT !.wires = deduped]]
      kept == IF Len(gates1[g].wires) >= 2 THEN Unabsorbed(gates1, g) ELSE gates1[g].wires
      gates2 == [gates1 EXCEPT ![g].wires = kept]
  IN  IF ~ applies \/ gates2[g] = gate THEN gc
      ELSE IF isplus THEN [gc EXCEPT !.gates = gates2, !.absorptive = @ \cup {g}]
      ELSE [gc EXCEPT !.gates = gates2, !.boolean = @ \cup {g}]

applyFoldRuleSweep(gc, boolean_level) ==
  FoldLeft(LAMBDA acc, g : SweepGate(acc, g, boolean_level), gc, Ids(gc.gates))

RECURSIVE FoldClass(_, _)
FoldClass(gc, boolean_level) ==
  LET next == foldSemiringIdentities(applyFoldRuleSweep(gc, boolean_level))
  IN  IF next.gates = gc.gates THEN next ELSE FoldClass(next, boolean_level)

foldBooleanIdentities(gc) == FoldClass(gc, TRUE)
foldAbsorptiveIdentities(gc) == FoldClass(gc, FALSE)

-----------------------------------------------------------------------------
(* Replacements of a comparison gate.                                      *)
resolveCmpToBernoulli(gc, g, p) ==
  [gc EXCEPT !.gates[g] =
     IF p = Q0 THEN Gate("zero", <<>>)
     ELSE IF p = Q1 THEN Gate("one", <<>>)
     ELSE [Gate("input", <<>>) EXCEPT !.prob = p]]

resolveCmpToPlusOfKGates(gc, g, ks) == [gc EXCEPT !.gates[g] = Gate("plus", ks)]

cmps(gc) == SelectSeq(Ids(gc.gates), LAMBDA g : gc.gates[g].type = "cmp")

(* The number of wires that lead to each gate.                             *)
computeRefCounts(gc) ==
  [g \in DOMAIN gc.gates |->
     FoldLeft(LAMBDA acc, u : acc + Len(SelectSeq(gc.gates[u].wires, LAMBDA c : c = g)),
              0, Ids(gc.gates))]

-----------------------------------------------------------------------------
(* Evaluation.  The answer of a step that may throw, or not apply.         *)
Some(v) == [ok |-> TRUE, thrown |-> FALSE, val |-> v]
Thrown  == [ok |-> FALSE, thrown |-> TRUE]
Skip    == [ok |-> FALSE, thrown |-> FALSE]

Leaves == {"input", "mulinput", "zero", "one", "value"}

(* The gates evaluation looks at: the root, and every wire that has no     *)
(* value yet.  A wire with a mapped value is never pushed on the stack.    *)
Reached(gc, mapping, from) ==
  LET below(u) == IF u \in DOMAIN mapping \/ gc.gates[u].type \in Leaves THEN {}
                  ELSE ToSet(gc.gates[u].wires) \ DOMAIN mapping
      grow[n \in Nat] ==
        IF n = 0 THEN from
        ELSE LET S == grow[n - 1] IN S \cup UNION {below(u) : u \in S}
  IN  grow[Len(gc.gates)]

(* What the gate's marks, its assumption and its type ask of the semiring. *)
Admits(gc, sr, u) ==
  /\ u \in gc.boolean => compatibleWithBooleanRewrite(sr)
  /\ u \in gc.absorptive => absorptive(sr) \/ compatibleWithBooleanRewrite(sr)
  /\ gc.gates[u].type = "assumed" =>
       IF gc.gates[u].op = "boolean" THEN compatibleWithBooleanRewrite(sr) ELSE absorptive(sr)

(* Comparisons, aggregates, their values and arithmetic mean nothing in a  *)
(* semiring: their methods throw.                                          *)
Carriers == {"cmp", "semimod", "agg", "value", "arith"}

evaluate(gc, g, mapping, sr) ==
  LET zero == Zero(sr)
      one == One(sr)
      value[u \in DOMAIN gc.gates] ==
        LET gate == gc.gates[u]
            v == SubSeq([k \in DOMAIN gate.wires |-> value[gate.wires[k]]], 1, Len(gate.wires))
        IN  IF u \in DOMAIN mapping THEN mapping[u]
            ELSE CASE gate.type \in {"one", "input", "mulinput"} -> one
                   [] gate.type = "zero"  -> zero
                   [] gate.type = "plus"  -> Plus(sr, SelectSeq(v, LAMBDA x : x # zero))
                   [] gate.type = "times" ->
                        (IF \E k \in DOMAIN v : v[k] = zero THEN zero
                         ELSE Times(sr, SelectSeq(v, LAMBDA x : x # one)))
                   [] gate.type = "monus" ->
                        (IF v[1] = zero \/ v[1] = v[2] THEN zero ELSE Monus(sr, v[1], v[2]))
                   [] gate.type = "delta" -> Delta(sr, v[1])
                   [] gate.type = "assumed" -> v[1]
      visited == Reached(gc, mapping, {g})
  IN  IF \A u \in visited : /\ Admits(gc, sr, u)
                            /\ u \in DOMAIN mapping \/ gc.gates[u].type \notin Carriers
      THEN Some(value[g]) ELSE Thrown
=============================================================================
