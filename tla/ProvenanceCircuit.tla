------------------------- MODULE ProvenanceCircuit -------------------------
(***************************************************************************)
(* Provenance circuits as the SQL functions of the extension build them:   *)
(* a gate is a term, so two gates built alike are the same gate, as in the *)
(* store, where the identifier of a gate is a hash of its content.  What a *)
(* gate means is defined where it is used: ProvenanceExpression for the    *)
(* gates of queries, TrackedTables for the tokens of tables.               *)
(***************************************************************************)
EXTENDS Integers, Sequences, FiniteSets, FiniteSetsExt, SequencesExt, TLC

CONSTANTS
  NULL,      \* the SQL null
  TooMany    \* the value of a scalar subquery of several rows: an error at run time

LOCAL Mem(s) == {s[i] : i \in DOMAIN s}

-----------------------------------------------------------------------------
(* Gates: the kind, what it carries, its children.                         *)
Gate(kind, info, children) == [gate |-> kind, info |-> info, children |-> children]

Input(table, row) == Gate("input", <<table, row>>, <<>>)
gate_zero == Gate("zero", <<>>, <<>>)
gate_one == Gate("one", <<>>, <<>>)

provenance_times(tokens) ==
  LET filtered == SelectSeq(tokens, LAMBDA t : t # NULL /\ t # gate_one)
  IN  CASE Len(filtered) = 0 -> gate_one
        [] Len(filtered) = 1 -> filtered[1]
        [] OTHER -> Gate("times", <<>>, filtered)

provenance_plus(tokens) ==
  LET filtered == SelectSeq(tokens, LAMBDA t : t # NULL /\ t # gate_zero)
  IN  IF Len(filtered) = 1 THEN filtered[1] ELSE Gate("plus", <<>>, filtered)

provenance_monus(a, b) ==
  CASE b = NULL \/ b = gate_zero -> a
    [] a = b \/ a = gate_zero -> gate_zero
    [] OTHER -> Gate("monus", <<>>, <<a, b>>)

provenance_delta(t) ==
  CASE t = NULL -> gate_one [] t \in {gate_zero, gate_one} -> t [] OTHER -> Gate("delta", <<>>, <<t>>)

provenance_project(t, positions) == Gate("project", positions, <<t>>)
provenance_eq(t, p1, p2) == Gate("eq", <<p1, p2>>, <<t>>)

(* A value in the presence of a token; nothing for a null.                 *)
provenance_semimod(v, t) == IF v = NULL THEN NULL ELSE Gate("semimod", <<v>>, <<t>>)

(* An aggregate token is null when its value is.                           *)
provenance_aggregate(f, val, tokens, scalar) ==
  LET known == SelectSeq(tokens, LAMBDA t : t # NULL)
  IN  CASE val = NULL -> NULL
        [] OTHER -> Gate("agg", <<f, scalar>>, known)

provenance_cmp(l, op, r) ==
  IF l = NULL \/ r = NULL THEN gate_zero ELSE Gate("cmp", <<op>>, <<l, r>>)

-----------------------------------------------------------------------------
(* Comparisons and aggregates over plain values, with nulls.               *)
Comparisons == {"=", "<>", "<", "<=", ">", ">="}

Compare(f, a, b) ==
  IF {a, b} \cap {NULL, TooMany} # {} THEN NULL
  ELSE CASE f = "=" -> a = b [] f = "<>" -> a # b [] f = "<" -> a < b
         [] f = "<=" -> a <= b [] f = ">" -> a > b [] f = ">=" -> a >= b

(* An aggregate of the values of a bag (a sequence).  "choose" takes the   *)
(* first non-null value.                                                   *)
AggregateOf(f, vals) ==
  LET known == SelectSeq(vals, LAMBDA v : v # NULL)
      S == Mem(known)
      total == FoldLeft(LAMBDA a, b : a + b, 0, known)
  IN  CASE f = "count*" -> Len(vals)
        [] f = "count" -> Len(known)
        [] f = "array_agg" /\ vals # <<>> -> vals
        [] known = <<>> -> NULL
        [] f = "sum" -> total
        [] f = "min" -> Min(S)
        [] f = "max" -> Max(S)
        [] f = "choose" -> known[1]
        [] f \in {"bool_and", "every"} -> \A v \in S : v
        [] f = "bool_or" -> \E v \in S : v

-----------------------------------------------------------------------------
(* The tokens rows carry in their column "provsql": gates of a circuit,    *)
(* as terms.  An input gate is the leaf of a row, a mulinput gate one of   *)
(* the alternatives of a block of repair_key, an update gate a recorded    *)
(* data modification.  A number stands for a random identifier.            *)
InputGate(n) == Gate("input", <<n>>, <<>>)
UpdateGate(n) == Gate("update", <<n>>, <<>>)
MulInputGate(n, key) == Gate("mulinput", <<n>>, <<key>>)
=============================================================================
