------------------------ MODULE ProvenanceExpression ------------------------
(***************************************************************************)
(* The annotation the planner hook adds to a query whose relations are     *)
(* tracked (src/provsql.c): the tokens of the joined rows multiplied,      *)
(* summed over a group, the aggregates turned into aggregate tokens, the   *)
(* conditions on them turned into comparison gates, and the columns and    *)
(* equalities recorded for where-provenance.                               *)
(***************************************************************************)
EXTENDS SQLQuery

LOCAL Each(s, F(_)) == LET r == [i \in DOMAIN s |-> F(s[i])] IN SubSeq(r, 1, Len(s))
LOCAL Mem(s) == {s[i] : i \in DOMAIN s}

(* The conditions of a query: does one talk of an aggregate token?         *)
expr_contains_agg(e, rt) == \E n \in Nodes(e) : IsAggToken(n, rt)

IsBoolExpr(e) == e.op \in {"and", "or", "not"}
IsOpExpr(e) == e.op \in Comparisons
IsNullTest(e) == e.op \in {"isnull", "notnull"}

needs_having_lift(q) == expr_contains_agg(q.having, q.rt)

-----------------------------------------------------------------------------
(* The tokens of the joined rows as one expression.  "op" is "PLUS" for a  *)
(* union, "MONUS" for a difference and "TIMES" otherwise.                  *)
combine_prov_atts(atts, op) ==
  CASE Len(atts) = 1 \/ op = "PLUS" -> atts[1]
    [] op = "TIMES" -> Fn("provenance_times", atts)
    [] op = "MONUS" -> Fn("provenance_monus", atts)

(* count counts what is not null; the token carries a one or a zero.       *)
AggregatedValue(agg) ==
  CASE agg.x[1] = "count*" -> Const(1)
    [] agg.x[1] = "count" -> Fn("count indicator", <<agg.args[1]>>)
    [] OTHER -> agg.args[1]

make_aggregation_expression(agg, atts, op, scalar) ==
  IF op = "PLUS" THEN atts[1]
  ELSE Node("provenance_aggregate",
            <<AggregatedValue(agg), combine_prov_atts(atts, op), agg>>, <<agg.x[1], scalar>>)

(* Arithmetic of an aggregate and a constant goes into the aggregate where *)
(* the aggregate commutes with it: min and max with a sum.                 *)
RECURSIVE push_arith_into_agg(_)
push_arith_into_agg(e0) ==
  LET e == [e0 EXCEPT !.args = Each(@, push_arith_into_agg)]
      pushes(a, c) == /\ a.op = "agg" /\ c.op = "const"
                      /\ a.x[1] \in {"min", "max"} /\ ~ a.x[2] /\ Len(a.args) = a.x[3]
      into(a, arg) == [a EXCEPT !.args = <<arg>>]
  IN  CASE e.op = "+" /\ pushes(e.args[1], e.args[2]) ->
             into(e.args[1], Fn("+", <<e.args[1].args[1], e.args[2]>>))
        [] e.op = "+" /\ pushes(e.args[2], e.args[1]) ->
             into(e.args[2], Fn("+", <<e.args[1], e.args[2].args[1]>>))
        [] OTHER -> e

RECURSIVE aggregation_mutator(_, _, _, _)
aggregation_mutator(e, atts, op, scalar) ==
  IF e.op = "agg" THEN make_aggregation_expression(e, atts, op, scalar)
  ELSE [e EXCEPT !.args = Each(@, LAMBDA a : aggregation_mutator(a, atts, op, scalar))]

(* An operand of a gate: an aggregate token is one, any other value stands *)
(* for itself with the token one.                                          *)
AsToken(e, rt) == IF expr_contains_agg(e, rt) THEN e ELSE Fn("provenance_semimod", <<e>>)

(* Arithmetic over aggregate tokens is a gate.                             *)
RECURSIVE try_swap_agg_arith(_, _)
try_swap_agg_arith(e0, rt) ==
  IF e0.op = "provenance_aggregate" THEN e0
  ELSE LET e == [e0 EXCEPT !.args = Each(@, LAMBDA a : try_swap_agg_arith(a, rt))]
       IN  IF e.op = "+" /\ expr_contains_agg(e, rt)
             THEN Fn("provenance_arith", Each(e.args, LAMBDA a : AsToken(a, rt)))
           ELSE e

replace_aggregations_by_provenance_aggregate(q, atts, op) ==
  LET scalar == q.group = <<>>
      mut(e) == aggregation_mutator(push_arith_into_agg(e), atts, op, scalar)
  IN  [q EXCEPT !.tl = Each(@, LAMBDA t : [t EXCEPT !.e = try_swap_agg_arith(mut(@), q.rt)]),
                !.having = mut(@)]

-----------------------------------------------------------------------------
(* HAVING: a condition on aggregates becomes gates of the annotation.      *)

(* The aggregate to the left, constants moved to the other side.           *)
RECURSIVE IsolateAgg(_, _, _)
IsolateAgg(side, thr, rt) ==
  IF side.op # "+" THEN <<side, thr>>
  ELSE LET x == side.args[1]
           y == side.args[2]
       IN  IF expr_contains_agg(x, rt)
             THEN IsolateAgg(x, Fn("-", <<thr, y>>), rt) ELSE IsolateAgg(y, Fn("-", <<thr, x>>), rt)

RECURSIVE BothAgg(_, _)
BothAgg(e, rt) == /\ e.op = "+"
                  /\ \/ \A i \in {1, 2} : expr_contains_agg(e.args[i], rt)
                     \/ \E i \in {1, 2} : BothAgg(e.args[i], rt)

normalize_agg_comparison(cmp, rt) ==
  LET a == cmp.args[1]
      b == cmp.args[2]
      isolated == IF expr_contains_agg(a, rt) THEN IsolateAgg(a, b, rt) ELSE IsolateAgg(b, a, rt)
      refused == \/ expr_contains_agg(a, rt) = expr_contains_agg(b, rt)
                 \/ BothAgg(a, rt) \/ BothAgg(b, rt)
  IN  IF refused THEN cmp
      ELSE Fn(IF expr_contains_agg(a, rt) THEN cmp.op ELSE get_commutator(cmp.op), isolated)

(* A slip: a comparison under NOT keeps its operator.                      *)
KeepsTheOperator(e, rt, negated) ==
  LET norm == normalize_agg_comparison(e, rt)
      tok(a) == AsToken(try_swap_agg_arith(a, rt), rt)
  IN  Node("provenance_cmp", <<tok(norm.args[1]), tok(norm.args[2])>>, <<norm.op>>)

having_OpExpr_to_provenance_cmp(e, rt, negated) ==
  LET norm == normalize_agg_comparison(e, rt)
      tok(a) == AsToken(try_swap_agg_arith(a, rt), rt)
  IN  Node("provenance_cmp", <<tok(norm.args[1]), tok(norm.args[2])>>,
           <<IF negated THEN get_negator(norm.op) ELSE norm.op>>)

(* Sum of the tokens of the rows whose value is, or is not, null.          *)
having_null_filtered_plus(pa, test) == Fn("array_plus", <<pa.args[2], Fn(test, <<pa.args[1]>>)>>)

having_NullTest_to_provenance(e, negated) ==
  LET pa == e.args[1]
      isnull == (e.op = "isnull") # negated
      plusKn == having_null_filtered_plus(pa, "notnull")
      monus == Fn("provenance_monus", <<Fn("gate_one", <<>>), plusKn>>)
      deltaKz == Fn("provenance_delta", <<having_null_filtered_plus(pa, "isnull")>>)
  IN  CASE pa.op # "provenance_aggregate" -> Node("error", <<>>, <<"IS NULL not on an aggregate">>)
        [] ~ isnull -> Fn("provenance_delta", <<plusKn>>)
        [] pa.x[2] -> monus
        [] OTHER -> Fn("provenance_times", <<deltaKz, monus>>)

make_regular_indicator(e, negated) ==
  Fn("regular_indicator", <<IF negated THEN Fn("not", <<e>>) ELSE e>>)

RECURSIVE having_Expr_to_provenance_cmp(_, _, _)
having_Expr_to_provenance_cmp(e, rt, negated) ==
  CASE ~ expr_contains_agg(e, rt) -> make_regular_indicator(e, negated)
    [] e.op = "not" -> having_Expr_to_provenance_cmp(e.args[1], rt, ~ negated)
    [] e.op \in {"and", "or"} ->
         Fn(IF (e.op = "and") # negated THEN "provenance_times" ELSE "provenance_plus",
            Each(e.args, LAMBDA a : having_Expr_to_provenance_cmp(a, rt, negated)))
    [] IsOpExpr(e) -> having_OpExpr_to_provenance_cmp(e, rt, negated)
    [] IsNullTest(e) -> having_NullTest_to_provenance(e, negated)
    [] OTHER -> Node("error", <<>>, <<"Unknown structure within Boolean expression">>)

(* Does the condition entail that the group has a row?                     *)
RECURSIVE having_entails_group_existence(_, _, _)
having_entails_group_existence(e, rt, negated) ==
  LET child(i) == having_entails_group_existence(e.args[i], rt, negated)
  IN  CASE ~ expr_contains_agg(e, rt) -> FALSE
        [] e.op = "not" -> having_entails_group_existence(e.args[1], rt, ~ negated)
        [] e.op \in {"and", "or"} -> IF (e.op = "and") # negated
                                       THEN \E i \in DOMAIN e.args : child(i)
                                       ELSE \A i \in DOMAIN e.args : child(i)
        [] OTHER -> TRUE

-----------------------------------------------------------------------------
(* Where-provenance: the number of a column among those of all entries, 0  *)
(* for none and -1 for "provsql"; columns is indexed by entry and column.  *)
HasProvsql(r) == CASE r.k = "rel" -> Schema[r.name].tracked /\ ~ r.hidden
                   [] r.k = "sub" -> \E i \in DOMAIN r.q.tl : r.q.tl[i].name = "provsql"
                   [] OTHER -> FALSE

ProvsqlAt(r) == IF r.k = "rel" THEN Schema[r.name].cols + 1
                ELSE CHOOSE i \in DOMAIN r.q.tl : /\ r.q.tl[i].name = "provsql"
                                                  /\ \A j \in 1..(i - 1) : r.q.tl[j].name # "provsql"

(* A hidden token counts as a column.                                      *)
UserColumns(r) == CASE r.k = "sub" /\ HasProvsql(r) -> Width(r) - 1
                    [] r.k = "rel" /\ r.hidden -> Width(r) + 1
                    [] OTHER -> Width(r)

ColumnsBefore(rt, n, S) == FoldLeft(LAMBDA a, i : a + (IF i \in S THEN UserColumns(rt[i]) ELSE 0), 0,
                                    [i \in 1..(n - 1) |-> i])

build_column_map(rt, no, att) ==
  IF HasProvsql(rt[no]) /\ att = ProvsqlAt(rt[no]) THEN -1
  ELSE ColumnsBefore(rt, no, DOMAIN rt) + att

nbcols(rt) == ColumnsBefore(rt, Len(rt) + 1, DOMAIN rt)

(* Every condition between two columns is recorded.                        *)
add_eq_from_OpExpr_to_Expr(e, rt, to) ==
  IF ~ IsOpExpr(e) \/ \E i \in {1, 2} : e.args[i].op # "var" THEN to
  ELSE Node("provenance_eq", <<to>>,
            <<build_column_map(rt, e.args[1].x[1], e.args[1].x[2]),
              build_column_map(rt, e.args[2].x[1], e.args[2].x[2])>>)

add_eq_from_Quals_to_Expr(e, rt, to) ==
  IF e.op \in {"or", "not"}
    THEN Node("error", <<>>, <<"Boolean operators OR and NOT not supported">>)
    ELSE FoldLeft(LAMBDA r, c : add_eq_from_OpExpr_to_Expr(c, rt, r), to, Conjuncts(e))

(* A slip: the columns of the entries that are not tracked are counted.    *)
CountsEveryColumn(e, rt) ==
  IF e.op # "var" \/ e.x[3] # 0 \/ ~ HasProvsql(rt[e.x[1]]) THEN 0
  ELSE build_column_map(rt, e.x[1], e.x[2])

(* The position of a target entry among the columns the token's gates      *)
(* list.  Those of an entry without token are not listed.                  *)
ProjectedAt(e, rt) ==
  IF e.op # "var" \/ e.x[3] # 0 THEN 0
  ELSE LET r == rt[e.x[1]]
           tracked == {i \in DOMAIN rt : HasProvsql(rt[i])}
       IN  CASE r.k = "rel" /\ HasProvsql(r) -> e.x[2] + ColumnsBefore(rt, e.x[1], tracked)
             [] r.k = "rel" -> 0
             [] OTHER -> build_column_map(rt, e.x[1], e.x[2])

where_provenance_expression(q, to) ==
  LET joined == FoldLeft(LAMBDA r, j : IF j.j = "ref" THEN r ELSE add_eq_from_Quals_to_Expr(j.on, q.rt, r),
                         to, q.from)
      eqs == add_eq_from_Quals_to_Expr(q.where, q.rt, joined)
      positions == Each(q.tl, LAMBDA t : ProjectedAt(t.e, q.rt))
      projection == positions # [i \in 1..nbcols(q.rt) |-> i]
  IN  IF projection THEN Node("provenance_project", <<eqs>>, positions) ELSE eqs

-----------------------------------------------------------------------------
(* The annotation of the rows of a query, and the query without the        *)
(* condition on aggregates that became part of it.                         *)
make_provenance_expression(q, atts, aggregation, group_by_rewrite, op, where) ==
  LET base == combine_prov_atts(atts, op)
      grouped == group_by_rewrite \/ aggregation
      group_plus == IF grouped THEN Fn("array_plus", <<base>>) ELSE base
      lift == needs_having_lift(q)
      entails == having_entails_group_existence(q.having, q.rt, FALSE)
      cmp == having_Expr_to_provenance_cmp(q.having, q.rt, FALSE)
      delta == Fn("provenance_delta", <<group_plus>>)
      result == CASE op = "PLUS" -> atts[1]
                  [] ~ lift /\ ~ aggregation -> group_plus
                  [] ~ lift /\ q.group = <<>> -> Fn("gate_one", <<>>)
                  [] ~ lift -> delta
                  [] ~ grouped /\ op = "TIMES" ->
                       IF entails THEN Fn("provenance_cmp_times", <<cmp>> \o atts)
                       ELSE Fn("provenance_times", Append(atts, cmp))
                  [] lift /\ ~ entails /\ aggregation -> Fn("provenance_times", <<delta, cmp>>)
                  [] OTHER -> cmp
  IN  [expr |-> IF where THEN where_provenance_expression(q, result) ELSE result,
       having |-> IF lift /\ op # "PLUS" THEN True ELSE q.having]

-----------------------------------------------------------------------------
(* What a gate says of a world, and the value of an aggregate token in it. *)
(* The counts are sums of ones and zeros.  An aggregate over groups has no *)
(* group in a world where none of its rows is there, so a comparison of it *)
(* does not hold; without GROUP BY there is always one row.                *)
RECURSIVE Holds(_, _), ValueAt(_, _), Exists(_, _)
ValueAt(t, w) ==
  CASE t = NULL -> NULL
    [] t.gate = "semimod" -> t.info[1]
    [] t.gate = "arith" -> LET a == ValueAt(t.children[1], w)
                               b == ValueAt(t.children[2], w)
                           IN  IF NULL \in {a, b} THEN NULL ELSE a + b
    [] OTHER ->
         LET there == SelectSeq(t.children, LAMBDA c : Holds(c.children[1], w))
             vals == Each(there, LAMBDA c : c.info[1])
         IN  IF t.info[1] \in {"count", "count*"} THEN FoldLeft(LAMBDA a, b : a + b, 0, vals)
             ELSE AggregateOf(t.info[1], vals)

Exists(t, w) ==
  CASE t.gate = "agg" -> t.info[2] \/ \E c \in Mem(t.children) : Holds(c.children[1], w)
    [] t.gate = "arith" -> \A c \in Mem(t.children) : Exists(c, w)
    [] OTHER -> TRUE

Holds(t, w) ==
  CASE t = NULL -> TRUE
    [] t.gate = "input" -> t.info \in w
    [] t.gate = "zero" -> FALSE
    [] t.gate = "one" -> TRUE
    [] t.gate = "times" -> \A c \in Mem(t.children) : Holds(c, w)
    [] t.gate = "plus" -> \E c \in Mem(t.children) : Holds(c, w)
    [] t.gate = "monus" -> Holds(t.children[1], w) /\ ~ Holds(t.children[2], w)
    [] t.gate \in {"delta", "project", "eq", "assumed"} -> Holds(t.children[1], w)
    [] t.gate = "cmp" -> /\ \A c \in Mem(t.children) : Exists(c, w)
                         /\ Compare(t.info[1], ValueAt(t.children[1], w),
                                    ValueAt(t.children[2], w)) = TRUE

-----------------------------------------------------------------------------
(* Where-provenance: for every column, the cells its value is copied from. *)
(* "cols" gives the number of columns of a table.                          *)
RECURSIVE evaluate(_, _)
evaluate(t, cols) ==
  LET kids == Each(t.children, LAMBDA c : evaluate(c, cols))
      v == kids[1]
  IN
  CASE t.gate = "input" -> [i \in 1..cols[t.info[1]] |-> {<<t.info, i>>}]
    [] t.gate \in {"times", "assumed"} -> FlattenSeq(kids)
    [] t.gate = "plus" -> [i \in DOMAIN v |-> UNION {kids[k][i] : k \in DOMAIN kids}]
    [] t.gate = "project" ->
         Each(t.info, LAMBDA p : IF p = 0 \/ p > Len(v) THEN {} ELSE v[p])
    [] t.gate = "eq" ->
         LET both == v[t.info[1]] \cup v[t.info[2]]
         IN  IF {t.info[1], t.info[2]} \subseteq DOMAIN v
               THEN [v EXCEPT ![t.info[1]] = both, ![t.info[2]] = both] ELSE v
=============================================================================
