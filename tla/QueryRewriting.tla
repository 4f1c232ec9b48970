--------------------------- MODULE QueryRewriting ---------------------------
(***************************************************************************)
(* The planner hook (src/provsql.c): a query over tracked relations is     *)
(* rewritten, pass by pass, into a query that also returns, in a last      *)
(* column, the token of every row: the gate of the provenance circuit that *)
(* says in which worlds the row is an answer.  Queries below the query are *)
(* rewritten by the same passes, when their tokens are collected.          *)
(***************************************************************************)
EXTENDS SublinkRewriting, SafeQuery

(* The passes and PostgreSQL's executor are parameters: a configuration    *)
(* gives them the definitions Pass, below, and EvalQuery of SQLQuery.      *)
CONSTANTS
  Queries,            \* the queries asked: records [q, where, boolean]: the query, and
                      \* whether where-provenance and Boolean provenance are asked for
  Rewrite(_, _, _),   \* what a pass makes of a query being rewritten: Pass
  Execute(_, _, _)    \* the rows of a query over the tables of a database: EvalQuery

LOCAL Each(s, F(_)) == LET r == [i \in DOMAIN s |-> F(s[i])] IN SubSeq(r, 1, Len(s))
LOCAL Mem(s) == {s[i] : i \in DOMAIN s}

(* A query being rewritten: its tokens, how they combine, whether rows are *)
(* grouped by the query, the columns taken out, whether it is a safe query *)
(* rewritten, where to go on.                                              *)
Begun(q) == [q |-> q, atts |-> <<>>, op |-> "TIMES", gbr |-> FALSE, removed |-> {}, wrap |-> FALSE,
             go |-> "next"]

Becomes(s, q) == [s EXCEPT !.q = q]
Restarts(s, q) == [s EXCEPT !.q = q, !.go = "restart"]
Again(s) == [Begun(s.q) EXCEPT !.wrap = s.wrap]
Refuses(s, why) == [s EXCEPT !.q = Fails(s.q, why)]

-----------------------------------------------------------------------------
(* Set operations over the arms' tokens.                                   *)
RECURSIVE MixedUnion(_), AllUnion(_)
MixedUnion(set) == set.op # "leaf" /\ (set.op # "UNION" \/ MixedUnion(set.l) \/ MixedUnion(set.r))
AllUnion(set) == IF set.op = "leaf" THEN set
                 ELSE [set EXCEPT !.all = TRUE, !.l = AllUnion(@), !.r = AllUnion(@)]

process_set_operation_union(q) ==
  IF MixedUnion(q.set) THEN Fails(q, "Unsupported mixed set operations")
  ELSE [q EXCEPT !.set = AllUnion(@)]

transform_except_into_join(q) ==
  LET l == q.set.l.n
      r == q.set.r.n
      same == Each([i \in DOMAIN q.tl |-> i], LAMBDA i : Fn("not distinct", <<Var(l, i, 0), Var(r, i, 0)>>))
      join == Join("LEFT", Ref(l), Ref(r), AndOf(same), Len(q.rt) + 1)
  IN  IF q.set.l.op # "leaf" \/ q.set.r.op # "leaf" THEN Fails(q, "Unsupported chain of EXCEPT operations")
      ELSE [q EXCEPT !.rt = Append(@, [JoinRTE EXCEPT !.provsql = TRUE]), !.from = <<join>>, !.set = NoSet]

set_operations(s) ==
  CASE ~ IsSetOp(s.q) -> s
    [] s.q.set.op = "UNION" -> [s EXCEPT !.q = process_set_operation_union(@), !.op = "PLUS"]
    [] s.q.set.op = "EXCEPT" -> [s EXCEPT !.q = transform_except_into_join(@), !.op = "MONUS"]
    [] OTHER -> Refuses(s, "Set operations other than UNION and EXCEPT")

-----------------------------------------------------------------------------
(* Conditions of WHERE on aggregates of subqueries go to HAVING.           *)
RECURSIVE check_expr_on_aggregate(_, _)
check_expr_on_aggregate(e, rt) ==
  CASE IsBoolExpr(e) -> \A i \in DOMAIN e.args : \/ ~ expr_contains_agg(e.args[i], rt)
                                                  \/ check_expr_on_aggregate(e.args[i], rt)
    [] IsOpExpr(e) -> TRUE
    [] OTHER -> FALSE

migrate_probabilistic_quals(q) ==
  LET cs == Conjuncts(q.where)
      pure == SelectSeq(cs, LAMBDA c : expr_contains_agg(c, q.rt))
      rest == SelectSeq(cs, LAMBDA c : ~ expr_contains_agg(c, q.rt))
  IN  IF \E c \in Mem(pure) : ~ check_expr_on_aggregate(c, q.rt)
        THEN Fails(q, "Unsupported aggregate comparison shape in the selection predicate")
      ELSE [q EXCEPT !.where = AndOf(rest), !.having = FoldLeft(add_to_havingQual, @, pure)]

(* A tracked sublink that no pass turned into a join is refused, unless it *)
(* is a scalar one inside an expression, whose data counts as certain.     *)
classify_remaining_sublinks(q) ==
  LET direct == {t.e : t \in {t \in Mem(q.tl) : t.e.op = "sublink"}}
                \cup collect_direct_qual_sublinks(q.where) \cup collect_direct_qual_sublinks(q.having)
  IN  \E s \in SubLinks(q) : has_provenance(s.q) /\ (s \in direct \/ s.x[1] # "EXPR")

-----------------------------------------------------------------------------
(* The tokens of the entries, in order.                                    *)
reduce_varattno_by_offset(tl, no, removed) ==
  LET e(t) == {n.x : n \in {m \in Nodes(t.e) : m.op = "var" /\ m.x[1] = no}}
      m(t) == [x \in e(t) |-> Var(no, x[2] - Cardinality(removed \cap 1..x[2]), x[3])]
  IN  Each(tl, LAMBDA t : [t EXCEPT !.e = Remap(@, m(t))])

GroupsByAggregate(q, no) ==
  \E g \in Mem(q.group) : LET e == q.tl[g].e
                          IN  e.op = "var" /\ e.x[1] = no /\ IsAggToken(e, q.rt)

RECURSIVE process_query(_, _)

make_provenance_attribute(r, no) == Var(no, ProvsqlAt(r), 0)

WithToken(q) == [q EXCEPT !.tl = Append(@, Named(Fn("gate_one", <<>>), "provsql"))]

get_provenance_attributes(q, o) ==
  LET union == q.set.op = "UNION"
      entry(s, no) ==
        LET r == s.q.rt[no]
            done == process_query(r.q, o)
            new == IF union /\ ~ HasProvsql(Sub(done.q)) THEN WithToken(done.q) ELSE done.q
            q1 == [s.q EXCEPT !.rt[no].q = new,
                              !.tl = reduce_varattno_by_offset(@, no, done.removed),
                              !.err = IF @ = "" THEN new.err ELSE @]
            q2 == IF GroupsByAggregate(q1, no) THEN Fails(q1, "GROUP BY on aggregate results") ELSE q1
            with(q3) == IF HasProvsql(q3.rt[no])
                          THEN [q |-> q3, atts |-> Append(s.atts, make_provenance_attribute(q3.rt[no], no))]
                          ELSE [q |-> q3, atts |-> s.atts]
        IN  CASE r.k = "rel" -> with(s.q)
              [] r.k = "sub" -> with(q2)
              [] OTHER -> s
  IN  FoldLeft(entry, [q |-> q, atts |-> <<>>], [no \in DOMAIN q.rt |-> no])

(* The token, last of the visible columns; the hidden ones move.           *)
add_to_select(q, expr) ==
  LET hidden(i) == Cardinality({j \in 1..i : q.tl[j].junk})
      at(i) == IF q.tl[i].junk THEN Len(Visible(q)) + 1 + hidden(i) ELSE i - hidden(i)
  IN  [q EXCEPT !.tl = Visible(q) \o <<Named(expr, "provsql")>> \o SelectSeq(@, LAMBDA t : t.junk),
                !.group = Each(@, at)]

insert_agg_token_casts(q) ==
  [q EXCEPT !.tl = Each(@, LAMBDA t : [t EXCEPT !.e = try_swap_agg_arith(@, q.rt)])]

AnnotationFails(e) == HasOp(e, {"error"})

(* A row of a difference whose token is zero is not returned.              *)
annotate(s, o) ==
  LET q == insert_agg_token_casts(s.q)
      made == make_provenance_expression(q, s.atts, hasAggs(s.q), s.gbr, s.op, o.where)
      token == IF s.wrap THEN Fn("assume_boolean", <<made.expr>>) ELSE made.expr
      done == [add_to_select(q, token) EXCEPT !.having = made.having,
                        !.where = IF s.op = "MONUS" THEN AndOf(<<Fn("nonzero", <<token>>)>> \o Conjuncts(@))
                                  ELSE @]
  IN  IF AnnotationFails(made.expr) THEN Refuses(s, "Unsupported condition") ELSE Becomes(s, done)

-----------------------------------------------------------------------------
(* The passes, in their order.  A pass that changes the shape of the query *)
(* starts again; without a token to collect the rewriting ends.            *)
Passes == <<"inner joins", "boolean having", "distinct", "ctes", "array sublinks",
            "quantified sublinks", "antijoins", "predicate sublinks", "where predicates",
            "uncorrelated sublinks", "scalar sublinks", "outer joins", "own attributes",
            "set operation", "distinct aggregates", "null tests", "safe query", "right arm", "join check",
            "tokens", "sublinks left", "set arms", "grouping", "migration", "aggregates", "annotation">>

Pass(p, s, o) ==
  LET q == s.q
  IN
  CASE p = "inner joins" -> Becomes(s, normalize_inner_joins_walker(q))
    [] p = "boolean having" -> Becomes(s, [q EXCEPT !.having = normalize_bool_agg_having(@)])
    [] p = "distinct" -> Becomes(s, normalize_distinct_into_group_by(q))
    [] p = "ctes" -> Becomes(s, inline_ctes(q))
    [] p = "array sublinks" -> Becomes(s, rewrite_array_sublinks(q))
    [] p = "quantified sublinks" -> Becomes(s, normalize_quantified_aggregate_sublinks(q))
    [] p = "antijoins" -> Becomes(s, rewrite_uncorrelated_antijoin(q))
    [] p = "predicate sublinks" -> Becomes(s, rewrite_predicate_sublinks(q))
    [] p = "where predicates" -> Becomes(s, move_uncorrelated_where_predicates(q))
    [] p = "uncorrelated sublinks" -> Becomes(s, move_uncorrelated_sublinks_to_from(q))
    [] p = "scalar sublinks" -> Becomes(s, decorrelate_scalar_sublinks(q))
    [] p = "outer joins" -> Becomes(s, lower_outer_joins(q))
    [] p = "own attributes" -> [s EXCEPT !.q = remove_provenance_attributes_select(@),
                                         !.removed = removed_columns(q)]
    [] p = "set operation" ->
         (CASE ~ IsSetOp(q) -> s
            [] q.set.all -> s
            [] AggregateArm(q) -> Refuses(s, "Non-ALL set operations on aggregate results")
            [] OTHER -> Restarts(s, rewrite_non_all_into_external_group_by(q)))
    [] p = "distinct aggregates" ->
         IF hasAggs(q) /\ HasDistinctAgg(q) THEN Restarts(s, rewrite_agg_distinct(q)) ELSE s
    [] p = "null tests" ->
         IF \E c \in Mem(Conjuncts(q.where)) : IsPushable(q, c)
           THEN Restarts(s, push_agg_nulltest_into_subquery(q)) ELSE s
    [] p = "safe query" ->
         LET safe == IF o.boolean THEN try_safe_query_rewrite(q) ELSE NoQuery
         IN  IF safe = NoQuery THEN s ELSE [Restarts(s, safe) EXCEPT !.wrap = TRUE]
    [] p = "right arm" -> Becomes(s, group_set_difference_right_arm(q))
    [] p = "join check" -> Becomes(s, check_unlowered_outer_joins(q))
    [] p = "tokens" -> LET got == get_provenance_attributes(q, o)
                       IN  [s EXCEPT !.q = got.q, !.atts = got.atts,
                                     !.go = IF got.atts = <<>> THEN "done" ELSE "next"]
    [] p = "sublinks left" -> IF query_has_tracked_sublink(q) /\ classify_remaining_sublinks(q)
                                THEN Refuses(s, "Subqueries (EXISTS, IN, scalar subquery) not supported")
                                ELSE s
    [] p = "set arms" -> set_operations(s)
    [] p = "grouping" -> [s EXCEPT !.gbr = q.group # <<>>]
    [] p = "migration" -> Becomes(s, migrate_probabilistic_quals(q))
    [] p = "aggregates" -> IF hasAggs(q)
                             THEN Becomes(s, replace_aggregations_by_provenance_aggregate(q, s.atts, s.op))
                             ELSE s
    [] p = "annotation" -> [annotate(s, o) EXCEPT !.go = "done"]

(* Where to go after a pass: 0 at the end.                                 *)
After(i, s) == CASE s.q.err # "" \/ s.go = "done" -> 0
                 [] s.go = "restart" -> 1
                 [] OTHER -> i + 1

RECURSIVE RunPasses(_, _, _)
RunPasses(i, s, o) ==
  IF i = 0 THEN s
  ELSE CHOOSE r \in {RunPasses(After(i, t), IF t.go = "restart" THEN Again(t) ELSE t, o) :
                       t \in {Pass(Passes[i], s, o)}} : TRUE

process_query(q, o) == RunPasses(1, Begun(q), o)

-----------------------------------------------------------------------------
VARIABLES
  input,   \* the query asked
  state,   \* the query as rewritten so far
  stage    \* the pass to come, 0 when the rewriting is over

vars == <<input, state, stage>>

Init == /\ input \in Queries
        /\ state = Begun(input.q)
        /\ stage = IF has_provenance(input.q) THEN 1 ELSE 0

TakePass(p) ==
  /\ stage # 0 /\ Passes[stage] = p
  /\ \E t \in {Rewrite(p, state, [where |-> input.where, boolean |-> input.boolean])} :
       /\ stage' = After(stage, t)
       /\ state' = IF t.go = "restart" THEN Again(t) ELSE t
  /\ UNCHANGED input

NormalizeJoins == TakePass("inner joins")
NormalizeHaving == TakePass("boolean having")
NormalizeDistinct == TakePass("distinct")
InlineCtes == TakePass("ctes")
RewriteSublinks == \E p \in {"array sublinks", "quantified sublinks", "antijoins", "predicate sublinks",
                             "where predicates", "uncorrelated sublinks", "scalar sublinks"} : TakePass(p)
LowerOuterJoins == TakePass("outer joins")
RemoveAttributes == TakePass("own attributes")
RewriteSafely == TakePass("safe query")
ReshapeQuery == \E p \in {"set operation", "distinct aggregates", "null tests"} : TakePass(p)
PrepareArms == \E p \in {"right arm", "join check"} : TakePass(p)
CollectTokens == TakePass("tokens")
CheckSublinks == TakePass("sublinks left")
CombineArms == TakePass("set arms")
DetectGrouping == TakePass("grouping")
MigrateConditions == TakePass("migration")
ReplaceAggregates == TakePass("aggregates")
Annotate == TakePass("annotation")

Next == NormalizeJoins \/ NormalizeHaving \/ NormalizeDistinct \/ InlineCtes \/ RewriteSublinks
        \/ LowerOuterJoins \/ RemoveAttributes \/ ReshapeQuery \/ RewriteSafely \/ PrepareArms \/ CollectTokens
        \/ CheckSublinks \/ CombineArms \/ DetectGrouping \/ MigrateConditions
        \/ ReplaceAggregates \/ Annotate

Spec == Init /\ [][Next]_vars
-----------------------------------------------------------------------------
(* Bags of rows, as functions from rows to how many times they are there.  *)
BagOf(rows) == [r \in Mem(rows) |-> Cardinality({i \in DOMAIN rows : rows[i] = r})]

(* The rows of a query without the tokens it selects.                      *)
TokenColumns(q) == {i \in DOMAIN Visible(q) : Visible(q)[i].name = "provsql"}
Without(row, columns) ==
  Each(SelectSeq([i \in DOMAIN row |-> i], LAMBDA i : i \notin columns), LAMBDA i : row[i])

AnswersIn(q, w) == BagOf(Each(Execute(q, <<>>, In(w)), LAMBDA r : Without(r, TokenColumns(q))))

(* PostgreSQL refuses a query whose scalar subquery has several rows.      *)
Answered(bag) == \A r \in DOMAIN bag : TooMany \notin Mem(r)

Over == stage = 0
Completed == Over /\ state.q.err = ""

(* The rows of the rewritten query a world keeps: those whose token holds  *)
(* in it, with the value of the aggregates in it.                          *)
Kept(w) ==
  LET q == state.q
      cols == Visible(q)
      rows == Execute(q, <<>>, Annotated)
      at == CHOOSE i \in TokenColumns(q) : TRUE
      there == IF TokenColumns(q) = {} THEN rows ELSE SelectSeq(rows, LAMBDA r : Holds(r[at], w))
      value(r, i) == IF IsAggToken(cols[i].e, q.rt) THEN ValueAt(r[i], w) ELSE r[i]
      valued(r) == SubSeq([i \in DOMAIN r |-> value(r, i)], 1, Len(r))
  IN  BagOf(Each(there, LAMBDA r : Without(valued(r), TokenColumns(q))))

(* Every answer of the query, in every possible world, is an answer of the *)
(* rewritten query whose token holds in that world, as many times and with *)
(* the same aggregates, and no other token holds: what the provenance of a *)
(* row means (process_query, 14401-15002).                                 *)
AnswersInEveryWorld ==
  Completed => \A w \in WorldsOf(input.q) :
    LET answers == AnswersIn(input.q, w)
    IN  Answered(answers) => Kept(w) = answers

(* Every pass before the collection of the tokens (19 of them) rewrites    *)
(* the query into one that means the same: in every world where the query  *)
(* is answered, the new one has the same answers (process_query).          *)
EachPassKeepsMeaning ==
  [][(stage \in 1..19 /\ state'.q.err = "" /\ state'.q # state.q) =>
       \A w \in WorldsOf(input.q) : LET answers == AnswersIn(state.q, w)
                         IN  Answered(answers) => AnswersIn(state'.q, w) = answers]_vars

(* Where-provenance: the token of a row without aggregation lists, for     *)
(* every column of the answer, only cells that hold the value the column   *)
(* has, and at least one for a column of a tracked table (WhereCircuit).   *)
RECURSIVE GatesOf(_)
GatesOf(t) == {t.gate} \cup UNION {GatesOf(c) : c \in Mem(t.children)}

CellValue(cell) == Schema[cell[1][1]].rows[cell[1][2]][cell[2]]
ColumnCounts == [n \in Names |-> Schema[n].cols]

WhereCellsCarryTheValue ==
  (Completed /\ input.where) =>
    LET rows == Execute(state.q, <<>>, Annotated)
        at == CHOOSE i \in TokenColumns(state.q) : TRUE
        direct(i) == LET e == input.q.tl[i].e
                     IN  /\ e.op = "var" /\ ~ IsSetOp(input.q)
                         /\ input.q.rt[e.x[1]].k = "rel" /\ HasProvsql(input.q.rt[e.x[1]])
    IN  \A r \in Mem(rows) :
          GatesOf(r[at]) \subseteq {"input", "times", "plus", "project", "eq"} =>
            LET cells == evaluate(r[at], ColumnCounts)
            IN  \A i \in DOMAIN r \ {at} :
                  /\ i \in DOMAIN cells
                  /\ \A c \in cells[i] : CellValue(c) = r[i]
                  /\ direct(i) => cells[i] # {}

(* A query rewritten as safe has read-once tokens: no leaf of the circuit  *)
(* occurs twice in the token of a row, so that its probability is computed *)
(* gate by gate, its inputs being independent (try_safe_query_rewrite).    *)
RECURSIVE Occurrences(_)
Occurrences(t) == IF t.gate = "input" THEN <<t>> ELSE FlattenSeq(Each(t.children, Occurrences))

ReadOnce ==
  (Completed /\ state.wrap) =>
    LET rows == Execute(state.q, <<>>, Annotated)
        at == CHOOSE i \in TokenColumns(state.q) : TRUE
    IN  \A r \in Mem(rows) : LET leaves == Occurrences(r[at])
                             IN  Cardinality(Mem(leaves)) = Len(leaves)
=============================================================================
