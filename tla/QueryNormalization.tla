------------------------- MODULE QueryNormalization -------------------------
(***************************************************************************)
(* The passes of the planner hook that bring a query into the shape the    *)
(* annotation is computed on (src/provsql.c): inner joins become a list of *)
(* relations, DISTINCT becomes GROUP BY, common table expressions become   *)
(* subqueries, a set operation without ALL is grouped, an aggregate of     *)
(* distinct values becomes an aggregate over a grouped subquery.           *)
(***************************************************************************)
EXTENDS ProvenanceExpression

LOCAL Each(s, F(_)) == LET r == [i \in DOMAIN s |-> F(s[i])] IN SubSeq(r, 1, Len(s))
LOCAL Mem(s) == {s[i] : i \in DOMAIN s}

(* The query of the rows of a table or subquery, all columns.              *)
From(sub, tl) == Select(<<Sub(sub)>>, <<Ref(1)>>, True, tl)

-----------------------------------------------------------------------------
(* Does the rewriting apply?  Sublinks do not count, except a scalar       *)
(* subquery of one column of one tracked table.                            *)
decorr_value_sublink(e) ==
  \E n \in Nodes(e) :
    /\ n.op = "sublink" /\ n.x[1] = "EXPR"
    /\ ~ hasAggs(n.q) /\ n.q.group = <<>> /\ ~ n.q.distinct /\ n.q.set = NoSet
    /\ ~ hasSubLinks(n.q) /\ n.q.ctes = <<>> /\ Len(n.q.rt) = 1 /\ Len(n.q.tl) = 1
    /\ n.q.rt[1].k = "rel" /\ HasProvsql(n.q.rt[1])

RECURSIVE has_provenance(_)
has_provenance(q) ==
  \/ \E c \in Mem(q.ctes) : has_provenance(c.q)
  \/ \E t \in Mem(q.tl) : decorr_value_sublink(t.e)
  \/ decorr_value_sublink(q.where)
  \/ \E r \in Mem(q.rt) : CASE r.k = "rel" -> HasProvsql(r)
                            [] r.k = "sub" -> has_provenance(r.q)
                            [] OTHER -> FALSE

query_has_tracked_sublink(q) == \E s \in SubLinks(q) : has_provenance(s.q)

-----------------------------------------------------------------------------
(* Inner joins: the relations to the FROM list, the conditions before      *)
(* those of WHERE, the entries of the joins away, the others renumbered.   *)
RECURSIVE AllInner(_), InnerRefs(_), InnerQuals(_), InnerJoins(_)
AllInner(jt) == jt.j = "ref" \/ (jt.j = "INNER" /\ AllInner(jt.l) /\ AllInner(jt.r))
InnerRefs(jt) == IF jt.j = "ref" THEN <<jt>> ELSE InnerRefs(jt.l) \o InnerRefs(jt.r)
InnerQuals(jt) == IF jt.j = "ref" THEN <<>>
                  ELSE InnerQuals(jt.l) \o InnerQuals(jt.r) \o Conjuncts(jt.on)
InnerJoins(jt) == IF jt.j = "ref" THEN {} ELSE {jt.n} \cup InnerJoins(jt.l) \cup InnerJoins(jt.r)

normalize_inner_joins(q) ==
  LET items == q.from
      flattened == UNION {InnerJoins(items[i]) : i \in {i \in DOMAIN items : AllInner(items[i])}}
      from == FlattenSeq(Each(items, LAMBDA j : IF AllInner(j) THEN InnerRefs(j) ELSE <<j>>))
      conjs == FlattenSeq(Each(items, LAMBDA j : IF AllInner(j) THEN InnerQuals(j) ELSE <<>>))
               \o Conjuncts(q.where)
      to == [n \in DOMAIN q.rt |-> Cardinality((1..n) \ flattened)]
      kept == SelectSeq([n \in DOMAIN q.rt |-> n], LAMBDA n : n \notin flattened)
      moved == RenumberQuery([q EXCEPT !.from = from, !.where = AndOf(conjs)], to, 0)
  IN  IF flattened = {} THEN q
      ELSE [moved EXCEPT !.rt = Each(kept, LAMBDA n : moved.rt[n])]

RECURSIVE normalize_inner_joins_walker(_)
normalize_inner_joins_walker(q) == MapBelow(normalize_inner_joins(q), normalize_inner_joins_walker)

(* A Boolean aggregate alone in HAVING is compared with TRUE.              *)
RECURSIVE normalize_bool_agg_having(_)
normalize_bool_agg_having(e) ==
  CASE IsBoolExpr(e) -> [e EXCEPT !.args = Each(@, normalize_bool_agg_having)]
    [] e.op = "agg" /\ e.x[1] \in {"bool_or", "bool_and", "every"} -> Eq(e, True)
    [] OTHER -> e

normalize_distinct_into_group_by(q) ==
  LET all == SelectSeq([i \in DOMAIN q.tl |-> i], LAMBDA i : ~ q.tl[i].junk)
      missing == SelectSeq(all, LAMBDA i : i \notin Mem(q.group))
  IN  CASE ~ q.distinct -> q
        [] hasAggs(q) -> Fails(q, "DISTINCT on aggregate results")
        [] Len(all) < Len(q.tl) -> Fails(q, "Inconsistent DISTINCT and GROUP BY clauses")
        [] OTHER -> [q EXCEPT !.group = @ \o missing, !.distinct = FALSE]

-----------------------------------------------------------------------------
(* Common table expressions: those over tracked tables, and those that     *)
(* refer to one of these, become subqueries; the others stay.              *)
RECURSIVE query_references_cte(_, _)
query_references_cte(q, name) ==
  \E r \in Mem(q.rt) : \/ r.k = "cte" /\ r.name = name
                       \/ r.k = "sub" /\ query_references_cte(r.q, name)

RECURSIVE MustInline(_, _)
MustInline(ctes, known) ==
  LET more == {i \in DOMAIN ctes : \E j \in known : query_references_cte(ctes[i].q, ctes[j].name)}
  IN  IF more \subseteq known THEN known ELSE MustInline(ctes, known \cup more)

RECURSIVE inline_ctes_in_rtable(_, _)
inline_ctes_in_rtable(rt, inlined) ==
  LET below(q) == [q EXCEPT !.rt = inline_ctes_in_rtable(@, inlined)]
      entry(r) == IF r.k = "sub" THEN [r EXCEPT !.q = below(@)]
                  ELSE IF r.k = "cte" /\ \E c \in inlined : c.name = r.name
                    THEN LET cte == CHOOSE c \in inlined : c.name = r.name IN Sub(below(cte.q))
                  ELSE r
  IN  Each(rt, entry)

inline_ctes(q) ==
  LET must == MustInline(q.ctes, {i \in DOMAIN q.ctes : has_provenance(q.ctes[i].q)})
      kept == SelectSeq([i \in DOMAIN q.ctes |-> i], LAMBDA i : i \notin must)
  IN  [q EXCEPT !.rt = inline_ctes_in_rtable(@, {q.ctes[i] : i \in must}),
                !.ctes = Each(kept, LAMBDA i : q.ctes[i])]

-----------------------------------------------------------------------------
(* A token the query selects itself is taken out of its columns.           *)
IsProvenanceAttribute(t) == t.e.op = "var" /\ t.name = "provsql"

remove_provenance_attributes_select(q) ==
  LET kept == SelectSeq([i \in DOMAIN q.tl |-> i], LAMBDA i : ~ IsProvenanceAttribute(q.tl[i]))
      at(i) == CHOOSE k \in DOMAIN kept : kept[k] = i
  IN  [q EXCEPT !.tl = Each(kept, LAMBDA i : q.tl[i]),
                !.group = Each(SelectSeq(@, LAMBDA g : g \in Mem(kept)), at)]

removed_columns(q) == {i \in DOMAIN q.tl : IsProvenanceAttribute(q.tl[i])}

(* A set operation without ALL: the one with ALL, grouped by all columns.  *)
rewrite_non_all_into_external_group_by(q) ==
  [From([q EXCEPT !.set.all = TRUE], q.tl) EXCEPT !.group = [i \in DOMAIN q.tl |-> i]]

IsSetOp(q) == q.set.op # "none"
AggregateArm(q) == \E r \in Mem(q.rt) : r.k = "sub" /\ hasAggs(r.q)

(* The right arm of a difference is grouped: one row per value.            *)
group_set_difference_right_arm(q) ==
  LET B == q.rt[q.set.r.n].q
      G == [From(B, [i \in DOMAIN Visible(B) |-> Named(Var(1, i, 0), Visible(B)[i].name)])
              EXCEPT !.group = [i \in DOMAIN Visible(B) |-> i]]
  IN  IF q.set.op # "EXCEPT" THEN q
      ELSE IF q.set.r.op # "leaf" THEN q
      ELSE IF B.group # <<>> THEN q
      ELSE [q EXCEPT !.rt[q.set.r.n].q = G]

-----------------------------------------------------------------------------
(* Aggregates of distinct values: each becomes an entry of its own, the    *)
(* aggregate over the rows of the query grouped by the value and by the    *)
(* grouping columns; the query is joined with it on the grouping columns.  *)
IsDistinctAgg(e) == e.op = "agg" /\ e.x[2]

build_inner_for_distinct_key(q, key, groupby) ==
  [q EXCEPT !.tl = <<TE(key)>> \o groupby, !.having = True, !.distinct = FALSE, !.aggs = FALSE,
            !.group = [i \in 1..(Len(groupby) + 1) |-> i]]

build_outer_for_distinct_key(agg, inner) ==
  LET keys == [i \in 1..(Len(inner.tl) - 1) |-> TE(Var(1, i + 1, 0))]
      value == Agg(agg.x[1], <<Var(1, 1, 0)>>, FALSE, SubSeq(agg.args, 2, Len(agg.args)))
  IN  [From(inner, <<TE(value)>> \o keys) EXCEPT !.group = [i \in DOMAIN keys |-> i + 1]]

RECURSIVE DistinctAggs(_)
DistinctAggs(e) == IF IsDistinctAgg(e) THEN <<e>> ELSE FlattenSeq(Each(e.args, DistinctAggs))

(* The distinct aggregates of HAVING, in order, replaced by the first      *)
(* column of the entries from n on.                                        *)
RECURSIVE replace_having_distinct(_, _)
replace_having_distinct(e, n) ==
  IF IsDistinctAgg(e) THEN Var(n, 1, 0)
  ELSE LET before(i) == FoldLeft(LAMBDA a, j : a + Len(DistinctAggs(e.args[j])), n,
                                 [j \in 1..(i - 1) |-> j])
           args == [i \in DOMAIN e.args |-> replace_having_distinct(e.args[i], before(i))]
       IN  [e EXCEPT !.args = SubSeq(args, 1, Len(e.args))]

HasDistinctAgg(q) ==
  (\E t \in Mem(q.tl) : IsDistinctAgg(t.e)) \/ DistinctAggs(q.having) # <<>>

rewrite_agg_distinct(q) ==
  LET selected == SelectSeq([i \in DOMAIN q.tl |-> i], LAMBDA i : IsDistinctAgg(q.tl[i].e))
      aggs == Each(selected, LAMBDA i : q.tl[i].e) \o DistinctAggs(q.having)
      groupby == Each(SelectSeq(q.tl, LAMBDA t : t.e.op # "agg"), LAMBDA t : [t EXCEPT !.junk = FALSE])
      outer(a) == Sub(build_outer_for_distinct_key(a, build_inner_for_distinct_key(q, a.args[1], groupby)))
      base == Len(q.rt)
      equal(k) == Each([g \in DOMAIN groupby |-> g],
                       LAMBDA g : Eq(groupby[g].e, Var(base + k, g + 1, 0)))
      at(i) == base + (CHOOSE k \in DOMAIN selected : selected[k] = i)
      numbers == [k \in DOMAIN aggs |-> k]
      tl == [i \in DOMAIN q.tl |-> IF i \in Mem(selected) THEN [q.tl[i] EXCEPT !.e = Var(at(i), 1, 0)]
                                   ELSE q.tl[i]]
  IN  [q EXCEPT !.rt = @ \o Each(aggs, outer), !.from = @ \o Each(numbers, LAMBDA k : Ref(base + k)),
                !.where = AndOf(FlattenSeq(Each(numbers, equal))), !.tl = SubSeq(tl, 1, Len(q.tl)),
                !.aggs = TRUE, !.having = replace_having_distinct(@, base + Len(selected) + 1)]

-----------------------------------------------------------------------------
(* A null test on an aggregate of a subquery goes into its HAVING.         *)
add_to_havingQual(having, e) == AndOf(Append(Conjuncts(having), e))

RECURSIVE agg_nulltest_target(_, _)
agg_nulltest_target(q, v) ==
  /\ v.op = "var" /\ v.x[3] = 0
  /\ q.rt[v.x[1]].k = "sub"
  /\ LET sub == q.rt[v.x[1]].q
         te == sub.tl[v.x[2]]
     IN  \/ te.e.op = "var" /\ agg_nulltest_target(sub, te.e)
         \/ te.e.op # "var" /\ hasAggs(sub) /\ HasOp(te.e, {"agg"})

RECURSIVE PushNullTest(_, _, _)
PushNullTest(q, v, test) ==
  LET sub == q.rt[v.x[1]].q
      te == sub.tl[v.x[2]]
      down == IF te.e.op = "var" THEN PushNullTest(sub, te.e, test)
              ELSE [sub EXCEPT !.having = add_to_havingQual(@, Fn(test, <<te.e>>))]
  IN  [q EXCEPT !.rt[v.x[1]].q = down]

IsPushable(q, c) == IsNullTest(c) /\ agg_nulltest_target(q, c.args[1])

push_agg_nulltest_into_subquery(q) ==
  LET cs == Conjuncts(q.where)
      pushed == SelectSeq(cs, LAMBDA c : IsPushable(q, c))
      rest == SelectSeq(cs, LAMBDA c : ~ IsPushable(q, c))
  IN  FoldLeft(LAMBDA r, c : PushNullTest(r, c.args[1], c.op), [q EXCEPT !.where = AndOf(rest)], pushed)

-----------------------------------------------------------------------------
(* Outer joins of tracked relations (src/provsql.c): a LEFT, RIGHT or FULL *)
(* join becomes the union of the inner join and of the rows of a side      *)
(* without a match, padded with nulls.  These are what the side has EXCEPT *)
(* ALL its part of the inner join, so that the difference of the           *)
(* provenance says in which worlds a row is not matched.                   *)
(* The user columns of a relation or subquery, by position.                *)
oj_collect_cols(r) ==
  IF r.k = "rel" THEN [i \in 1..Schema[r.name].cols |-> i]
  ELSE SelectSeq([i \in DOMAIN r.q.tl |-> i],
                 LAMBDA i : ~ r.q.tl[i].junk /\ r.q.tl[i].name # "provsql")

oj_rte_has_provsql(r) == IF r.k = "rel" THEN HasProvsql(r)
                         ELSE has_provenance(r.q) \/ HasProvsql(r)

Columns(no, cols) == Each(cols, LAMBDA c : TE(Var(no, c, 0)))

(* The inner join of R and S, with the columns asked for.                  *)
oj_build_join_query(R, S, theta, select_r, select_s) ==
  Select(<<R, S, JoinRTE>>, <<Join("INNER", Ref(1), Ref(2), theta, 3)>>, True,
         (IF select_r THEN Columns(1, oj_collect_cols(R)) ELSE <<>>)
         \o (IF select_s THEN Columns(2, oj_collect_cols(S)) ELSE <<>>))

oj_build_rel_query(R) == Select(<<R>>, <<Ref(1)>>, True, Columns(1, oj_collect_cols(R)))

(* What a side has and the join has not.                                   *)
oj_build_diff(R, S, theta, keep_left) ==
  LET kept == IF keep_left THEN R ELSE S
      n == Len(oj_collect_cols(kept))
      ls == oj_build_rel_query(kept)
      mp == oj_build_join_query(R, S, theta, keep_left, ~ keep_left)
  IN  [Select(<<Sub(ls), Sub(mp)>>, <<>>, True, Columns(1, [i \in 1..n |-> i]))
         EXCEPT !.set = SetOp("EXCEPT", TRUE, Leaf(1), Leaf(2))]

oj_build_antijoin(R, S, theta, keep_left) ==
  LET nulls(r) == Each(oj_collect_cols(r), LAMBDA c : TE(Const(NULL)))
      kept(r) == Columns(1, [i \in DOMAIN oj_collect_cols(r) |-> i])
  IN  From(oj_build_diff(R, S, theta, keep_left),
           IF keep_left THEN kept(R) \o nulls(S) ELSE nulls(R) \o kept(S))

oj_build_union(R, S, theta, jointype) ==
  LET arms == <<oj_build_join_query(R, S, theta, TRUE, TRUE)>>
              \o (IF jointype \in {"LEFT", "FULL"} THEN <<oj_build_antijoin(R, S, theta, TRUE)>> ELSE <<>>)
              \o (IF jointype \in {"RIGHT", "FULL"} THEN <<oj_build_antijoin(R, S, theta, FALSE)>> ELSE <<>>)
      tree == FoldLeft(LAMBDA t, k : SetOp("UNION", TRUE, t, Leaf(k)), Leaf(1), [i \in 1..(Len(arms) - 1) |-> i + 1])
      width == Len(oj_collect_cols(R)) + Len(oj_collect_cols(S))
  IN  [Select(Each(arms, Sub), <<>>, True, Columns(1, [i \in 1..width |-> i])) EXCEPT !.set = tree]

(* The entries of the joined relations stay in the range table, out of the *)
(* way of the search for tokens.                                           *)
oj_neutralize_orphan_arm(r) == IF r.k = "sub" THEN Orphan ELSE [r EXCEPT !.hidden = TRUE]

(* The column of the union a column of R or S became.                      *)
oj_outer_remap(R, S, R_idx, S_idx, new) ==
  LET Rc == oj_collect_cols(R)
      Sc == oj_collect_cols(S)
      pos(cols, c) == CHOOSE i \in DOMAIN cols : cols[i] = c
  IN  [x \in {<<R_idx, c, 0>> : c \in Mem(Rc)} \cup {<<S_idx, c, 0>> : c \in Mem(Sc)} |->
         Var(new, IF x[1] = R_idx THEN pos(Rc, x[2]) ELSE Len(Rc) + pos(Sc, x[2]), 0)]

LoweredJoin(q) ==
  /\ Len(q.from) = 1 /\ q.from[1].j \in {"LEFT", "RIGHT", "FULL"}
  /\ q.from[1].l.j = "ref" /\ q.from[1].r.j = "ref"
  /\ \A n \in {q.from[1].l.n, q.from[1].r.n} :
       /\ q.rt[n].k \in {"rel", "sub"}
       /\ q.rt[n].k = "sub" => ~ q.rt[n].lateral
       /\ oj_rte_has_provsql(q.rt[n])

lower_outer_joins(q) ==
  LET je == q.from[1]
      R == q.rt[je.l.n]
      S == q.rt[je.r.n]
      theta == Remap(je.on, [x \in {n.x : n \in {m \in Nodes(je.on) : m.op = "var"}} |->
                               Var(IF x[1] = je.l.n THEN 1 ELSE 2, x[2], 0)])
      m == oj_outer_remap(R, S, je.l.n, je.r.n, je.n)
  IN  IF ~ LoweredJoin(q) THEN q
      ELSE [q EXCEPT !.rt[je.l.n] = oj_neutralize_orphan_arm(R),
                     !.rt[je.r.n] = oj_neutralize_orphan_arm(S),
                     !.rt[je.n] = Sub(oj_build_union(R, S, theta, je.j)),
                     !.from = <<Ref(je.n)>>,
                     !.tl = Each(@, LAMBDA t : [t EXCEPT !.e = Remap(@, m)]),
                     !.where = Remap(@, m), !.having = Remap(@, m)]

(* An outer join that stays may not pad a tracked relation with nulls,     *)
(* except a join the rewriting made itself.                                *)
RECURSIVE jointree_arm_has_tracked(_, _)
jointree_arm_has_tracked(jt, rt) ==
  IF jt.j = "ref" THEN rt[jt.n].k \in {"rel", "sub"} /\ oj_rte_has_provsql(rt[jt.n])
  ELSE jointree_arm_has_tracked(jt.l, rt) \/ jointree_arm_has_tracked(jt.r, rt)

RECURSIVE UnloweredJoin(_, _)
UnloweredJoin(jt, rt) ==
  /\ jt.j # "ref"
  /\ \/ UnloweredJoin(jt.l, rt)
     \/ UnloweredJoin(jt.r, rt)
     \/ /\ jt.j # "INNER" /\ ~ rt[jt.n].provsql
        /\ \/ jt.j \in {"LEFT", "FULL"} /\ jointree_arm_has_tracked(jt.r, rt)
           \/ jt.j \in {"RIGHT", "FULL"} /\ jointree_arm_has_tracked(jt.l, rt)

check_unlowered_outer_joins(q) ==
  IF \E j \in Mem(q.from) : UnloweredJoin(j, q.rt)
    THEN Fails(q, "unsupported JOIN: a tracked relation on the null-padded side") ELSE q
=============================================================================
