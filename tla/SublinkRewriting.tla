-------------------------- MODULE SublinkRewriting --------------------------
(***************************************************************************)
(* Subqueries in expressions (src/provsql.c).  Only a relation of the FROM *)
(* list contributes tokens, so a sublink over tracked tables becomes one:  *)
(* EXISTS, IN and their like become comparisons with count(STAR), a        *)
(* correlated scalar subquery becomes a LEFT JOIN grouped by the columns   *)
(* of the query, an uncorrelated one a subquery joined to everything, an   *)
(* uncorrelated negation the difference with such a product.               *)
(***************************************************************************)
EXTENDS QueryNormalization

LOCAL Each(s, F(_)) == LET r == [i \in DOMAIN s |-> F(s[i])] IN SubSeq(r, 1, Len(s))
LOCAL Mem(s) == {s[i] : i \in DOMAIN s}

VarsIn(e) == {n.x : n \in {m \in Nodes(e) : m.op = "var"}}
Relations(rt) == \A r \in Mem(rt) : r.k = "rel"
SomeTracked(rt) == \E r \in Mem(rt) : r.k \in {"rel", "sub"} /\ oj_rte_has_provsql(r)
CommaJoin(q) == q.from # <<>> /\ \A j \in Mem(q.from) : j.j = "ref"
OuterRefs(sub) == \E t \in Mem(sub.tl) : Uses(t.e, 1)

(* The first column of the body's first entry its condition talks of.      *)
RECURSIVE LocalVars(_)
LocalVars(e) == IF e.op = "var" THEN (IF e.x[1] = 1 /\ e.x[3] = 0 THEN <<e>> ELSE <<>>)
                ELSE FlattenSeq(Each(e.args, LocalVars))

(* The body's condition, once the body's entry is an entry of the query.   *)
oj_decorr_var_mut(e, q_new) ==
  Remap(e, [x \in {y \in VarsIn(e) : y[3] = 1 \/ (y[3] = 0 /\ y[1] = 1)} |->
              Var(IF x[3] = 1 THEN x[1] ELSE q_new, x[2], 0)])

-----------------------------------------------------------------------------
(* The relations of a FROM list as one subquery, their columns in order.   *)
AllColumns(rt) == FlattenSeq(Each([n \in DOMAIN rt |-> n],
                    LAMBDA n : IF rt[n].k = "rel" THEN Columns(n, oj_collect_cols(rt[n])) ELSE <<>>))
WrapMap(rt, level) ==
  LET cols == AllColumns(rt)
  IN  [x \in {<<t.e.x[1], t.e.x[2], level>> : t \in Mem(cols)} |->
         Var(1, CHOOSE i \in DOMAIN cols : cols[i].e.x = <<x[1], x[2], 0>>, level)]

CanWrapBody(sub) == CommaJoin(sub) /\ Relations(sub.rt) /\ SomeTracked(sub.rt)
oj_wrap_body_from(sub) ==
  LET m == WrapMap(sub.rt, 0)
      D == Select(sub.rt, sub.from, True, AllColumns(sub.rt))
  IN  [sub EXCEPT !.rt = <<Sub(D)>>, !.from = <<Ref(1)>>, !.where = Remap(@, m),
                  !.tl = Each(@, LAMBDA t : [t EXCEPT !.e = Remap(@, m)])]

MatchInd == "provsql_match_ind"
oj_wrap_body_with_match_ind(sub) ==
  LET wrapped == oj_wrap_body_from(sub)
  IN  [wrapped EXCEPT !.rt[1].q.tl = Append(@, Named(True, MatchInd))]

(* The same for the query: the conjunct with the sublink stays outside.    *)
CanWrapOuter(q) == \A r \in Mem(q.rt) : r.k \in {"rel", "join"}
oj_wrap_outer_from(q) ==
  LET kept == SelectSeq(Conjuncts(q.where), LAMBDA c : ~ HasOp(c, {"sublink"}))
      out == SelectSeq(Conjuncts(q.where), LAMBDA c : HasOp(c, {"sublink"}))
      one == IF SomeTracked(q.rt) THEN <<>> ELSE <<Named(Fn("gate_one", <<>>), "provsql")>>
      R == Select(q.rt, q.from, AndOf(kept), AllColumns(q.rt) \o one)
      inner(e) == Remap(e, WrapMap(q.rt, 1))
      below(sub) == [sub EXCEPT !.where = inner(@), !.tl = Each(@, LAMBDA t : [t EXCEPT !.e = inner(@)])]
      outer(e) == MapSubLinks(below, Remap(e, WrapMap(q.rt, 0)))
  IN  [q EXCEPT !.rt = <<Sub(R)>>, !.from = <<Ref(1)>>, !.where = outer(AndOf(out)),
                !.tl = Each(@, LAMBDA t : [t EXCEPT !.e = outer(@)])]

-----------------------------------------------------------------------------
(* EXISTS, ANY and ALL as comparisons of a number of rows.                 *)
Bare(sub) == sub.group = <<>> /\ sub.set = NoSet /\ ~ hasSubLinks(sub) /\ sub.ctes = <<>>

predicate_subselect_decorrelatable(sub, corr_supplied) ==
  /\ Bare(sub) /\ ~ hasAggs(sub) /\ ~ sub.distinct
  /\ corr_supplied \/ ~ IsTrue(sub.where)
  /\ Relations(sub.rt) /\ SomeTracked(sub.rt) /\ CommaJoin(sub)

build_count_predicate(sub, extra, antijoin) ==
  LET where == IF IsTrue(sub.where) THEN AndOf(extra)
               ELSE IF extra = <<>> THEN sub.where ELSE Fn("and", <<sub.where>> \o extra)
      body == [sub EXCEPT !.where = where, !.tl = <<TE(CountStar)>>, !.aggs = TRUE]
  IN  Fn(IF antijoin THEN "=" ELSE ">=", <<SubLink("EXPR", <<>>, body), Const(IF antijoin THEN 0 ELSE 1)>>)

Negated(c) == c.op = "not"
Positive(c) == IF Negated(c) THEN c.args[1] ELSE c
IsSubLink(e, kinds) == e.op = "sublink" /\ e.x[1] \in kinds

(* A body that is one aggregate has one row: no quantifier is left.        *)
normalize_quantified_aggregate_sublinks(q) ==
  LET applies(c) ==
        LET sl == Positive(c)
        IN  /\ IsSubLink(sl, {"ANY", "ALL"})
            /\ Bare(sl.q) /\ hasAggs(sl.q) /\ Len(sl.q.tl) = 1 /\ sl.q.tl[1].e.op = "agg"
            /\ IsOpExpr(sl.args[1]) /\ SomeTracked(sl.q.rt)
      scalar(c) ==
        LET sl == Positive(c)
            test == sl.args[1]
        IN  Replace([test EXCEPT !.op = IF Negated(c) THEN get_negator(@) ELSE @],
                    "param", SubLink("EXPR", <<>>, sl.q))
  IN  [q EXCEPT !.where = AndOf(Each(Conjuncts(@), LAMBDA c : IF applies(c) THEN scalar(c) ELSE c))]

(* Null tests guard a comparison whose unknown must count as a match.      *)
(* A slip: every column counts as one that is never null.                  *)
AssumedNotNull(e, rt) == e.op \in {"const", "var"} /\ rt # <<>>

expr_provably_not_null(e, rt) ==
  \/ e.op = "const" /\ e.x[1] # NULL
  \/ /\ e.op = "var" /\ e.x[3] = 0 /\ rt[e.x[1]].k = "rel"
     /\ e.x[2] \in Schema[rt[e.x[1]].name].notnull

Tests(sl) == Conjuncts(sl.args[1])
Quantified(sl) == /\ IsSubLink(sl, {"ANY", "ALL"})
                  /\ \A t \in Mem(Tests(sl)) : IsOpExpr(t) /\ t.args[2].op = "param"
                  /\ sl.x[1] = "ALL" => Len(Tests(sl)) = 1

extract_quantified_corr(sl, neg, rt) ==
  LET antijoin == sl.x[1] = "ALL"
      raise(e) == Remap(e, [x \in VarsIn(e) |-> Var(x[1], x[2], x[3] + 1)])
      conjunct(t) ==
        LET column == sl.q.tl[t.args[2].x[1]].e
            ci == Fn(IF antijoin THEN get_negator(t.op) ELSE t.op, <<raise(t.args[1]), column>>)
            nulls == (IF expr_provably_not_null(t.args[1], rt) THEN <<>>
                      ELSE <<Fn("isnull", <<raise(t.args[1])>>)>>)
                     \o (IF expr_provably_not_null(column, sl.q.rt) THEN <<>>
                         ELSE <<Fn("isnull", <<column>>)>>)
        IN  IF antijoin # neg /\ nulls # <<>> THEN Fn("or", <<ci>> \o nulls) ELSE ci
  IN  Each(Tests(sl), conjunct)

rewrite_predicate_sublinks(q) ==
  LET quantified(sl, neg) ==
        LET corr == extract_quantified_corr(sl, neg, q.rt)
            guarded == \E c \in Mem(corr) : c.op = "or"
            marked == [sl EXCEPT !.q = oj_wrap_body_with_match_ind(@)]
            antijoin == (sl.x[1] = "ALL") # neg
        IN  IF guarded THEN build_count_predicate(marked.q, extract_quantified_corr(marked, neg, q.rt), antijoin)
            ELSE build_count_predicate(sl.q, corr, antijoin)
      conjunct(c) ==
        LET sl == Positive(c)
        IN  CASE IsSubLink(sl, {"EXISTS"}) /\ predicate_subselect_decorrelatable(sl.q, FALSE) ->
                   build_count_predicate(sl.q, <<>>, Negated(c))
              [] Quantified(sl) /\ predicate_subselect_decorrelatable(sl.q, TRUE) ->
                   quantified(sl, Negated(c))
              [] OTHER -> c
  IN  [q EXCEPT !.where = AndOf(Each(Conjuncts(@), conjunct))]

(* ARRAY(SELECT ...) as an aggregate of the rows that match.               *)
rewrite_array_sublinks(q) ==
  LET applies(e) ==
        /\ IsSubLink(e, {"ARRAY"}) /\ predicate_subselect_decorrelatable(e.q, FALSE)
        /\ Len(e.q.tl) = 1 /\ LocalVars(e.q.where) # <<>>
      aggregate(sub) == Agg("array_agg", <<sub.tl[1].e>>, FALSE,
                            <<Fn("notnull", <<LocalVars(sub.where)[1]>>)>>)
      scalar(e) == SubLink("EXPR", <<>>, [e.q EXCEPT !.tl = <<TE(aggregate(e.q))>>, !.aggs = TRUE])
  IN  [q EXCEPT !.tl = Each(@, LAMBDA t : IF applies(t.e) THEN [t EXCEPT !.e = scalar(@)] ELSE t)]

-----------------------------------------------------------------------------
(* Uncorrelated sublinks: a subquery of the FROM list.                     *)
AllTracked(rt) == Relations(rt) /\ \A r \in Mem(rt) : oj_rte_has_provsql(r)
oj_uncorrelated_body_over_tracked(sub) ==
  /\ Bare(sub) /\ ~ sub.distinct /\ CommaJoin(sub) /\ AllTracked(sub.rt)
  /\ ~ OuterRefs(sub) /\ ~ Uses(sub.where, 1)

Choose(e) == Agg("choose", <<e>>, FALSE, <<>>)
AtMostOneRow == Fn("<=", <<CountStar, Const(1)>>)
SomeRow == Fn(">=", <<CountStar, Const(1)>>)

CanBuildFrom(body) ==
  /\ oj_uncorrelated_body_over_tracked(body) /\ Len(body.tl) = 1
  /\ hasAggs(body) => body.tl[1].e.op = "agg"
oj_build_uncorrelated_from_subquery(body) ==
  IF hasAggs(body) THEN body
  ELSE [body EXCEPT !.tl[1].e = Choose(@), !.aggs = TRUE, !.having = AtMostOneRow]

oj_having_gated_subquery(body, pred) ==
  [body EXCEPT !.tl = <<TE(Const(1))>>, !.having = pred, !.aggs = TRUE]

JoinedWith(q, subs) ==
  [q EXCEPT !.rt = @ \o Each(subs, Sub), !.from = @ \o [i \in DOMAIN subs |-> Ref(Len(q.rt) + i)]]

(* The side of a comparison with a scalar sublink, 0 if there is none.     *)
SubLinkSide(c) == CASE ~ IsOpExpr(c) -> 0
                    [] c.args[1].op = "sublink" -> 1
                    [] c.args[2].op = "sublink" -> 2
                    [] OTHER -> 0

GatedPredicate(c) ==
  LET i == SubLinkSide(c)
      sl == c.args[i]
      with(e) == [c EXCEPT !.args[i] = e]
      aggregated == with(sl.q.tl[1].e)
      chosen == Fn("and", <<with(Choose(sl.q.tl[1].e)), AtMostOneRow>>)
  IN  CASE IsSubLink(c, {"EXISTS"}) ->
             IF oj_uncorrelated_body_over_tracked(c.q) THEN <<oj_having_gated_subquery(c.q, SomeRow)>> ELSE <<>>
        [] i = 0 -> <<>>
        [] OTHER ->
             IF /\ IsSubLink(sl, {"EXPR"}) /\ CanBuildFrom(sl.q) /\ ~ Uses(c.args[3 - i], 0)
               THEN <<oj_having_gated_subquery(sl.q, IF hasAggs(sl.q) THEN aggregated ELSE chosen)>>
             ELSE <<>>

move_uncorrelated_where_predicates(q) ==
  LET cs == Conjuncts(q.where)
      subs == FlattenSeq(Each(cs, GatedPredicate))
      kept == SelectSeq(cs, LAMBDA c : GatedPredicate(c) = <<>>)
  IN  IF subs = <<>> THEN q ELSE JoinedWith([q EXCEPT !.where = AndOf(kept)], subs)

move_uncorrelated_sublinks_to_from(q) ==
  LET moved == SelectSeq([i \in DOMAIN q.tl |-> i],
                         LAMBDA i : IsSubLink(q.tl[i].e, {"EXPR"}) /\ CanBuildFrom(q.tl[i].e.q))
      at(i) == Len(q.rt) + (CHOOSE k \in DOMAIN moved : moved[k] = i)
      tl == [i \in DOMAIN q.tl |-> IF i \in Mem(moved) THEN [q.tl[i] EXCEPT !.e = Var(at(i), 1, 0)] ELSE q.tl[i]]
  IN  JoinedWith([q EXCEPT !.tl = SubSeq(tl, 1, Len(q.tl))],
                 Each(moved, LAMBDA i : oj_build_uncorrelated_from_subquery(q.tl[i].e.q)))

(* NOT EXISTS, or a comparison that zero satisfies: the difference of the  *)
(* relation and of its product with the rows of the opposite condition.    *)
oj_zero_satisfies(c) == Compare(c.op, 0, c.args[2].x[1]) = TRUE

AntijoinBody(c) ==
  LET sl == c.args[1]
      agg == sl.q.tl[1].e
  IN  CASE c.op = "not" /\ IsSubLink(c.args[1], {"EXISTS"}) ->
             IF oj_uncorrelated_body_over_tracked(sl.q) THEN <<oj_having_gated_subquery(sl.q, SomeRow)>> ELSE <<>>
        [] IsOpExpr(c) /\ IsSubLink(c.args[1], {"EXPR"}) /\ c.args[2].op = "const" ->
             IF /\ Len(sl.q.tl) = 1 /\ agg.op = "agg" /\ agg.x[1] \in {"count", "count*"}
                /\ oj_uncorrelated_body_over_tracked(sl.q) /\ oj_zero_satisfies(c)
               THEN <<oj_having_gated_subquery(sl.q, Fn(get_negator(c.op), <<agg, c.args[2]>>))>>
             ELSE <<>>
        [] OTHER -> <<>>

rewrite_uncorrelated_antijoin(q) ==
  LET cs == Conjuncts(q.where)
      R == q.from[1].n
      matched == SelectSeq([i \in DOMAIN cs |-> i], LAMBDA i : AntijoinBody(cs[i]) # <<>>)
      kept == SelectSeq([i \in DOMAIN cs |-> i], LAMBDA i : i # matched[1])
      applies == /\ ~ IsSetOp(q) /\ Len(q.from) = 1 /\ q.from[1].j = "ref"
                 /\ q.rt[R].k = "rel" /\ oj_rte_has_provsql(q.rt[R])
                 /\ matched # <<>>
      D == AntijoinBody(cs[matched[1]])[1]
  IN  IF ~ applies THEN q
      ELSE [q EXCEPT !.rt[R] = Sub(oj_build_diff(q.rt[R], Sub(D), True, TRUE)),
                     !.where = AndOf(Each(kept, LAMBDA i : cs[i]))]

-----------------------------------------------------------------------------
(* Correlated scalar sublinks: R LEFT JOIN Q, grouped by the columns of R. *)
RECURSIVE collect_direct_qual_sublinks(_)
collect_direct_qual_sublinks(e) ==
  CASE e.op = "sublink" -> {e}
    [] IsBoolExpr(e) -> UNION {collect_direct_qual_sublinks(a) : a \in Mem(e.args)}
    [] IsOpExpr(e) -> {a \in Mem(e.args) : a.op = "sublink"}
    [] OTHER -> {}

RECURSIVE SubLinksOf(_)
SubLinksOf(e) == IF e.op = "sublink" THEN <<e>> ELSE FlattenSeq(Each(e.args, SubLinksOf))

RECURSIVE oj_tl_sublink_in_arith(_)
oj_tl_sublink_in_arith(e) ==
  \/ e.op = "sublink"
  \/ e.op \in {"+", "-"} /\ \E a \in Mem(e.args) : oj_tl_sublink_in_arith(a)

oj_sub_bodies_coalescible(a, b) ==
  /\ ~ hasAggs(a) /\ ~ hasAggs(b) /\ ~ a.distinct /\ ~ b.distinct
  /\ Len(a.tl) = 1 /\ Len(b.tl) = 1 /\ Len(a.rt) = 1 /\ Len(b.rt) = 1
  /\ a.rt = b.rt /\ a.from = b.from /\ a.where = b.where

(* Where the sublinks are: the target entries that are one ("coalesce" for *)
(* several), arithmetic of a target entry, or the condition.               *)
SubLinkPosition(q) ==
  LET inTl == FlattenSeq(Each(q.tl, LAMBDA t : SubLinksOf(t.e)))
      all == inTl \o SubLinksOf(q.where)
      whole == SelectSeq(q.tl, LAMBDA t : IsSubLink(t.e, {"EXPR"}))
      nested == \E t \in Mem(q.tl) : t.e.op # "sublink" /\ HasOp(t.e, {"sublink"}) /\ oj_tl_sublink_in_arith(t.e)
  IN  CASE all = <<>> \/ \E s \in Mem(all) : s.x[1] # "EXPR" -> "none"
        [] Len(all) > 1 -> IF /\ Len(whole) = Len(all)
                              /\ \A t \in Mem(whole) : oj_sub_bodies_coalescible(whole[1].e.q, t.e.q)
                             THEN "coalesce" ELSE "none"
        [] Len(whole) = 1 -> "target"
        [] inTl # <<>> -> IF nested THEN "arithmetic" ELSE "none"
        [] OTHER -> IF all[1] \in collect_direct_qual_sublinks(q.where) THEN "where" ELSE "none"

(* Every sublink's body over a single entry.                               *)
WrappedBodies(q) ==
  LET wrap(sub) == IF Len(sub.rt) # 1 /\ CanWrapBody(sub) THEN oj_wrap_body_from(sub) ELSE sub
  IN  [q EXCEPT !.where = MapSubLinks(wrap, @), !.tl = Each(@, LAMBDA t : [t EXCEPT !.e = MapSubLinks(wrap, @)])]

TheBody(q) == (FlattenSeq(Each(q.tl, LAMBDA t : SubLinksOf(t.e))) \o SubLinksOf(q.where))[1].q

Joinable(r) == (r.k = "rel" \/ (r.k = "sub" /\ ~ r.lateral)) /\ oj_rte_has_provsql(r)
LoneRelation(q) == Len(q.from) = 1 /\ q.from[1].j = "ref" /\ Joinable(q.rt[q.from[1].n])

DecorrelatableBody(sub) ==
  /\ Bare(sub) /\ ~ (sub.distinct /\ hasAggs(sub)) /\ Len(Visible(sub)) = 1
  /\ hasAggs(sub) => sub.tl[1].e.op = "agg"
  /\ sub.from # <<>>

(* Q joined, what stands for the sublink, the groups, and the condition    *)
(* that a group has at most one row of Q, or exactly one in a comparison.  *)
DecorrelateInto(q, position) ==
  LET sub == TheBody(q)
      R_idx == q.from[1].n
      Q_idx == Len(q.rt) + 1
      Q == sub.rt[1]
      found == LocalVars(sub.where)
      here(e) == oj_decorr_var_mut(e, Q_idx)
      value == here(sub.tl[1].e)
      marks == IF Q.k = "sub" THEN {i \in DOMAIN Q.q.tl : Q.q.tl[i].name = MatchInd} ELSE {}
      key == IF marks # {} THEN Var(Q_idx, Min(marks), 0) ELSE here(found[1])
      stands(v) == IF ~ hasAggs(sub) THEN Choose(v)
                   ELSE IF v.x[1] = "count*" THEN Agg("count", <<key>>, FALSE, <<>>) ELSE v
      in(e) == IF position = "coalesce" THEN Choose(here(e.q.tl[1].e)) ELSE Replace(e, "sublink", stands(value))
      tl == Each(q.tl, LAMBDA t : IF HasOp(t.e, {"sublink"}) THEN [t EXCEPT !.e = in(@)] ELSE t)
      columns == oj_collect_cols(q.rt[R_idx])
      kept(c) == {i \in DOMAIN tl : tl[i].e = Var(R_idx, c, 0)}
      missing == SelectSeq(columns, LAMBDA c : kept(c) = {})
      junk == Each(missing, LAMBDA c : [TE(Var(R_idx, c, 0)) EXCEPT !.junk = TRUE])
      at(c) == IF kept(c) # {} THEN Min(kept(c)) ELSE Len(tl) + (CHOOSE k \in DOMAIN missing : missing[k] = c)
      rows(op) == Fn(op, <<IF sub.distinct THEN Agg("count", <<value>>, TRUE, <<>>)
                           ELSE Agg("count", <<here(found[1])>>, FALSE, <<>>), Const(1)>>)
      gates == CASE hasAggs(sub) -> <<>> [] position = "where" -> <<rows("<="), rows(">=")>>
                 [] OTHER -> <<rows("<=")>>
      conjuncts == Conjuncts(q.where)
      moved == IF position = "where" THEN SelectSeq(conjuncts, LAMBDA c : HasOp(c, {"sublink"})) ELSE <<>>
      stay == SelectSeq(conjuncts, LAMBDA c : ~ HasOp(c, {"sublink"}))
  IN  [q EXCEPT !.rt = @ \o <<Q, [JoinRTE EXCEPT !.provsql = TRUE]>>,
                !.from = <<Join("LEFT", Ref(R_idx), Ref(Q_idx), here(sub.where), Q_idx + 1)>>,
                !.tl = tl \o junk, !.group = Each(columns, at), !.aggs = TRUE, !.where = AndOf(stay),
                !.having = AndOf(gates \o Each(moved, in))]

decorrelate_scalar_sublinks(q0) ==
  LET position == SubLinkPosition(q0)
      plain == /\ q0.group = <<>> /\ ~ hasAggs(q0) /\ ~ q0.distinct /\ ~ IsSetOp(q0)
               /\ IsTrue(q0.having) /\ q0.from # <<>>
      q1 == WrappedBodies(q0)
      wraps == ~ LoneRelation(q1) /\ position \in {"target", "where"} /\ CanWrapOuter(q1)
      q == IF wraps THEN oj_wrap_outer_from(q1) ELSE q1
      sub == TheBody(q)
      join == /\ Len(sub.rt) = 1 /\ Len(sub.from) = 1 /\ sub.from[1].j = "ref" /\ Joinable(sub.rt[1])
      keyed == LocalVars(sub.where) # <<>> \/ (hasAggs(sub) /\ sub.tl[1].e.x[1] # "count*")
  IN  CASE ~ plain -> q0
        [] position = "none" -> q0
        [] ~ DecorrelatableBody(TheBody(q0)) -> q0
        [] ~ join -> q1
        [] ~ LoneRelation(q1) /\ ~ wraps -> q1
        [] OTHER -> IF keyed THEN DecorrelateInto(q, position) ELSE q
=============================================================================
