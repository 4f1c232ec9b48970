-------------------------- MODULE MCQueryRewriting --------------------------
(***************************************************************************)
(* The rewriting of some hundred queries over four tracked tables, copies  *)
(* of one of them and one that is not tracked, in the possible worlds of   *)
(* the tables of the query, up to 1024.                                    *)
(***************************************************************************)
EXTENDS QueryRewriting

CONSTANTS null, tooMany

Of(n, rows) == [cols |-> 2, tracked |-> n # "u", notnull |-> IF n = "u" THEN {} ELSE {1}, rows |-> rows, from |-> n]
MCSchema ==
  LET r == Of("r", <<<<1, 1>>, <<1, 2>>, <<2, null>>>>)
  IN  "r" :> r @@ "v" :> r @@ "o" :> r
      @@ "s" :> Of("s", <<<<1, 1>>, <<1, 2>>, <<3, 1>>>>)
      @@ "t" :> Of("t", <<<<1, 1>>, <<2, 1>>>>)
      @@ "k" :> Of("k", <<<<1, 1>>, <<1, 2>>>>)
      @@ "u" :> Of("u", <<<<1, 1>>, <<3, 2>>>>)

(* v and o are copies of r; t has a key, k blocks of alternatives.         *)
MCTableInfo ==
  LET tid(a) == [kind |-> "TID", block |-> {}, keys |-> {}, ancestors |-> a]
  IN  "r" :> tid({"r"}) @@ "v" :> tid({"r"}) @@ "s" :> tid({"s"})
      @@ "t" :> [tid({"t"}) EXCEPT !.keys = {{1}}]
      @@ "k" :> [tid({"k"}) EXCEPT !.kind = "BID", !.block = {1}]
      @@ "o" :> [tid({"r"}) EXCEPT !.kind = "OPAQUE"]
      @@ "u" :> [tid({}) EXCEPT !.kind = "none"]

Asked(q) == [q |-> q, where |-> FALSE, boolean |-> FALSE]
Traced(q) == [q |-> q, where |-> TRUE, boolean |-> FALSE]
Boolean(q) == [q |-> q, where |-> FALSE, boolean |-> TRUE]

V(n, i) == Var(n, i, 0)
Cols(n, S) == [i \in DOMAIN S |-> TE(V(n, S[i]))]
P(t, tl) == Select(<<Rel(t)>>, <<Ref(1)>>, True, tl)
Where(q, e) == [q EXCEPT !.where = e]
Grouped(q, g) == [q EXCEPT !.group = g]
Having(q, h) == [q EXCEPT !.having = h]
And2(a, b) == Fn("and", <<a, b>>)
Neg(e) == Fn("not", <<e>>)
Plus(a, b) == Fn("+", <<a, b>>)
Sum(e) == Agg("sum", <<e>>, FALSE, <<>>)
Count(e) == Agg("count", <<e>>, FALSE, <<>>)
CountD(e) == Agg("count", <<e>>, TRUE, <<>>)

R1 == P("r", Cols(1, <<1>>))
R2 == P("r", Cols(1, <<2>>))
R12 == P("r", Cols(1, <<1, 2>>))
S1 == P("s", Cols(1, <<1>>))
U1 == P("u", Cols(1, <<1>>))
SubQ(sub, tl) == Select(<<Sub(sub)>>, <<Ref(1)>>, True, tl)
Pair(a, b, on, tl) == Select(<<a, b>>, <<Ref(1), Ref(2)>>, on, tl)
Joined(a, type, b, on, tl) == Select(<<Rel(a), Rel(b), JoinRTE>>, <<Join(type, Ref(1), Ref(2), on, 3)>>, True, tl)
All4 == Cols(1, <<1, 2>>) \o Cols(2, <<1, 2>>)
Same(i) == Eq(V(1, i), V(2, i))

(* Joins, and the token as a column of the query itself.                   *)
Tokened == <<Named(V(1, 3), "provsql")>>
Joins == {
  R1,
  Pair(Rel("r"), Rel("u"), Same(1), Cols(1, <<2>>) \o Cols(2, <<2>>)),
  Pair(Rel("u"), Rel("s"), True, Cols(2, <<2>>) \o Cols(1, <<1>>)),
  Joined("r", "INNER", "s", Same(1), Cols(2, <<2>>)),
  [Joined("r", "INNER", "s", Same(1), Cols(2, <<2>>)) EXCEPT !.distinct = TRUE],
  SubQ(Joined("r", "INNER", "s", Same(1), Cols(1, <<1>>) \o Cols(2, <<2>>)), Cols(1, <<1>>)),
  P("r", Cols(1, <<1>>) \o Tokened),
  SubQ(P("r", Tokened \o Cols(1, <<1, 2>>)), Cols(1, <<2, 3>>)) }
Outer == {
  Joined("r", "LEFT", "s", Same(2), All4),
  Joined("r", "FULL", "s", Same(2), All4),
  Joined("r", "RIGHT", "s", And2(Same(2), Fn("<", <<V(1, 1), V(2, 1)>>)), All4),
  Where(Joined("r", "LEFT", "s", Same(1), Cols(1, <<1>>) \o Cols(2, <<2>>)), Fn("isnull", <<V(2, 1)>>)),
  Grouped(Joined("r", "LEFT", "s", Same(1), Cols(1, <<1>>) \o <<TE(Count(V(2, 2)))>>), <<1>>),
  Joined("u", "RIGHT", "s", Same(2), Cols(2, <<1>>)),
  Select(<<Rel("r"), Rel("s"), Rel("u"), JoinRTE, JoinRTE>>,
         <<Join("LEFT", Join("INNER", Ref(1), Ref(3), Eq(V(1, 1), V(3, 1)), 4), Ref(2), Same(2), 5)>>,
         True, Cols(1, <<1>>)) }

(* Set operations and common table expressions.                            *)
Two(op, all, a, b) == [Select(<<Sub(a), Sub(b)>>, <<>>, True, Cols(1, [i \in DOMAIN a.tl |-> i]))
                         EXCEPT !.set = SetOp(op, all, Leaf(1), Leaf(2))]
Three(op) == [Select(<<Sub(R1), Sub(S1), Sub(R2)>>, <<>>, True, Cols(1, <<1>>))
                EXCEPT !.set = SetOp(op, TRUE, SetOp("UNION", TRUE, Leaf(1), Leaf(2)), Leaf(3))]
With(ctes, q) == [q EXCEPT !.ctes = ctes]
CteOf(n, q) == [name |-> n, q |-> q, recursive |-> FALSE]
Sets == {Two(op, all, R1, S1) : op \in {"UNION", "EXCEPT"}, all \in BOOLEAN} \cup {
  Two("UNION", FALSE, Two("UNION", FALSE, R1, S1), U1),
  Two("EXCEPT", TRUE, R1, Grouped(S1, <<1>>)),
  Three("UNION"), Three("EXCEPT"),
  With(<<CteOf("a", R1)>>, Pair(Cte("a"), Rel("s"), Same(1), Cols(2, <<2>>))),
  With(<<CteOf("a", R1), CteOf("b", Where(Select(<<Cte("a")>>, <<Ref(1)>>, True, Cols(1, <<1>>)), Eq(V(1, 1), Const(1)))),
         CteOf("c", U1)>>, Pair(Cte("b"), Cte("c"), Same(1), Cols(2, <<1>>))) }

(* Aggregates, conditions on them, and those of subqueries.                *)
Group(having) == Having(Grouped(R1, <<1>>), having)
GR == Grouped(P("r", Cols(1, <<1>>) \o <<TE(Sum(V(1, 2)))>>), <<1>>)
Big == Fn(">", <<Sum(V(1, 2)), Const(1)>>)
IsOne == Eq(V(1, 2), Const(1))
Aggs == {
  Grouped(P("r", Cols(1, <<1>>) \o <<TE(Sum(V(1, 2))), TE(CountStar), TE(Count(V(1, 2)))>>), <<1>>),
  P("r", <<TE(CountStar)>>), P("r", <<TE(Plus(Sum(V(1, 2)), Const(5)))>>),
  P("r", <<TE(Plus(Agg("min", <<V(1, 2)>>, FALSE, <<>>), Const(5)))>>),
  Group(Fn(">=", <<CountStar, Const(2)>>)), Group(Fn("isnull", <<Sum(V(1, 2))>>)), Group(Neg(Big)),
  Group(Agg("bool_or", <<IsOne>>, FALSE, <<>>)), Group(Neg(Agg("every", <<IsOne>>, FALSE, <<>>))),
  Group(And2(Fn(">", <<V(1, 1), Const(0)>>), Fn("or", <<Big, Fn("<", <<CountStar, Const(2)>>)>>))),
  Having(P("r", <<TE(CountStar)>>), Fn("isnull", <<Sum(V(1, 2))>>)),
  Having(P("r", <<TE(CountStar)>>), Fn(">", <<CountStar, Const(1)>>)),
  Grouped(P("s", Cols(1, <<1>>) \o <<TE(CountD(V(1, 2))), TE(Agg("sum", <<V(1, 2)>>, TRUE, <<>>))>>), <<1>>),
  Having(Grouped(S1, <<1>>), Fn(">=", <<CountD(V(1, 2)), Const(2)>>)),
  Where(SubQ(GR, Cols(1, <<1, 2>>)), Fn(">", <<V(1, 2), Const(1)>>)),
  Where(SubQ(GR, Cols(1, <<1>>)), And2(Eq(V(1, 1), Const(1)), Fn("<", <<Const(1), Plus(V(1, 2), Const(1))>>))),
  Where(SubQ(GR, Cols(1, <<1>>)), Fn("or", <<Fn(">", <<V(1, 2), Const(2)>>), Eq(V(1, 1), Const(2))>>)),
  Where(SubQ(SubQ(GR, Cols(1, <<2, 1>>)), Cols(1, <<2>>)), Fn("isnull", <<V(1, 1)>>)),
  Where(SubQ(GR, Cols(1, <<1, 2>>)), Fn("notnull", <<V(1, 2)>>)),
  Pair(Sub(GR), Rel("s"), And2(Same(1), Fn(">=", <<V(1, 2), V(2, 2)>>)), Cols(2, <<1, 2>>)),
  [GR EXCEPT !.distinct = TRUE], Grouped(SubQ(GR, Cols(1, <<2>>)), <<1>>),
  Two("UNION", FALSE, GR, P("s", Cols(1, <<1, 2>>))) }

(* Subqueries in expressions; Corr relates s to the row of the query.      *)
Corr == Eq(V(1, 1), Var(1, 1, 1))
OfS(where, e) == Where(P("s", <<TE(e)>>), where)
SomeOf(sub) == SubLink("EXISTS", <<>>, sub)
Scalar(sub) == SubLink("EXPR", <<>>, sub)
AnyOf(e, op, sub) == SubLink("ANY", <<Fn(op, <<e, Param(1)>>)>>, sub)
AllOf(e, op, sub) == SubLink("ALL", <<Fn(op, <<e, Param(1)>>)>>, sub)
If(e) == Where(R12, e)
Shows(e) == P("r", Cols(1, <<1>>) \o <<TE(e)>>)
SU == Where(Pair(Rel("s"), Rel("u"), True, <<TE(Const(1))>>), And2(Corr, Same(2)))
Conditions == {
  If(SomeOf(OfS(Corr, V(1, 1)))), If(Neg(SomeOf(OfS(Corr, V(1, 1))))), If(SomeOf(SU)),
  If(SomeOf(OfS(True, V(1, 1)))), If(Neg(SomeOf(OfS(True, V(1, 1))))),
  If(AnyOf(V(1, 1), "=", OfS(True, V(1, 1)))), If(Neg(AnyOf(V(1, 2), "=", OfS(True, V(1, 2))))),
  If(AllOf(V(1, 2), "<", OfS(Corr, V(1, 2)))), If(Neg(AllOf(V(1, 2), "<=", OfS(Corr, V(1, 2))))),
  If(AnyOf(V(1, 2), "<", OfS(True, Sum(V(1, 2))))), If(Neg(AllOf(V(1, 2), "<", OfS(True, Sum(V(1, 2)))))),
  If(Fn(">=", <<Scalar(OfS(Corr, CountStar)), Const(1)>>)), If(Eq(Scalar(OfS(Corr, V(1, 2))), V(1, 2))),
  If(Fn(">=", <<V(1, 2), Scalar(OfS(Corr, Sum(V(1, 2))))>>)),
  If(Fn(">", <<Scalar(OfS(True, CountStar)), Const(2)>>)), If(Fn("<", <<Scalar(OfS(True, CountStar)), Const(2)>>)),
  If(Fn("<=", <<Const(2), Scalar(OfS(True, V(1, 2)))>>)),
  If(Fn("or", <<Eq(V(1, 1), Const(1)), SomeOf(OfS(Corr, V(1, 1)))>>)),
  Where(U1, Fn(">", <<Scalar(OfS(Corr, V(1, 2))), Const(0)>>)) }
Values == {
  Shows(Scalar(OfS(Corr, V(1, 2)))), Shows(Scalar(OfS(Corr, Sum(V(1, 2))))), Shows(Scalar(OfS(True, V(1, 2)))),
  Shows(Scalar(OfS(True, Sum(V(1, 2))))), Shows(Plus(V(1, 1), Scalar(OfS(Corr, V(1, 2))))),
  P("s", Cols(1, <<1>>) \o <<TE(Scalar([Where(R2, Corr) EXCEPT !.distinct = TRUE]))>>),
  P("r", <<TE(Scalar(OfS(Corr, V(1, 2)))), TE(Scalar(OfS(Corr, V(1, 1))))>>),
  Pair(Rel("r"), Rel("u"), Same(1),
       Cols(1, <<1>>) \o <<TE(Scalar(OfS(Eq(V(1, 2), Var(1, 2, 1)), Count(V(1, 1)))))>>) }

(* Under Boolean provenance: joins below a root, groups, keys, constants,  *)
(* parts that nothing joins, copies of a table; and joins left as they are. *)
Distinctly(names, where, tl) ==
  [Select([i \in DOMAIN names |-> Rel(names[i])], [i \in DOMAIN names |-> Ref(i)], AndOf(where), tl)
     EXCEPT !.distinct = TRUE]
E2(i, a, j, b) == Eq(V(i, a), V(j, b))
Is(i, a, c) == Eq(V(i, a), Const(c))
One == <<TE(Const(1))>>
Triangle == <<E2(1, 1, 2, 1), E2(2, 1, 3, 1), E2(1, 2, 2, 2)>>
Rooted == {
  Distinctly(<<"r", "s">>, <<E2(1, 1, 2, 1)>>, Cols(1, <<1>>)),
  Distinctly(<<"r", "s">>, <<E2(1, 1, 2, 1)>>, One),
  Distinctly(<<"r", "s">>, <<E2(1, 1, 2, 1)>>, Cols(1, <<2>>) \o Cols(2, <<2>>)),
  Distinctly(<<"r", "s">>, <<E2(1, 1, 2, 1), Fn("<", <<V(1, 2), V(2, 2)>>)>>, Cols(1, <<1>>)),
  Grouped([Distinctly(<<"r", "s">>, <<E2(1, 1, 2, 1), Fn(">", <<V(1, 2), Const(1)>>)>>, Cols(1, <<1>>)) EXCEPT !.distinct = FALSE], <<1>>),
  Distinctly(<<"r", "s", "t">>, Triangle, Cols(1, <<1>>)),
  Distinctly(<<"r", "s", "t">>, Triangle, Cols(3, <<2>>)),
  Distinctly(<<"r", "s", "t", "k">>, <<E2(1, 1, 2, 1), E2(2, 1, 3, 1), E2(3, 1, 4, 1), E2(1, 2, 2, 2), E2(3, 2, 4, 2)>>, One),
  Distinctly(<<"r", "u", "s">>, <<E2(1, 1, 2, 1), E2(1, 1, 3, 1)>>, Cols(1, <<1>>)),
  Distinctly(<<"r", "k">>, <<E2(1, 1, 2, 1)>>, Cols(1, <<1>>)),
  Distinctly(<<"r", "k">>, <<E2(1, 2, 2, 2)>>, Cols(1, <<2>>)),
  SubQ(Distinctly(<<"r", "s">>, <<E2(1, 1, 2, 1)>>, Cols(1, <<1>>)), Cols(1, <<1>>)),
  Two("UNION", FALSE, Distinctly(<<"r", "s">>, <<E2(1, 1, 2, 1)>>, Cols(1, <<1>>)), S1) }
Unrooted == {
  Distinctly(<<"r", "t", "s">>, <<E2(1, 1, 2, 1), E2(2, 2, 3, 1)>>, One),
  Distinctly(<<"r", "t", "s">>, <<E2(1, 1, 2, 1), E2(2, 2, 3, 1)>>, Cols(1, <<1>>)),
  Distinctly(<<"r", "s", "t">>, <<E2(1, 1, 2, 1), E2(2, 2, 3, 1)>>, One),
  Distinctly(<<"r", "s">>, <<E2(1, 1, 2, 1), Is(2, 1, 1)>>, Cols(1, <<2>>)),
  Distinctly(<<"r", "t", "s">>, <<E2(1, 1, 2, 1), E2(2, 2, 3, 2), Is(2, 2, 1)>>, Cols(1, <<1>>)),
  Distinctly(<<"r", "s">>, <<>>, Cols(1, <<1>>)), Distinctly(<<"r", "s">>, <<>>, Cols(2, <<2>>) \o Cols(1, <<1>>)),
  Distinctly(<<"r", "t", "s">>, <<E2(1, 1, 2, 1), Fn("<", <<V(2, 1), V(3, 2)>>)>>, Cols(1, <<1>>) \o Cols(3, <<1>>)) }
Copied == {
  Distinctly(<<"t", "t">>, <<E2(1, 1, 2, 1), Is(2, 2, 1)>>, Cols(1, <<1>>) \o Cols(2, <<2>>)),
  Distinctly(<<"t", "r", "t">>, <<E2(1, 1, 2, 1), E2(1, 1, 3, 1)>>, Cols(3, <<2>>)),
  Distinctly(<<"t", "t">>, <<E2(1, 2, 2, 2)>>, Cols(1, <<1>>)),
  Distinctly(<<"s", "s">>, <<Is(1, 1, 1), Is(2, 1, 3), E2(1, 2, 2, 2)>>, Cols(1, <<2>>)),
  Distinctly(<<"r", "v">>, <<E2(1, 1, 2, 1)>>, Cols(1, <<1>>)),
  Distinctly(<<"o", "s">>, <<E2(1, 1, 2, 1)>>, Cols(1, <<1>>)),
  [Select(<<Sub(Where(Pair(Rel("r"), Rel("t"), Same(1), Cols(1, <<2, 1>>)), Fn("notnull", <<V(1, 2)>>))), Rel("s")>>, <<Ref(1), Ref(2)>>,
          E2(1, 2, 2, 1), Cols(1, <<1>>)) EXCEPT !.distinct = TRUE] }

(* Two columns of a table that nothing joins with the other.               *)
DisconnectedQueries == {Boolean(Distinctly(<<"r", "s">>, <<>>, Cols(1, <<1, 2>>)))}

MCQueries ==
  LET plain == Joins \cup Outer \cup Sets \cup Aggs \cup Conditions \cup Values
  IN  {Asked(q) : q \in plain} \cup {Traced(q) : q \in Joins}
        \cup {Boolean(q) : q \in plain \cup Rooted \cup Unrooted \cup Copied}
=============================================================================
