------------------------------ MODULE SQLQuery ------------------------------
(***************************************************************************)
(* Parse trees of SQL queries, as the planner hook receives them, and what *)
(* PostgreSQL answers to them: bags of rows with NULLs and three-valued    *)
(* logic.  The same evaluation serves the query as it is asked, in one     *)
(* possible world, and the query as it is rewritten, over the whole        *)
(* database, where it also builds the gates of the provenance circuit.     *)
(*                                                                         *)
(* A range-table entry is referred to by its index, a column by its        *)
(* position: Var(no, att, up).  The column after the last of a tracked     *)
(* table is "provsql".                                                     *)
(***************************************************************************)
EXTENDS ProvenanceCircuit

CONSTANT
  Schema     \* the tables: name -> [cols, tracked, notnull, rows, from], the table
             \* whose tokens the rows carry being "from": itself, or one it is a copy of

LOCAL Mem(s) == {s[i] : i \in DOMAIN s}
LOCAL Each(s, F(_)) == LET r == [i \in DOMAIN s |-> F(s[i])] IN SubSeq(r, 1, Len(s))

-----------------------------------------------------------------------------
(* A comparison of aggregates entails the group it ranges over: the        *)
(* factors of a row's annotation it does not entail are the others.        *)
RECURSIVE collect_group_tokens(_)
collect_group_tokens(t) ==
  IF t.gate = "agg" THEN {s.children[1] : s \in Mem(t.children)}
  ELSE IF t.gate \in {"arith", "cmp", "times", "plus", "monus", "delta"}
    THEN UNION {collect_group_tokens(c) : c \in Mem(t.children)} ELSE {}

delta_subsumed_by(t, group) ==
  /\ t.gate = "delta" /\ group # {}
  /\ LET operands == IF t.children[1].gate = "plus" THEN t.children[1].children ELSE t.children
     IN  Len(operands) = Cardinality(group) /\ Mem(operands) \subseteq group

RECURSIVE surviving_factors(_, _)
surviving_factors(t, group) ==
  IF delta_subsumed_by(t, group) THEN <<>>
  ELSE IF t.gate = "times" THEN FlattenSeq(Each(t.children, LAMBDA c : surviving_factors(c, group)))
  ELSE <<t>>

cmp_surviving_factors(tokens, cmp) ==
  LET group == collect_group_tokens(cmp)
      known == SelectSeq(tokens, LAMBDA t : t # NULL)
      add(kept, t) == kept \o SelectSeq(surviving_factors(t, group), LAMBDA f : f \notin Mem(kept))
  IN  FoldLeft(add, <<>>, known)

provenance_cmp_times(cmp, tokens) ==
  LET kept == cmp_surviving_factors(tokens, cmp)
  IN  IF kept = <<>> THEN cmp ELSE provenance_times(Append(kept, cmp))

-----------------------------------------------------------------------------
(* Expressions: an operator, its operands, what else it carries, and the   *)
(* query of a sublink.                                                     *)
NoQuery == <<>>
Node(op, args, x) == [op |-> op, args |-> args, x |-> x, q |-> NoQuery]

Var(no, att, up) == Node("var", <<>>, <<no, att, up>>)
Const(v) == Node("const", <<>>, <<v>>)
Fn(f, args) == Node(f, args, <<>>)
Eq(a, b) == Fn("=", <<a, b>>)
Agg(f, args, distinct, filter) == Node("agg", args \o filter, <<f, distinct, Len(args)>>)
CountStar == Agg("count*", <<>>, FALSE, <<>>)
SubLink(kind, test, sub) == [op |-> "sublink", args |-> test, x |-> <<kind>>, q |-> sub]
Param(i) == Node("param", <<>>, <<i>>)

True == Node("true", <<>>, <<>>)
IsTrue(e) == e.op = "true"

(* Conjunctions: a list of conjuncts and back.                             *)
Conjuncts(e) == IF e.op = "and" THEN e.args ELSE IF IsTrue(e) THEN <<>> ELSE <<e>>
AndOf(es) == CASE Len(es) = 0 -> True [] Len(es) = 1 -> es[1] [] OTHER -> Fn("and", es)

(* Every node of an expression, sublinks' queries not entered.             *)
RECURSIVE Nodes(_)
Nodes(e) == {e} \cup UNION {Nodes(e.args[i]) : i \in DOMAIN e.args}

HasOp(e, ops) == \E n \in Nodes(e) : n.op \in ops

(* An expression with some variables replaced: m maps <<no, att, up>>.     *)
RECURSIVE Remap(_, _)
Remap(e, m) ==
  IF e.op = "var" THEN (IF e.x \in DOMAIN m THEN m[e.x] ELSE e)
  ELSE [e EXCEPT !.args = Each(@, LAMBDA a : Remap(a, m))]

(* An expression with every node of an operator replaced.                  *)
RECURSIVE Replace(_, _, _)
Replace(e, op, by) ==
  IF e.op = op THEN by ELSE [e EXCEPT !.args = Each(@, LAMBDA a : Replace(a, op, by))]

-----------------------------------------------------------------------------
(* Range-table entries, join trees, target entries and queries.            *)
Rel(name) == [k |-> "rel", name |-> name, hidden |-> FALSE]
Sub(sub) == [k |-> "sub", q |-> sub, lateral |-> FALSE]
JoinRTE == [k |-> "join", provsql |-> FALSE]
Cte(name) == [k |-> "cte", name |-> name]
Orphan == [k |-> "result"]

Ref(n) == [j |-> "ref", n |-> n]
Join(type, l, r, on, n) == [j |-> type, l |-> l, r |-> r, on |-> on, n |-> n]

TE(e) == [e |-> e, junk |-> FALSE, name |-> ""]
Named(e, name) == [TE(e) EXCEPT !.name = name]

NoSet == [op |-> "none"]
Leaf(n) == [op |-> "leaf", n |-> n]
SetOp(op, all, l, r) == [op |-> op, all |-> all, l |-> l, r |-> r]

Select(rt, from, where, tl) ==
  [rt |-> rt, from |-> from, where |-> where, tl |-> tl, group |-> <<>>, having |-> True,
   distinct |-> FALSE, aggs |-> FALSE, set |-> NoSet, ctes |-> <<>>, err |-> ""]

Fails(q, why) == [q EXCEPT !.err = why]

Exprs(q) == Mem(Each(q.tl, LAMBDA t : t.e)) \cup {q.where, q.having}
hasAggs(q) == q.aggs \/ \E e \in Exprs(q) : HasOp(e, {"agg", "array_plus", "provenance_aggregate"})
SubLinks(q) == UNION {{n \in Nodes(e) : n.op = "sublink"} : e \in Exprs(q)}
hasSubLinks(q) == SubLinks(q) # {}

(* The number of user columns of an entry: "provsql" is not one.           *)
Visible(q) == SelectSeq(q.tl, LAMBDA t : ~ t.junk)
Width(r) == CASE r.k = "rel" -> Schema[r.name].cols
              [] r.k = "sub" -> Len(Visible(r.q))
              [] OTHER -> 0

(* The conditions of a join tree.                                          *)
RECURSIVE OnsOf(_)
OnsOf(jt) == IF jt.j = "ref" THEN {} ELSE {jt.on} \cup OnsOf(jt.l) \cup OnsOf(jt.r)

(* Does an expression, or a query, refer to the query "up" levels above?   *)
RECURSIVE Uses(_, _)
UsesIn(q, up) ==
  \/ \E e \in Exprs(q) \cup UNION {OnsOf(j) : j \in Mem(q.from)} : Uses(e, up)
Uses(e, up) ==
  \/ e.op = "var" /\ e.x[3] = up
  \/ \E i \in DOMAIN e.args : Uses(e.args[i], up)
  \/ e.op = "sublink" /\ UsesIn(e.q, up + 1)

Correlated(q) == UsesIn(q, 1)

(* A query whose entries get new numbers: its variables are renumbered,    *)
(* and those of the queries below that refer to it, d levels up.           *)
RECURSIVE RenumberExpr(_, _, _), RenumberJoin(_, _, _), RenumberQuery(_, _, _)
RenumberExpr(e, to, d) ==
  CASE e.op = "var" -> IF e.x[3] = d /\ e.x[1] \in DOMAIN to THEN Var(to[e.x[1]], e.x[2], d) ELSE e
    [] e.op = "sublink" -> [e EXCEPT !.args = Each(@, LAMBDA a : RenumberExpr(a, to, d)),
                                     !.q = RenumberQuery(@, to, d + 1)]
    [] OTHER -> [e EXCEPT !.args = Each(@, LAMBDA a : RenumberExpr(a, to, d))]
RenumberJoin(jt, to, d) ==
  IF jt.j = "ref" THEN (IF d = 0 THEN Ref(to[jt.n]) ELSE jt)
  ELSE [jt EXCEPT !.l = RenumberJoin(@, to, d), !.r = RenumberJoin(@, to, d),
                  !.on = RenumberExpr(@, to, d), !.n = IF d = 0 THEN to[@] ELSE @]
RenumberQuery(q, to, d) ==
  [q EXCEPT !.tl = Each(@, LAMBDA t : [t EXCEPT !.e = RenumberExpr(@, to, d)]),
            !.where = RenumberExpr(@, to, d), !.having = RenumberExpr(@, to, d),
            !.from = Each(@, LAMBDA j : RenumberJoin(j, to, d)),
            !.rt = Each(@, LAMBDA r : IF r.k = "sub" THEN [r EXCEPT !.q = RenumberQuery(@, to, d + 1)]
                                      ELSE r),
            !.ctes = Each(@, LAMBDA c : [c EXCEPT !.q = RenumberQuery(@, to, d + 1)])]

(* A query with a function applied to the queries right below it: those of *)
(* its range table, of its common table expressions and of its sublinks.   *)
RECURSIVE MapSubLinks(_, _)
MapSubLinks(G(_), e) ==
  LET args == Each(e.args, LAMBDA a : MapSubLinks(G, a))
  IN  IF e.op = "sublink" THEN [e EXCEPT !.args = args, !.q = G(@)] ELSE [e EXCEPT !.args = args]
MapBelow(q, G(_)) ==
  [q EXCEPT !.rt = Each(@, LAMBDA r : IF r.k = "sub" THEN [r EXCEPT !.q = G(@)] ELSE r),
            !.ctes = Each(@, LAMBDA c : [c EXCEPT !.q = G(@)]),
            !.tl = Each(@, LAMBDA t : [t EXCEPT !.e = MapSubLinks(G, @)]),
            !.where = MapSubLinks(G, @), !.having = MapSubLinks(G, @)]

-----------------------------------------------------------------------------
(* Worlds: the tokens of the tracked rows that are there.                  *)
Names == DOMAIN Schema
TrackedRows == UNION {{n} \X DOMAIN Schema[n].rows : n \in {n \in Names : Schema[n].tracked /\ Schema[n].from = n}}

(* The tables a query mentions, and the worlds they make.                  *)
RECURSIVE TablesIn(_)
TablesIn(q) ==
  {Schema[r.name].from : r \in {r \in Mem(q.rt) : r.k = "rel"}}
  \cup UNION {TablesIn(r.q) : r \in {r \in Mem(q.rt) : r.k = "sub"}}
  \cup UNION {TablesIn(c.q) : c \in Mem(q.ctes)} \cup UNION {TablesIn(n.q) : n \in SubLinks(q)}
WorldsOf(q) == SUBSET {row \in TrackedRows : row[1] \in TablesIn(q)}

(* A database: a world, or everything with its tokens.                     *)
Annotated == [all |-> TRUE, world |-> TrackedRows, ctes |-> <<>>]
In(w) == [all |-> FALSE, world |-> w, ctes |-> <<>>]

TableRows(db, n) ==
  LET rows == Schema[n].rows
      There == SelectSeq([i \in DOMAIN rows |-> i],
                         LAMBDA i : ~ Schema[n].tracked \/ <<Schema[n].from, i>> \in db.world)
  IN  Each(There, LAMBDA i : IF Schema[n].tracked
                               THEN Append(rows[i], IF db.all THEN Input(Schema[n].from, i) ELSE NULL)
                               ELSE rows[i])

(* Aggregate-typed expressions: an aggregate token, a column of a subquery *)
(* that holds one, arithmetic over them.                                   *)
RECURSIVE IsAggToken(_, _)
IsAggToken(e, rt) ==
  CASE e.op = "var" -> /\ e.x[3] = 0 /\ e.x[1] \in DOMAIN rt /\ rt[e.x[1]].k = "sub"
                       /\ LET sub == rt[e.x[1]].q
                          IN  /\ e.x[2] <= Len(Visible(sub))
                              /\ IsAggToken(Visible(sub)[e.x[2]].e, sub.rt)
    [] e.op \in {"provenance_aggregate", "provenance_arith"} -> TRUE
    [] OTHER -> FALSE

-----------------------------------------------------------------------------
(* Three-valued logic and scalar operators.                                *)
Not3(a) == IF a = NULL THEN NULL ELSE ~ a
And3(S) == IF FALSE \in S THEN FALSE ELSE IF NULL \in S THEN NULL ELSE TRUE
Or3(S)  == IF TRUE \in S THEN TRUE ELSE IF NULL \in S THEN NULL ELSE FALSE

get_negator(f) == CASE f = "=" -> "<>" [] f = "<>" -> "=" [] f = "<" -> ">="
                    [] f = ">=" -> "<" [] f = ">" -> "<=" [] f = "<=" -> ">"

get_commutator(f) == CASE f = "<" -> ">" [] f = ">" -> "<" [] f = "<=" -> ">="
                       [] f = ">=" -> "<=" [] OTHER -> f

Plus3(a, b) == IF TooMany \in {a, b} THEN TooMany ELSE IF NULL \in {a, b} THEN NULL ELSE a + b

Distinct(s) == FoldLeft(LAMBDA a, v : IF v \in Mem(a) THEN a ELSE Append(a, v), <<>>, s)

(* External: PostgreSQL.  A frame is the group of joined rows an expression *)
(* is evaluated over, a joined row has the row of every range-table entry, *)
(* and env is the stack of frames, the innermost query last.               *)
RECURSIVE Ev(_, _, _), EvalQuery(_, _, _), JoinRows(_, _, _, _, _), Bind(_, _)

Bind(e, row) ==
  IF e.op = "param" THEN Const(row[e.x[1]])
  ELSE [e EXCEPT !.args = Each(@, LAMBDA a : Bind(a, row))]

(* The rows of the frame an aggregate takes, and its argument over them.   *)
Taken(e, n, env, db) ==
  LET frame == env[Len(env)]
      with(r) == [env EXCEPT ![Len(env)] = <<r>>]
  IN  IF Len(e.args) = n THEN frame
      ELSE SelectSeq(frame, LAMBDA r : Ev(e.args[n + 1], with(r), db) = TRUE)

Ev(e, env, db) ==
  LET A(i) == Ev(e.args[i], env, db)
      S == {A(i) : i \in DOMAIN e.args}
      over(arg, r) == Ev(arg, [env EXCEPT ![Len(env)] = <<r>>], db)
  IN
  CASE e.op = "var" -> env[Len(env) - e.x[3]][1][e.x[1]][e.x[2]]
    [] e.op = "const" -> e.x[1]
    [] e.op = "true" -> TRUE
    [] e.op \in Comparisons -> Compare(e.op, A(1), A(2))
    [] e.op = "not distinct" -> A(1) = A(2)
    [] e.op = "and" -> And3(S)
    [] e.op = "or" -> Or3(S)
    [] e.op = "not" -> Not3(A(1))
    [] e.op = "isnull" -> A(1) = NULL
    [] e.op = "notnull" -> A(1) # NULL
    [] e.op = "+" -> Plus3(A(1), A(2))
    [] e.op = "-" -> IF NULL \in {A(1), A(2)} THEN NULL ELSE A(1) - A(2)
    [] e.op = "count indicator" -> IF A(1) = NULL THEN 0 ELSE 1
    [] e.op = "agg" ->
         LET vals == Each(Taken(e, e.x[3], env, db),
                          LAMBDA r : IF e.x[3] = 0 THEN 1 ELSE over(e.args[1], r))
         IN  AggregateOf(e.x[1], IF e.x[2] THEN Distinct(vals) ELSE vals)
    [] e.op = "sublink" ->
         LET rows == EvalQuery(e.q, env, db)
             tests == {Ev(Bind(e.args[1], rows[i]), env, db) : i \in DOMAIN rows}
         IN  (CASE e.x[1] = "EXISTS" -> rows # <<>>
                [] e.x[1] = "EXPR" -> (CASE Len(rows) = 0 -> NULL
                                         [] Len(rows) = 1 -> rows[1][1] [] OTHER -> TooMany)
                [] e.x[1] = "ARRAY" -> Each(rows, LAMBDA r : r[1])
                [] e.x[1] = "ANY" -> Or3(tests)
                [] e.x[1] = "ALL" -> And3(tests))
    (* the provenance functions *)
    [] e.op = "gate_one" -> gate_one
    [] e.op = "provenance_times" -> provenance_times(Each(e.args, LAMBDA a : Ev(a, env, db)))
    [] e.op = "provenance_plus" -> provenance_plus(Each(e.args, LAMBDA a : Ev(a, env, db)))
    [] e.op = "provenance_monus" -> provenance_monus(A(1), A(2))
    [] e.op = "provenance_delta" -> provenance_delta(A(1))
    [] e.op = "assume_boolean" -> Gate("assumed", <<>>, <<A(1)>>)
    [] e.op = "provenance_project" -> provenance_project(A(1), e.x)
    [] e.op = "provenance_eq" -> provenance_eq(A(1), e.x[1], e.x[2])
    [] e.op = "array_plus" -> provenance_plus(Each(Taken(e, 1, env, db), LAMBDA r : over(e.args[1], r)))
    [] e.op = "provenance_aggregate" ->
         provenance_aggregate(e.x[1], A(3),
           Each(env[Len(env)], LAMBDA r : provenance_semimod(over(e.args[1], r), over(e.args[2], r))),
           e.x[2])
    [] e.op = "provenance_arith" -> IF A(1) = NULL \/ A(2) = NULL THEN NULL
                                    ELSE Gate("arith", <<"+">>, <<A(1), A(2)>>)
    [] e.op = "provenance_semimod" -> provenance_semimod(A(1), gate_one)
    [] e.op = "provenance_cmp" -> provenance_cmp(A(1), e.x[1], A(2))
    [] e.op = "provenance_cmp_times" ->
         provenance_cmp_times(A(1), Each(Tail(e.args), LAMBDA a : Ev(a, env, db)))
    [] e.op = "regular_indicator" -> IF A(1) = TRUE THEN gate_one ELSE gate_zero
    [] e.op = "nonzero" -> A(1) # gate_zero

EntryRows(r, env, db) ==
  CASE r.k = "rel" -> TableRows(db, r.name)
    [] r.k = "sub" -> EvalQuery(r.q, env, db)
    [] r.k = "cte" -> LET named == CHOOSE c \in Mem(db.ctes) : c.name = r.name IN named.rows
    [] OTHER -> <<<<>>>>

RECURSIVE RefsOf(_)
RefsOf(jt) == IF jt.j = "ref" THEN {jt.n} ELSE RefsOf(jt.l) \cup RefsOf(jt.r)

EntryWidth(r) == IF r.k = "rel" /\ Schema[r.name].tracked THEN Width(r) + 1 ELSE Width(r)
Padded(ctx, rt, jt) ==
  [n \in DOMAIN ctx |-> IF n \in RefsOf(jt) THEN [i \in 1..EntryWidth(rt[n]) |-> NULL] ELSE ctx[n]]

(* The joined rows of a join tree that extend a joined row.                *)
JoinRows(jt, ctx, rt, env, db) ==
  IF jt.j = "ref"
    THEN Each(EntryRows(rt[jt.n], Append(env, <<ctx>>), db),
              LAMBDA row : [ctx EXCEPT ![jt.n] = row])
    ELSE LET ls == JoinRows(jt.l, ctx, rt, env, db)
             on(c) == Ev(jt.on, Append(env, <<c>>), db) = TRUE
             matches(l) == SelectSeq(JoinRows(jt.r, l, rt, env, db), on)
             matched == FlattenSeq(Each(ls, matches))
             left == SelectSeq(ls, LAMBDA l : matches(l) = <<>>)
             rs == JoinRows(jt.r, ctx, rt, env, db)
             right == SelectSeq(rs, LAMBDA r : \A i \in DOMAIN matched :
                                  \E n \in RefsOf(jt.r) : matched[i][n] # r[n])
         IN  matched
             \o (IF jt.j \in {"LEFT", "FULL"} THEN Each(left, LAMBDA l : Padded(l, rt, jt.r)) ELSE <<>>)
             \o (IF jt.j \in {"RIGHT", "FULL"} THEN Each(right, LAMBDA r : Padded(r, rt, jt.l)) ELSE <<>>)

(* Set operations.  EXCEPT ALL is the documented one: a row equal to one   *)
(* of the right goes away, with all its copies.                            *)
RECURSIVE SetRows(_, _, _, _)
SetRows(s, rt, env, db) ==
  IF s.op = "leaf" THEN EntryRows(rt[s.n], Append(env, <<<<>>>>), db)
  ELSE LET l == SetRows(s.l, rt, env, db)
           r == SetRows(s.r, rt, env, db)
           both == CASE s.op = "UNION" -> l \o r
                     [] s.op = "EXCEPT" -> SelectSeq(l, LAMBDA x : x \notin Mem(r))
       IN  IF s.all THEN both ELSE Distinct(both)

Groups(rows, key(_)) ==
  LET keys == Distinct(Each(rows, key))
  IN  Each(keys, LAMBDA k : SelectSeq(rows, LAMBDA r : key(r) = k))

(* The rows a recursive common table expression reaches.                   *)
RECURSIVE Fixpoint(_, _, _, _)
Fixpoint(cte, rows, env, db) ==
  LET next == Distinct(rows \o EvalQuery(cte.q, env,
                         [db EXCEPT !.ctes = Append(@, [name |-> cte.name, rows |-> rows])]))
  IN  IF next = rows THEN rows ELSE Fixpoint(cte, next, env, db)

WithCtes(q, env, db) ==
  FoldLeft(LAMBDA d, c : [d EXCEPT !.ctes = Append(@,
              [name |-> c.name,
               rows |-> IF c.recursive THEN Fixpoint(c, <<>>, env, d) ELSE EvalQuery(c.q, env, d)])],
           db, q.ctes)

EvalQuery(q, env, db0) ==
  LET db == WithCtes(q, env, db0)
      start == [i \in 1..Len(q.rt) |-> <<>>]
      joined == FoldLeft(LAMBDA cs, jt : FlattenSeq(Each(cs, LAMBDA c : JoinRows(jt, c, q.rt, env, db))),
                         <<start>>, q.from)
      at(c, e) == Ev(e, Append(env, <<c>>), db)
      rows == IF q.set.op = "none" THEN SelectSeq(joined, LAMBDA c : at(c, q.where) = TRUE)
              ELSE Each(SetRows(q.set, q.rt, env, db), LAMBDA r : <<r>>)
      frames == IF q.group # <<>>
                  THEN Groups(rows, LAMBDA c : Each(q.group, LAMBDA g : at(c, q.tl[g].e)))
                ELSE IF hasAggs(q) THEN <<rows>>
                ELSE Each(rows, LAMBDA c : <<c>>)
      kept == SelectSeq(frames, LAMBDA f : Ev(q.having, Append(env, f), db) = TRUE)
      out == Each(kept, LAMBDA f : Each(Visible(q), LAMBDA t : Ev(t.e, Append(env, f), db)))
  IN  IF q.distinct THEN Distinct(out) ELSE out
=============================================================================
