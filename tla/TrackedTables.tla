---------------------------- MODULE TrackedTables ----------------------------
(***************************************************************************)
(* What the sessions of TableTracking compute by recursion, and what the   *)
(* tables mean: the classifier of queries and the rows of a query, the     *)
(* leaves of a token and the rewriting of one, the contents of the tables  *)
(* as the statements replayed give them, and the properties that relate    *)
(* the tokens to them.                                                     *)
(***************************************************************************)
EXTENDS TableTracking

-----------------------------------------------------------------------------
(* The leaves a token is built of: what identifies rows, and the random    *)
(* variables it depends on (the alternatives of a block share their key).  *)
RECURSIVE RowLeaves(_), Variables(_)
RowLeaves(t) ==
  CASE t.gate \in {"input", "mulinput"} -> {t}
    [] t.gate = "update" -> {}
    [] OTHER -> UNION {RowLeaves(c) : c \in Mem(t.children)}

Variables(t) ==
  IF t.gate \in {"input", "update"} THEN {t} ELSE UNION {Variables(c) : c \in Mem(t.children)}

(* Tokens that cannot hold together: alternatives of one block.            *)
Exclusive(a, b) == a.gate = "mulinput" /\ b.gate = "mulinput" /\ a.children = b.children /\ a # b

(* Whether a token holds when every row leaf does, and of the data         *)
(* modifications those numbered in W.  A row without a token is certain.   *)
RECURSIVE HoldsWith(_, _)
HoldsWith(t, W) ==
  CASE t = NULL -> TRUE
    [] t.gate \in {"input", "mulinput", "one"} -> TRUE
    [] t.gate = "zero" -> FALSE
    [] t.gate = "update" -> t.info[1] \in W
    [] t.gate = "times" -> \A c \in Mem(t.children) : HoldsWith(c, W)
    [] t.gate = "plus" -> \E c \in Mem(t.children) : HoldsWith(c, W)
    [] t.gate = "delta" -> HoldsWith(t.children[1], W)
    [] t.gate = "monus" -> HoldsWith(t.children[1], W) /\ ~HoldsWith(t.children[2], W)

-----------------------------------------------------------------------------
(* undo(): the circuit of a token with the data modification c taken back  *)
(* by u.  Every gate that is not an input or an update is built anew, under *)
(* a random identifier, whether it mentions c or not, and without what the *)
(* old gate carried; "place" tells the identifiers apart.                  *)
RECURSIVE replace_the_circuit(_, _, _, _)
replace_the_circuit(x, c, u, place) ==
  IF x = c THEN provenance_monus(c, u)
  ELSE IF x.gate \in {"update", "input"} THEN x
  ELSE Gate(x.gate, u.info \o place, Each(x.children, LAMBDA y : replace_the_circuit(y, c, u, place)))

(* replace_update(): the circuit of a token over another gate; a token     *)
(* that does not mention the old one is left as it is.                     *)
RECURSIVE substitute_gate(_, _, _, _)
substitute_gate(x, old, new, place) ==
  IF x = old THEN new
  ELSE IF x.gate \in {"input", "update", "zero", "one"} THEN x
  ELSE LET rewritten == Each(x.children, LAMBDA y : substitute_gate(y, old, new, place))
       IN  IF rewritten = x.children THEN x ELSE Gate(x.gate, new.info \o place, rewritten)

-----------------------------------------------------------------------------
(* The classifier of queries: from what is recorded of the tables a query  *)
(* reads, whether the rows it returns are independent ("tid"), independent *)
(* across blocks and exclusive within one ("bid"), or neither can be       *)
(* certified ("opaque").  It is shown to the user, and CREATE TABLE AS     *)
(* records it of the new table.                                            *)
(*                                                                         *)
(* A query has a range table, the trees of its FROM list, the features     *)
(* that alter the lineage of rows, a target list of columns, the columns   *)
(* it groups by, and a tree of set operations.  "lookup" is what the       *)
(* backend knows of each relation.                                         *)

Uncertified == [kind |-> "opaque", sources |-> <<>>]

RECURSIVE classify_fromlist_shape_ok(_)
classify_fromlist_shape_ok(n) ==
  \/ n.tree = "ref"
  \/ n.tree = "inner" /\ \A a \in Mem(n.args) : classify_fromlist_shape_ok(a)

(* Every tracked relation reached, subqueries entered, and whether all     *)
(* shapes on the way keep the lineage of rows.                             *)
RECURSIVE classify_walk(_, _)
classify_walk(q, lookup) ==
  LET entry(rte) ==
        CASE rte.kind = "relation" ->
               [ok |-> TRUE, sources |-> IF Recorded(lookup[rte.rel]) THEN <<rte.rel>> ELSE <<>>]
          [] rte.kind = "subquery" -> classify_walk(rte.q, lookup)
          [] rte.kind = "join" -> [ok |-> TRUE, sources |-> <<>>]
          [] OTHER -> [ok |-> FALSE, sources |-> <<>>]
      walked == Each(q.rtable, entry)
  IN  [ok |-> /\ q.features = {} /\ q.group = <<>> /\ q.setop = NoTree
              /\ \A n \in Mem(q.from) : classify_fromlist_shape_ok(n)
              /\ \A w \in Mem(walked) : w.ok,
       sources |-> FlattenSeq(Each(walked, LAMBDA w : w.sources))]

(* The subqueries of a tree of UNION ALLs; nothing for another tree.       *)
RECURSIVE collect_union_all_legs(_, _)
collect_union_all_legs(n, q) ==
  CASE n.tree = "ref" /\ q.rtable[n.no].kind = "subquery" -> <<q.rtable[n.no].q>>
    [] n.tree = "union all" ->
         LET legs == Each(n.args, LAMBDA a : collect_union_all_legs(a, q))
         IN  IF <<>> \in Mem(legs) THEN <<>> ELSE FlattenSeq(legs)
    [] OTHER -> <<>>

try_classify_multi_source_tid(sources, lookup) ==
  /\ Len(sources) >= 2
  /\ \A i \in DOMAIN sources : lookup[sources[i]].kind = "tid"
  /\ \A i, j \in DOMAIN sources :
       i < j => AncestorsOf(sources[i], lookup) \cap AncestorsOf(sources[j], lookup) = {}

(* The base relation and column a column comes from, through subqueries.   *)
NoBase == <<"", 0>>
RECURSIVE resolve_var_to_base(_, _)
resolve_var_to_base(q, c) ==
  IF c = Expression THEN NoBase
  ELSE LET rte == q.rtable[c.no]
       IN  CASE rte.kind = "relation" -> <<rte.rel, c.att>>
             [] rte.kind = "subquery" /\ c.att \in DOMAIN rte.q.target ->
                  resolve_var_to_base(rte.q, rte.q.target[c.att])
             [] OTHER -> NoBase

bid_block_key_preserved(q, r, info) ==
  \A bk \in Mem(info.key) : \E c \in Mem(q.target) : resolve_var_to_base(q, c) = <<r, bk>>

(* GROUP BY exactly the key of the blocks of one table: a row for a block. *)
try_classify_groupby_block_key(q, lookup) ==
  /\ q.group # <<>> /\ q.features = {} /\ q.setop = NoTree
  /\ Len(q.from) = 1 /\ q.from[1].tree = "ref"
  /\ LET no == q.from[1].no
         rte == q.rtable[no]
     IN  /\ rte.kind = "relation"
         /\ lookup[rte.rel].kind = "bid" /\ lookup[rte.rel].key # <<>>
         /\ \A g \in Mem(q.group) : g.no = no
         /\ {g.att : g \in Mem(q.group)} = Mem(lookup[rte.rel].key)

RECURSIVE provsql_classify_query(_, _)

(* Legs that are each certified independent, over distinct relations.      *)
try_classify_union_all(q, lookup) ==
  LET legs == collect_union_all_legs(q.setop, q)
      each == Each(legs, LAMBDA leg : provsql_classify_query(leg, lookup))
      reached == FlattenSeq(Each(each, LAMBDA c : c.sources))
  IN  IF legs # <<>> /\ (\A c \in Mem(each) : c.kind = "tid") /\ Cardinality(Mem(reached)) = Len(reached)
      THEN [kind |-> "tid", sources |-> reached] ELSE Uncertified

provsql_classify_query(q, lookup) ==
  LET union == try_classify_union_all(q, lookup)
      walk == classify_walk(q, lookup)
      sole == walk.sources[Len(walk.sources)]
      info == lookup[sole]
      kind == CASE ~walk.ok -> "opaque"
                [] walk.sources = <<>> -> "tid"
                [] Len(walk.sources) = 1 ->
                     IF info.kind = "bid" /\ ~bid_block_key_preserved(q, sole, info)
                     THEN "opaque" ELSE info.kind
                [] OTHER -> IF try_classify_multi_source_tid(walk.sources, lookup) THEN "tid" ELSE "opaque"
  IN  IF q.setop # NoTree /\ union.kind = "tid" THEN union
      ELSE IF try_classify_groupby_block_key(q, lookup)
           THEN [kind |-> "tid", sources |-> <<q.rtable[q.from[1].no].rel>>]
      ELSE [kind |-> kind, sources |-> walk.sources]

RECURSIVE RelationsOf(_)
RelationsOf(q) ==
  UNION {CASE e.kind = "relation" -> {e.rel} [] e.kind = "subquery" -> RelationsOf(e.q) [] OTHER -> {}
           : e \in Mem(q.rtable)}

-----------------------------------------------------------------------------
(* The rows of a query, with the tokens its rewriting gives them: products *)
(* for joined rows, sums for grouped ones.                                 *)
RECURSIVE RefsOf(_), RowsOf(_, _)
RefsOf(n) == IF n.tree = "ref" THEN <<n.no>> ELSE FlattenSeq(Each(n.args, RefsOf))

RowsOf(q, h) ==
  LET rte(no) == IF q.rtable[no].kind = "subquery" THEN RowsOf(q.rtable[no].q, h)
                 ELSE h.rel[q.rtable[no].rel].rows
      refs == FlattenSeq(Each(q.from, RefsOf))
      Joined(part, rows) == FlattenSeq(Each(part, LAMBDA p : Each(rows, LAMBDA row : Append(p, row))))
      value(p, c) == IF c = Expression THEN 0 ELSE p[CHOOSE i \in DOMAIN refs : refs[i] = c.no].vals[c.att]
      Kept(p) == \A e \in q.equal : value(p, e[1]) = value(p, e[2])
      rows == Each(SelectSeq(FoldLeft(Joined, <<<<>>>>, Each(refs, rte)), Kept),
                   LAMBDA p : Row(Each(q.target, LAMBDA c : value(p, c)),
                                  provenance_times(Each(p, LAMBDA row : row.tok))))
      groups == SetToSeq({row.vals : row \in Mem(rows)})
      Grouped(v) == Row(v, provenance_plus(Each(SelectSeq(rows, LAMBDA row : row.vals = v),
                                                LAMBDA row : row.tok)))
  IN  IF q.setop # NoTree THEN FlattenSeq(Each(RefsOf(q.setop), rte))
      ELSE IF q.group # <<>> THEN Each(groups, Grouped) ELSE rows

-----------------------------------------------------------------------------
(* The temporal functions: a leaf is valid from its instant in the log on, *)
(* a row when its token evaluates so over sets of instants.                *)
ValidAt(h, t) == {g \in DOMAIN h.log : h.log[g].from <= t}
sr_temporal(h, tok, t) == HoldsWith(tok, ValidAt(h, t))
timetravel(h, r, t) == SelectSeq(h.rel[r].rows, LAMBDA row : sr_temporal(h, row.tok, t))

-----------------------------------------------------------------------------
(* The reference: what the statements asked for, replayed in order, when   *)
(* of the recorded data modifications those in W happened.  The update     *)
(* gate g, as the statement i of the history knew it, counts unless a      *)
(* later undo of it counts; once it is replaced another gate decides.      *)
RECURSIVE Counts(_, _, _, _)
Counts(hist, i, g, W) ==
  LET later == {j \in (i + 1)..Len(hist) : hist[j].op \in {"undo", "replace"} /\ hist[j].to = g}
      replaced == {j \in later : hist[j].op = "replace"}
      undone == {j \in later \ replaced : \A k \in replaced : j < k}
  IN  /\ IF replaced = {} THEN g \in W ELSE Counts(hist, Min(replaced), hist[Min(replaced)].ev, W)
      /\ \A j \in undone : ~Counts(hist, j, hist[j].ev, W)

Happened(hist, i, W) ==
  hist[i].ev = 0 \/ (Counts(hist, i, hist[i].ev, W) /\ Counts(hist, i, hist[i].tx, W))

Replay(h, W) ==
  LET Values(i) ==
        LET counting == {g \in DOMAIN h.log : Counts(h.hist, i, g, W)}
            there == SelectSeq(h.hist[i].rows, LAMBDA row : HoldsWith(row.tok, counting))
        IN  [k \in DOMAIN there |-> there[k].vals]
      Step(db, i) ==
        LET e == h.hist[i]
            Set(v) == IF v[2] \in e.cond /\ e.to # 0 THEN <<v[1], e.to>> ELSE v
        IN  CASE e.op \in {"undo", "replace"} -> db
              [] e.op = "enter" -> [db EXCEPT ![e.rel] = Values(i)]
              [] ~Happened(h.hist, i, W) -> db
              [] e.op = "insert" -> [db EXCEPT ![e.rel] = @ \o Values(i)]
              [] e.op = "delete" -> [db EXCEPT ![e.rel] = SelectSeq(@, LAMBDA v : v[2] \notin e.cond)]
              [] e.op = "update" -> [db EXCEPT ![e.rel] = [k \in DOMAIN @ |-> Set(@[k])]]
  IN  FoldLeft(Step, [r \in Rels |-> <<>>], [i \in 1..Len(h.hist) |-> i])

(* Bags: how often each list of values occurs.                             *)
BagOf(values) == [v \in Mem(values) |-> Cardinality({i \in DOMAIN values : values[i] = v})]
ValuesOf(rows) == [i \in DOMAIN rows |-> rows[i].vals]

(* The tables whose tokens tell their rows apart.                          *)
Told(h, r) == h.rel[r].col /\ ~h.rel[r].mixed /\ NULL \notin Tokens(h.rel[r].rows)

Contents(h) ==
  LET db == Replay(h, DOMAIN h.log)
  IN  [r \in {q \in Rels : Told(h, q) /\ ~h.rel[q].plain} |-> BagOf(db[r])]

-----------------------------------------------------------------------------
(* The rows of a tracked table and their tokens are the statements         *)
(* replayed, whichever of the recorded data modifications are taken to     *)
(* have happened: what the three statement triggers and undo() write into  *)
(* the tokens, row by row and token by token, is what INSERT, UPDATE,      *)
(* DELETE and taking one of them back mean.                                *)
ContentIsReplay ==
  \A W \in SUBSET DOMAIN heap.log :
    LET db == Replay(heap, W)
    IN  \A r \in Rels :
          Told(heap, r) =>
            BagOf(db[r]) =
            BagOf(ValuesOf(SelectSeq(heap.rel[r].rows, LAMBDA row : HoldsWith(row.tok, W))))

(* A query on a table as it was at an instant returns what another session *)
(* saw committed then, whatever has been recorded, undone or rolled back   *)
(* since: stamp_commit_time moves a transaction's modifications from its   *)
(* start to its commit.                                                    *)
PastReads ==
  \A t \in DOMAIN seen : \A r \in DOMAIN seen[t] :
    Told(Committed, r) /\ ~Committed.rel[r].plain =>
      BagOf(ValuesOf(timetravel(Committed, r, t))) = seen[t][r]

(* After replace_update has put another gate in the place of a recorded    *)
(* modification, the past does not read as it was.                         *)
PastStands == (\A e \in Mem(Committed.hist) : e.op # "replace") => PastReads

(* Every leaf in the tokens of a table with a maintained mapping, however  *)
(* its rows were modified since, has one value in the mapping: guard,      *)
(* triggers and replacements keep it current.  An alternative of a block   *)
(* has one until an undo(), which builds it anew.  Removing and adding the *)
(* provenance of the table, which no scenario does, leaves its leaves out. *)
MappingsFollow ==
  \A m \in Mappings :
    LET mapping == heap.map[m]
        r == mapping.source
        Kept(leaf) == leaf.gate = "input" \/ \A e \in Mem(heap.hist) : e.op # "undo"
    IN  mapping.exists /\ mapping.maintained /\ mapping.whole /\ heap.rel[r].col
        /\ ~heap.rel[r].foreign =>
          \A row \in Mem(heap.rel[r].rows) : \A leaf \in RowLeaves(row.tok) :
            Kept(leaf) => Cardinality({c \in mapping.cells : c[1] = leaf}) = 1

(* What the classifier certifies of the rows of a query holds of them: the *)
(* rows of a "tid" result depend on no common variable, those of a "bid"   *)
(* result with one key are exclusive and the others depend on none.  Rows  *)
(* joined from several tables combine independent rows.                    *)
Apart(a, b) == Variables(a) \cap Variables(b) = {}

Sound(q, is, h) ==
  LET rows == RowsOf(q, h)
      key == h.info[is.sources[1]].key
      places == {i \in DOMAIN q.target : \E a \in Mem(key) : resolve_var_to_base(q, q.target[i]) = <<is.sources[1], a>>}
      SameBlock(i, j) == \A p \in places : rows[i].vals[p] = rows[j].vals[p]
      joined == Len(is.sources) > 1 /\ q.setop = NoTree
  IN  \A i, j \in DOMAIN rows : i < j \/ (joined /\ i = j) =>
        CASE is.kind = "tid" /\ joined ->
               i = j => \A a, b \in DOMAIN rows[i].tok.children :
                          a < b => Apart(rows[i].tok.children[a], rows[i].tok.children[b])
          [] is.kind = "tid" /\ ~joined -> Apart(rows[i].tok, rows[j].tok)
          [] is.kind = "bid" ->
               IF SameBlock(i, j) THEN Exclusive(rows[i].tok, rows[j].tok) ELSE Apart(rows[i].tok, rows[j].tok)
          [] OTHER -> TRUE

CertifiedKindHolds ==
  \A q \in Queries :
    (\A r \in RelationsOf(q) : /\ Recorded(heap.info[r])
                               /\ heap.info[r].kind = "bid" => ~heap.rel[r].plain)
    => Sound(q, provsql_classify_query(q, heap.info), heap)
=============================================================================
