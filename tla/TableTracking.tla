---------------------------- MODULE TableTracking ----------------------------
(***************************************************************************)
(* Two sessions on a database with tables whose rows carry provenance.     *)
(* One changes the tables in transactions that commit or roll back; the    *)
(* other plans queries against what is committed, from records it may have *)
(* cached.                                                                 *)
(*                                                                         *)
(* The operations are add_provenance, remove_provenance, repair_key,       *)
(* CREATE TABLE AS, DROP TABLE and provenance mappings; INSERT, UPDATE and *)
(* DELETE with the guard trigger that watches the column "provsql" and the *)
(* statement triggers that record them; undo() and the replacements of     *)
(* gates; and provsql.table_info, the record of how independent the rows   *)
(* of each table are.  Each takes the state a transaction sees and returns *)
(* the one it leaves: a record with                                        *)
(*   rel      the relations: rows, whether each has the column provsql,    *)
(*            the guard and the statement triggers, and its declared keys  *)
(*   info     provsql.table_info                                           *)
(*   map      the mapping tables, and what the registry knows of them      *)
(*   log      provsql.update_provenance, by update gate                    *)
(*   setting  the session's provsql.update_provenance                      *)
(*   tx       the update gate of the transaction, 0 before there is one    *)
(*   fresh    the replacement leaves the transaction has minted            *)
(*   touched  the relations whose cached records it has invalidated        *)
(*   n        the identifiers minted so far                                *)
(*   hist     what has been asked for, in order: a history variable        *)
(***************************************************************************)
EXTENDS ProvenanceCircuit

CONSTANTS
  Relations,     \* the tables, in the order undo() walks them
  Mappings,      \* names of mapping tables
  Scenarios,     \* the databases the behaviours start from, each with how many
                 \* statements that define or modify things, and plans, follow
  Targets,       \* tables statements are issued on
  Derived,       \* names CREATE TABLE AS gives
  Deletes,       \* the WHERE of DELETE: sets of values of the second column
  Updates,       \* the WHERE of UPDATE, with the value it sets
  NewRows,       \* rows INSERT ... VALUES puts in, as lists of rows
  Queries        \* the queries CREATE TABLE AS and the reader run

(* What is computed by recursion over a query or a token; TrackedTables    *)
(* defines them.                                                           *)
CONSTANTS
  Reads(_),                  \* the relations a query reads
  Answer(_, _),              \* the rows of a query on a database
  Classified(_, _),          \* its kind and sources, by what is known of the relations
  LeavesOf(_),               \* the row leaves of a token
  TakenBack(_, _, _, _),     \* a token with a data modification undone
  Substituted(_, _, _, _),   \* a token with a data modification replaced
  ContentsOf(_)              \* the contents of the tables of a database

Mem(s) == {s[i] : i \in DOMAIN s}
Each(s, F(_)) == LET r == [i \in DOMAIN s |-> F(s[i])] IN SubSeq(r, 1, Len(s))

(* The tables, and the temporary copy that makes a mapping.                *)
Temporary == "tmp_provsql"
Rels == Mem(Relations) \cup {Temporary}

(* The rows of a list that are in X.                                       *)
Picked(rows, X) == FoldLeft(LAMBDA kept, row : IF row \in X THEN Append(kept, row) ELSE kept, <<>>, rows)

NoInfo == [kind |-> "none", key |-> <<>>, ancestors |-> {}]
Recorded(i) == i.kind # "none"

NoTree == [tree |-> "none", no |-> 0, args |-> <<>>]
Ref(no) == [tree |-> "ref", no |-> no, args |-> <<>>]
Tree(op, a, b) == [tree |-> op, no |-> 0, args |-> <<a, b>>]

(* The column att of the range-table entry no.                             *)
Column(no, att) == [no |-> no, att |-> att]
Expression == [no |-> 0, att |-> 0]      \* any target that is not a column

-----------------------------------------------------------------------------
(* Tables and their tracking.                                              *)

Row(vals, tok) == [vals |-> vals, tok |-> tok]
Tokens(rows) == {rows[i].tok : i \in DOMAIN rows}

(* "mixed": rows of the relation share a token, or took one from a         *)
(* relation where they do.  "plain": its rows were changed with the data   *)
(* modification left unrecorded.  "foreign": it took rows with the tokens  *)
(* of another relation.  All three are history.                            *)
Absent == [exists |-> FALSE, rows |-> <<>>, col |-> FALSE, guard |-> FALSE, stmt |-> FALSE, keys |-> {},
           mixed |-> FALSE, plain |-> FALSE, foreign |-> FALSE]
Table(rows) == [Absent EXCEPT !.exists = TRUE, !.rows = rows]

(* A mapping table and its line in the registry.  "whole": every token was *)
(* a leaf when the mapping was made, which is history.                     *)
NoMapping == [exists |-> FALSE, source |-> "", maintained |-> FALSE, cells |-> {}, whole |-> FALSE]

(* An entry of the history: what was asked of a relation, the rows that    *)
(* came in, or those it was about (their second column is in "cond") and   *)
(* what the column became, and the update gates that stand for the         *)
(* statement and its transaction (0: it is not recorded).                  *)
Asked(op, rel, rows, cond, to, ev, tx) ==
  [op |-> op, rel |-> rel, rows |-> rows, cond |-> cond, to |-> to, ev |-> ev, tx |-> tx]
Note(h, entry) == [h EXCEPT !.hist = Append(@, entry)]

(* Whether the tokens of a relation still tell its rows apart.             *)
Mix(h, r) ==
  [h EXCEPT !.rel[r].mixed = @ \/ Cardinality(Tokens(h.rel[r].rows)) < Len(h.rel[r].rows)]

(* The databases there are: the rows of a table are a list, the column     *)
(* "provsql" and the guard are those of a table that exists, and no key is *)
(* declared on the temporary copy.                                         *)
IsList(s) ==
  /\ IsFiniteSet(DOMAIN s) /\ DOMAIN s = 1..Cardinality(DOMAIN s)
  /\ s = [i \in DOMAIN s |-> s[i]]

RelationOK(t) ==
  /\ DOMAIN t = {"exists", "rows", "col", "guard", "stmt", "keys", "mixed", "plain", "foreign"}
  /\ IsList(t.rows)
  /\ t.col \/ t.guard => t.exists

HeapOK(h) ==
  /\ DOMAIN h = {"rel", "info", "map", "log", "setting", "tx", "fresh", "touched", "n", "hist"}
  /\ DOMAIN h.rel = Rels /\ DOMAIN h.info = Rels
  /\ \A r \in Rels : RelationOK(h.rel[r])
  /\ h.rel[Temporary].keys = {}

ASSUME TablesAssumption ==
  /\ IsList(Relations) /\ Temporary \notin Mem(Relations)
  /\ Targets \cup Derived \subseteq Mem(Relations)
  /\ \A rows \in NewRows : IsList(rows)
  /\ \A sc \in Scenarios : HeapOK(sc.heap)

-----------------------------------------------------------------------------
(* provsql.table_info.  Every write invalidates the record the backends    *)
(* cached of the relation, through a row trigger.                          *)
provsql_table_info_invalidate_Missed(h, r) == h

provsql_table_info_invalidate(h, r) ==
  IF h.rel[r].exists THEN [h EXCEPT !.touched = @ \cup {r}] ELSE h

set_table_info(h, r, kind, key) ==
  provsql_table_info_invalidate([h EXCEPT !.info[r] = [@ EXCEPT !.kind = kind, !.key = key]], r)

set_ancestors(h, r, ancestors) ==
  IF Recorded(h.info[r])
  THEN provsql_table_info_invalidate([h EXCEPT !.info[r].ancestors = ancestors], r) ELSE h

remove_table_info(h, r) ==
  IF Recorded(h.info[r]) THEN provsql_table_info_invalidate([h EXCEPT !.info[r] = NoInfo], r) ELSE h

(* DDL on a relation invalidates what is cached of it as well.             *)
AlterTable(h, r) == [h EXCEPT !.touched = @ \cup {r}]

-----------------------------------------------------------------------------
(* The guard: a row that comes without a token gets a leaf of its own,     *)
(* which the maintained mappings of the table record; a token that is      *)
(* supplied or changed makes the table opaque, unless it is a replacement  *)
(* leaf of this transaction, which takes over the cells of the old one.    *)
MappingsOf(h, r) == {m \in DOMAIN h.map : h.map[m].source = r}

(* A supplied token is trusted.                                            *)
GuardInsert_Trusting(h, r, row) ==
  IF row.tok = NULL THEN [h |-> [h EXCEPT !.n = @ + 1], row |-> Row(row.vals, InputGate(h.n))]
  ELSE [h |-> h, row |-> row]

GuardInsert(h, r, row) ==
  LET leaf == InputGate(h.n)
      maps == [m \in DOMAIN h.map |->
                 IF m \in MappingsOf(h, r) /\ h.map[m].maintained
                 THEN [h.map[m] EXCEPT !.cells = @ \cup {<<leaf, row.vals[2]>>}] ELSE h.map[m]]
  IN  IF row.tok = NULL THEN [h |-> [h EXCEPT !.n = @ + 1, !.map = maps], row |-> Row(row.vals, leaf)]
      ELSE [h |-> set_table_info(h, r, "opaque", <<>>), row |-> row]

(* A replacement leaf does not take the cells of the old one.              *)
GuardUpdate_NotCarried(h, r, old, new) ==
  IF new = old \/ new \in h.fresh THEN h ELSE set_table_info(h, r, "opaque", <<>>)

GuardUpdate(h, r, old, new) ==
  LET maps == [m \in DOMAIN h.map |->
                 IF m \in MappingsOf(h, r)
                 THEN [h.map[m] EXCEPT !.cells = @ \cup {<<new, c[2]>> : c \in {d \in @ : d[1] = old}}]
                 ELSE h.map[m]]
  IN  IF new = old THEN h
      ELSE IF new \in h.fresh THEN [h EXCEPT !.map = maps]
      ELSE set_table_info(h, r, "opaque", <<>>)

(* Rows put into a table; "UPDATE r SET provsql = new WHERE provsql = old",  *)
(* which changes every row that carries the token, for a list of such      *)
(* pairs; and the guard of an UPDATE, row by row.                          *)
InsertRow(h, r, row) ==
  IF h.rel[r].guard
  THEN LET g == GuardInsert(h, r, row) IN [g.h EXCEPT !.rel[r].rows = Append(@, g.row)]
  ELSE [h EXCEPT !.rel[r].rows = Append(@, row)]

InsertRows(h, r, rows) == FoldLeft(LAMBDA g, row : InsertRow(g, r, row), h, rows)

SetToken(h, r, old, new) ==
  LET rows == h.rel[r].rows
      hit == {i \in DOMAIN rows : rows[i].tok = old}
      changed == Each(rows, LAMBDA row : IF row.tok = old THEN Row(row.vals, new) ELSE row)
      watched == IF h.rel[r].guard THEN GuardUpdate(h, r, old, new) ELSE h
  IN  IF hit = {} \/ old = NULL THEN h ELSE [watched EXCEPT !.rel[r].rows = changed]

SetTokens(h, r, pairs) == FoldLeft(LAMBDA g, p : SetToken(g, r, p[1], p[2]), h, pairs)
GuardUpdates(h, r, pairs) == FoldLeft(LAMBDA g, p : GuardUpdate(g, r, p[1], p[2]), h, pairs)

-----------------------------------------------------------------------------
(* add_provenance: a leaf for every row, the three statement triggers, and *)
(* a record of independent rows with the table its own ancestor.  Nothing  *)
(* when the table has the column already.                                  *)
add_provenance(h, r) ==
  LET rows == [i \in DOMAIN h.rel[r].rows |-> Row(h.rel[r].rows[i].vals, InputGate(h.n + i))]
      tracked == [AlterTable(h, r) EXCEPT
                    !.n = @ + Len(rows) + 1,
                    !.rel[r] = [@ EXCEPT !.rows = SubSeq(rows, 1, Len(rows)), !.col = TRUE, !.guard = TRUE,
                                         !.stmt = TRUE, !.mixed = FALSE, !.plain = FALSE, !.foreign = FALSE]]
      noted == Note(tracked, Asked("enter", r, tracked.rel[r].rows, {}, 0, 0, 0))
  IN  IF h.rel[r].col THEN h ELSE set_ancestors(set_table_info(noted, r, "tid", <<>>), r, {r})

(* remove_provenance: the record, the guard, the column and the statement  *)
(* triggers.  The rows stay, those a recorded DELETE had left included.    *)
remove_provenance(h, r) ==
  LET unrecorded == remove_table_info(h, r)
      rows == Each(h.rel[r].rows, LAMBDA row : Row(row.vals, NULL))
  IN  IF ~h.rel[r].col THEN unrecorded
      ELSE [AlterTable(unrecorded, r) EXCEPT
              !.rel[r] = [@ EXCEPT !.rows = rows, !.col = FALSE, !.guard = FALSE, !.stmt = FALSE]]

(* repair_key: the rows with one key are alternatives of one block.  The   *)
(* table gets the guard and no statement trigger; it fails on a table that *)
(* has the column.                                                         *)
repair_key(h, r, key) ==
  LET old == h.rel[r].rows
      KeyOf(row) == Each(key, LAMBDA a : row.vals[a])
      keys == SetToSeq({KeyOf(old[i]) : i \in DOMAIN old})
      KeyGate(row) == InputGate(h.n + CHOOSE j \in DOMAIN keys : keys[j] = KeyOf(row))
      rows == [i \in DOMAIN old |-> Row(old[i].vals, MulInputGate(h.n + Len(keys) + i, KeyGate(old[i])))]
      tracked == [AlterTable(h, r) EXCEPT
                    !.n = @ + Len(keys) + Len(rows) + 1,
                    !.rel[r] = [@ EXCEPT !.rows = SubSeq(rows, 1, Len(rows)), !.col = TRUE, !.guard = TRUE,
                                         !.stmt = FALSE, !.mixed = FALSE, !.plain = FALSE, !.foreign = FALSE]]
      noted == Note(tracked, Asked("enter", r, tracked.rel[r].rows, {}, 0, 0, 0))
  IN  set_ancestors(set_table_info(noted, r, "bid", key), r, {r})

(* DROP TABLE, and the event trigger that forgets the record and the       *)
(* mappings of the table.                                                  *)
cleanup_table_info(h, r) ==
  LET unrecorded == remove_table_info(h, r)
      maps == [m \in DOMAIN h.map |->
                 IF m \in MappingsOf(h, r)
                 THEN [h.map[m] EXCEPT !.source = "", !.maintained = FALSE] ELSE h.map[m]]
  IN  [unrecorded EXCEPT !.map = maps]

DropTable(h, r) == cleanup_table_info([AlterTable(h, r) EXCEPT !.rel[r] = Absent], r)

(* A key declared on a table: a primary key, or a unique one whose columns *)
(* may be null.                                                            *)
AddKey(h, r, cols, notnull) ==
  [AlterTable(h, r) EXCEPT !.rel[r].keys = @ \cup {[cols |-> cols, notnull |-> notnull]}]

-----------------------------------------------------------------------------
(* What a backend remembers of each relation, until the relation is        *)
(* invalidated: its record, its ancestors, and its keys that cannot be     *)
(* null.                                                                   *)
Unread == <<>>
EmptyCache(rels) == [info |-> [r \in rels |-> Unread], ancestry |-> [r \in rels |-> Unread],
                     keys |-> [r \in rels |-> Unread]]

provsql_fetch_table_info(h, r) == <<h.info[r].kind, h.info[r].key>>
provsql_fetch_ancestry(h, r) == <<h.info[r].ancestors>>
fetch_relation_keys(h, r) == <<{k.cols : k \in {l \in h.rel[r].keys : l.notnull}}>>

Read(known, rels, Fetch(_)) ==
  [r \in DOMAIN known |-> IF r \in rels /\ known[r] = Unread THEN Fetch(r) ELSE known[r]]

provsql_lookup_table_info(c, h, rels) ==
  [c EXCEPT !.info = Read(@, rels, LAMBDA r : provsql_fetch_table_info(h, r))]
provsql_lookup_ancestry(c, h, rels) ==
  [c EXCEPT !.ancestry = Read(@, rels, LAMBDA r : provsql_fetch_ancestry(h, r))]
provsql_lookup_relation_keys(c, h, rels) ==
  [c EXCEPT !.keys = Read(@, rels, LAMBDA r : fetch_relation_keys(h, r))]

(* The three callbacks on the invalidation of a relation.                  *)
Invalidate(c, rels) ==
  LET Forget(known) == [r \in DOMAIN known |-> IF r \in rels THEN Unread ELSE known[r]]
  IN  [info |-> Forget(c.info), ancestry |-> Forget(c.ancestry), keys |-> Forget(c.keys)]

(* What a cache says of the relations a classification looks up.           *)
Known(c) ==
  [r \in DOMAIN c.info |->
     IF c.info[r] = Unread THEN NoInfo
     ELSE [kind |-> c.info[r][1], key |-> c.info[r][2],
           ancestors |-> IF c.ancestry[r] = Unread THEN {} ELSE c.ancestry[r][1]]]

(* A classification, and the cache it leaves: the records of the relations *)
(* of the query, and the ancestors of its tracked ones.                    *)
ClassifyWith(c, h, q) ==
  LET read == provsql_lookup_table_info(c, h, Reads(q))
      tracked == {r \in Reads(q) : read.info[r][1] # "none"}
      full == provsql_lookup_ancestry(read, h, tracked)
  IN  [cache |-> full, is |-> Classified(q, Known(full))]

-----------------------------------------------------------------------------
(* The ancestors of a source, itself when none are known.                  *)
AncestorsOf(r, lookup) == IF lookup[r].ancestors = {} THEN {r} ELSE lookup[r].ancestors

HasProvenance(q, h) == \E r \in Reads(q) : h.rel[r].col

(* CREATE TABLE AS.  The hook records the new table when the query selects *)
(* the column of a recorded table by name ("provsql" lists the entries it  *)
(* is selected from) and is certified: the kind is inherited, a block key  *)
(* follows its columns to their new places or the blocks are given up.     *)
SourcesNamed(q, h, known) ==
  SelectSeq(q.provsql, LAMBDA no : /\ q.rtable[no].kind = "relation"
                                   /\ h.rel[q.rtable[no].rel].col
                                   /\ known[q.rtable[no].rel].kind \in {"tid", "bid"})

provsql_ProcessUtility_capture(q, h, classified) ==
  LET named == SourcesNamed(q, h, Known(classified.cache))
  IN  IF classified.is.kind = "opaque" \/ named = <<>> THEN <<>>
      ELSE LET source == q.rtable[named[1]].rel
               known == Known(classified.cache)
           IN  <<[kind |-> classified.is.kind, source |-> source, key |-> known[source].key,
                  ancestors |-> UNION {AncestorsOf(r, known) : r \in Mem(classified.is.sources)}]>>

AlignedKey(q, cap) ==
  Each(cap.key, LAMBDA a :
         LET places == {i \in DOMAIN q.target :
                          /\ q.target[i].att = a
                          /\ q.rtable[q.target[i].no].kind = "relation"
                          /\ q.rtable[q.target[i].no].rel = cap.source}
         IN  IF places = {} THEN 0 ELSE Min(places))

provsql_ProcessUtility_apply(h, d, q, cap) ==
  LET key == AlignedKey(q, cap)
      blocks == cap.kind = "bid" /\ 0 \notin Mem(key)
      kind == IF cap.kind = "bid" /\ ~blocks THEN "tid" ELSE cap.kind
      recorded == set_ancestors(set_table_info(h, d, kind, IF blocks THEN key ELSE <<>>), d, cap.ancestors)
  IN  [AlterTable(recorded, d) EXCEPT !.rel[d].guard = TRUE]

provsql_ProcessUtility(h, c, d, q) ==
  LET classified == ClassifyWith(c, h, q)
      cap == provsql_ProcessUtility_capture(q, h, classified)
      table == [Table(Answer(q, h)) EXCEPT
                  !.col = HasProvenance(q, h),
                  !.mixed = \E r \in Reads(q) : h.rel[r].mixed,
                  !.plain = \E r \in Reads(q) : h.rel[r].plain]
      made == Mix([AlterTable(h, d) EXCEPT !.rel[d] = table], d)
      noted == Note(made, Asked("enter", d, table.rows, {}, 0, 0, 0))
  IN  [cache |-> classified.cache,
       h |-> IF cap = <<>> \/ ~table.col THEN noted
             ELSE provsql_ProcessUtility_apply(noted, d, q, cap[1])]

(* create_provenance_mapping: the second column of every row, by token,    *)
(* through a temporary copy of the table.  The copy is a CREATE TABLE AS   *)
(* of a tracked table like any other until its column is renamed.          *)
WholeTable(r) ==
  [rtable |-> <<[kind |-> "relation", rel |-> r]>>, from |-> <<Ref(1)>>, features |-> {},
   target |-> <<Column(1, 1), Column(1, 2)>>, group |-> <<>>, equal |-> {}, setop |-> NoTree,
   provsql |-> <<1>>]

WithMapping(copied, m, mapping) ==
  [copied EXCEPT !.h.map[m] = mapping, !.h.rel[Temporary].col = FALSE]

create_provenance_mapping(h, c, m, r, maintained) ==
  LET rows == h.rel[r].rows
      clear == IF h.rel[Temporary].exists THEN DropTable(h, Temporary) ELSE h
      mapping == [exists |-> TRUE, source |-> r, maintained |-> maintained,
                  cells |-> {<<row.tok, row.vals[2]>> : row \in Mem(rows)},
                  whole |-> \A row \in Mem(rows) : row.tok # NULL /\ LeavesOf(row.tok) = {row.tok}]
  IN  IF h.map[m].exists THEN [h |-> h, cache |-> c]
      ELSE WithMapping(provsql_ProcessUtility(clear, c, Temporary, WholeTable(r)), m, mapping)

(* The commit takes the temporary copy away: no event trigger runs.        *)
DropTemporary(h) == [h EXCEPT !.rel[Temporary] = Absent]

-----------------------------------------------------------------------------
(* INSERT, UPDATE and DELETE on tables that carry provenance, recorded in  *)
(* provsql.update_provenance and in the tokens of the rows instead of      *)
(* being carried out for good; undo() and the replacements of gates.       *)
(* "now" is the transaction's CURRENT_TIMESTAMP.                           *)

(* The beginning of time: what stands for a transaction is always valid.   *)
Always == -1

LogRow(kind, from, tx) == [kind |-> kind, from |-> from, tx |-> tx]
Log(h, gate, row) == [h EXCEPT !.log = (gate :> row) @@ @]

(* The update gate of the transaction, minted by its first recorded        *)
(* statement.                                                              *)
transaction_token(h) ==
  IF h.tx # 0 THEN h
  ELSE [Log(h, h.n, LogRow("TRANSACTION", Always, 0)) EXCEPT !.tx = h.n, !.n = @ + 1]

(* A statement in the log: its own gate, that of its transaction, and the  *)
(* product of both, which is its effect on a row.                          *)
LogStatement_Alone(h, kind, now) ==
  LET g == transaction_token([h EXCEPT !.n = @ + 1])
  IN  [h |-> Log(g, h.n, LogRow(kind, now, g.tx)), gate |-> h.n, effect |-> UpdateGate(h.n)]

LogStatement(h, kind, now) ==
  LET g == transaction_token([h EXCEPT !.n = @ + 1])
  IN  [h |-> Log(g, h.n, LogRow(kind, now, g.tx)), gate |-> h.n,
       effect |-> provenance_times(<<UpdateGate(g.tx), UpdateGate(h.n)>>)]

(* At commit the rows the transaction logged get the instant of the commit *)
(* instead of that of its start.                                           *)
stamp_commit_time_Start(h, logged, now) == h

stamp_commit_time(h, logged, now) ==
  [h EXCEPT !.log = [g \in DOMAIN @ |-> IF g \in logged /\ @[g].kind # "TRANSACTION"
                                        THEN [@[g] EXCEPT !.from = now] ELSE @[g]]]

Records(h, r) == h.rel[r].stmt /\ h.setting = "on"

(* The tokens of a list of rows, each multiplied by an effect, or with the *)
(* effect taken away, one UPDATE ... WHERE provsql = the old token a row.  *)
Multiply(h, r, rows, effect) ==
  SetTokens(h, r, [i \in DOMAIN rows |-> <<rows[i].tok, provenance_times(<<rows[i].tok, effect>>)>>])
TakeAway(h, r, rows, effect) ==
  SetTokens(h, r, [i \in DOMAIN rows |-> <<rows[i].tok, provenance_monus(rows[i].tok, effect)>>])

(* The statement triggers.  While they write, the setting is off, so that  *)
(* their own statements are not recorded.                                  *)
insert_statement_trigger(h, r, new, now) ==
  LET e == LogStatement(h, "INSERT", now)
  IN  [e EXCEPT !.h = Multiply(e.h, r, new, e.effect)]

delete_statement_trigger(h, r, old, now) ==
  LET e == LogStatement(h, "DELETE", now)
  IN  [e EXCEPT !.h = TakeAway(InsertRows(e.h, r, old), r, old, e.effect)]

update_statement_trigger(h, r, old, new, now) ==
  LET e == LogStatement(h, "UPDATE", now)
  IN  [e EXCEPT !.h = TakeAway(InsertRows(Multiply(e.h, r, new, e.effect), r, old), r, old, e.effect)]

-----------------------------------------------------------------------------
(* The statements.  Rows come with a token (that of a tracked source) or   *)
(* without.                                                                *)
InsertStatement(h, r, rows, now) ==
  LET before == Len(h.rel[r].rows)
      put == InsertRows(h, r, rows)
      new == SubSeq(put.rel[r].rows, before + 1, Len(put.rel[r].rows))
      e == insert_statement_trigger(put, r, new, now)
  IN  IF Records(h, r) THEN Mix(Note(e.h, Asked("insert", r, new, {}, 0, e.gate, e.h.tx)), r)
      ELSE Mix(Note([put EXCEPT !.rel[r].plain = TRUE], Asked("insert", r, new, {}, 0, 0, 0)), r)

Matching(h, r, cond) == {row \in Mem(h.rel[r].rows) : row.vals[2] \in cond}
Matched(h, r, cond) == Picked(h.rel[r].rows, Matching(h, r, cond))

DeleteStatement(h, r, cond, now) ==
  LET old == Matched(h, r, cond)
      gone == [h EXCEPT !.rel[r].rows = Picked(@, Mem(@) \ Matching(h, r, cond))]
      e == delete_statement_trigger(gone, r, old, now)
  IN  IF Records(h, r) THEN Mix(Note(e.h, Asked("delete", r, <<>>, cond, 0, e.gate, e.h.tx)), r)
      ELSE Note([gone EXCEPT !.rel[r].plain = TRUE], Asked("delete", r, <<>>, cond, 0, 0, 0))

(* UPDATE r SET v = to, provsql = token[provsql] on the rows "old": the    *)
(* guard sees the change of a token before the statement trigger runs.     *)
UpdateRows(h, r, old, cond, to, token, now) ==
  LET Value(row) == <<row.vals[1], IF to = 0 THEN row.vals[2] ELSE to>>
      Changed(row) == IF row \in Mem(old) THEN Row(Value(row), token[row.tok]) ELSE row
      pairs == [i \in DOMAIN old |-> <<old[i].tok, token[old[i].tok]>>]
      guarded == IF h.rel[r].guard THEN GuardUpdates(h, r, pairs) ELSE h
      put == [guarded EXCEPT !.rel[r].rows = Each(@, Changed)]
      e == update_statement_trigger(put, r, old, Each(old, Changed), now)
  IN  IF Records(h, r) THEN Mix(Note(e.h, Asked("update", r, <<>>, cond, to, e.gate, e.h.tx)), r)
      ELSE Mix(Note([put EXCEPT !.rel[r].plain = @ \/ to # 0], Asked("update", r, <<>>, cond, to, 0, 0)), r)

UpdateStatement(h, r, cond, to, now) ==
  UpdateRows(h, r, Matched(h, r, cond), cond, to, [t \in Tokens(h.rel[r].rows) |-> t], now)

(* INSERT ... SELECT * FROM a table: the tokens of a tracked source go to  *)
(* a target that has the column, and are dropped otherwise.                *)
process_insert_select(h, target, source) ==
  LET rows == h.rel[source].rows
  IN  IF h.rel[source].col /\ h.rel[target].col THEN rows
      ELSE Each(rows, LAMBDA row : Row(row.vals, NULL))

InsertSelect(h, target, source, now) ==
  LET g == InsertStatement(h, target, process_insert_select(h, target, source), now)
  IN  [g EXCEPT !.rel[target].mixed = @ \/ h.rel[source].mixed, !.rel[target].foreign = TRUE]

-----------------------------------------------------------------------------
(* A walk over every row of every table with the column: each token with   *)
(* the data modification "old" taken back by "new", or replaced by it,     *)
(* written where it is found.                                              *)
Rewritten(op, tok, old, new, place) ==
  IF op = "undo" THEN TakenBack(tok, old, new, place) ELSE Substituted(tok, old, new, place)

RewriteTable(h, r, k, op, old, new) ==
  LET rows == h.rel[r].rows
  IN  SetTokens(h, r, [i \in DOMAIN rows |-> <<rows[i].tok, Rewritten(op, rows[i].tok, old, new, <<k, i>>)>>])

RewriteTables(h, order, op, old, new) ==
  FoldLeft(LAMBDA g, k : IF g.rel[order[k]].col THEN RewriteTable(g, order[k], k, op, old, new) ELSE g,
           h, [k \in DOMAIN order |-> k])

(* undo() takes back a statement, a transaction, or another undo.  It      *)
(* fails on a row without a token, and leaves the setting on.              *)
CanUndo(h, c) ==
  /\ c \in DOMAIN h.log
  /\ \A r \in DOMAIN h.rel : h.rel[r].col => NULL \notin Tokens(h.rel[r].rows)

undo(h, c, order, now) ==
  LET e == LogStatement(h, "UNDO", now)
      walked == RewriteTables(e.h, order, "undo", UpdateGate(c), UpdateGate(e.gate))
  IN  Note([walked EXCEPT !.setting = "on"], Asked("undo", "", <<>>, {}, c, e.gate, 0))

(* replace_update() puts a gate with another probability in the place of a *)
(* recorded data modification.                                             *)
replace_update(h, old, order, now) ==
  LET e == LogStatement(h, "REPLACE", now)
      walked == RewriteTables(e.h, order, "replace", UpdateGate(old), UpdateGate(e.gate))
  IN  Note([walked EXCEPT !.setting = "on"], Asked("replace", "", <<>>, {}, old, e.gate, 0))

(* UPDATE r SET provsql = replace_input(provsql, p): a replacement leaf for *)
(* each row, numbered as the rows are.  It fails on a token that is not an *)
(* input gate.                                                             *)
CanReplaceInputs(h, r, cond) ==
  /\ Matched(h, r, cond) # <<>>
  /\ \A row \in Mem(Matched(h, r, cond)) : row.tok # NULL /\ row.tok.gate = "input"
  /\ Cardinality(Tokens(h.rel[r].rows)) = Len(h.rel[r].rows)

replace_input(h, r, cond, now) ==
  LET toks == Each(h.rel[r].rows, LAMBDA row : row.tok)
      old == Matched(h, r, cond)
      New == [t \in Mem(toks) |-> InputGate(h.n + CHOOSE i \in DOMAIN toks : toks[i] = t)]
      minted == [h EXCEPT !.n = @ + Len(toks) + 1, !.fresh = @ \cup {New[t] : t \in Tokens(old)}]
  IN  UpdateRows(minted, r, old, cond, 0, New, now)

(* replace_block(): a new key gate and a new alternative for every row of  *)
(* a block.                                                                *)
BlockRows(h, r, key) ==
  LET of == {row \in Mem(h.rel[r].rows) :
               row.tok # NULL /\ row.tok.gate = "mulinput" /\ row.tok.children = <<key>>}
  IN  Picked(h.rel[r].rows, of)

replace_block(h, r, key, now) ==
  LET rows == h.rel[r].rows
      block == BlockRows(h, r, key)
      New == [t \in Tokens(block) |->
                MulInputGate(h.n + CHOOSE i \in DOMAIN rows : rows[i].tok = t, InputGate(h.n))]
      minted == [h EXCEPT !.n = @ + Len(rows) + 1, !.fresh = @ \cup {New[t] : t \in Tokens(block)}]
  IN  UpdateRows(minted, r, block, {}, 0, New, now)

-----------------------------------------------------------------------------
(* The two sessions *)

Writer == "writer"
Reader == "reader"

VARIABLES
  heap,       \* what the writer's transaction sees (see TableTracking)
  tx,         \* its transaction: open, its start, what it found, what it invalidated
  clock,      \* instants: one for the start and the end of a transaction
  seen,       \* the contents of the tables that were committed at each instant
  cache,      \* what each session remembers of the relations
  pending,    \* invalidations the reader has not processed
  planning,   \* whether the reader has begun to plan a query
  left        \* how many definitions, modifications and plans are left

vars == <<heap, tx, clock, seen, cache, pending, planning, left>>

Committed == IF tx.open THEN tx.saved ELSE heap

-----------------------------------------------------------------------------
EmptyHeap(tables) ==
  [rel |-> [r \in Rels |-> IF r \in DOMAIN tables
                           THEN Table([i \in DOMAIN tables[r] |-> Row(tables[r][i], NULL)]) ELSE Absent],
   info |-> [r \in Rels |-> NoInfo], map |-> [m \in Mappings |-> NoMapping],
   log |-> <<>>, setting |-> "off", tx |-> 0, fresh |-> {}, touched |-> {}, n |-> 1, hist |-> <<>>]

NoTransaction == [open |-> FALSE, start |-> 0, saved |-> <<>>, touched |-> {}]

Init ==
  /\ \E sc \in Scenarios : heap = sc.heap /\ left = sc.left
  /\ tx = NoTransaction
  /\ clock = 1 /\ seen = <<ContentsOf(heap)>>
  /\ cache = [s \in {Writer, Reader} |-> EmptyCache(Rels)]
  /\ pending = {} /\ planning = FALSE

(* A statement of the writer, in its open transaction or a new one, which  *)
(* leaves the database h and the session's cache c.                        *)
Now == IF tx.open THEN tx.start ELSE clock + 1
Here == [heap EXCEPT !.touched = {}]

Statement(h, c) ==
  /\ heap' = h
  /\ tx' = [open |-> TRUE, start |-> Now, saved |-> Committed, touched |-> tx.touched \cup h.touched]
  /\ cache' = [cache EXCEPT ![Writer] = Invalidate(c, h.touched)]
  /\ clock' = IF tx.open THEN clock ELSE clock + 1
  /\ seen' = IF tx.open THEN seen ELSE Append(seen, seen[clock])
  /\ UNCHANGED <<pending, planning>>

Definition(h, c) ==
  left.definitions > 0 /\ left' = [left EXCEPT !.definitions = @ - 1] /\ Statement(h, c)
Define(h) == Definition(h, cache[Writer])
Modify(h) ==
  left.modifications > 0 /\ left' = [left EXCEPT !.modifications = @ - 1] /\ Statement(h, cache[Writer])

AddProvenance(r) == heap.rel[r].exists /\ ~heap.rel[r].col /\ Define(add_provenance(Here, r))
RemoveProvenance(r) == heap.rel[r].exists /\ heap.rel[r].col /\ Define(remove_provenance(Here, r))
RepairKey(r) == heap.rel[r].exists /\ ~heap.rel[r].col /\ Define(repair_key(Here, r, <<1>>))
DeclareKey(r, notnull) ==
  heap.rel[r].exists /\ heap.rel[r].keys = {} /\ Define(AddKey(Here, r, <<1>>, notnull))
Drop(r) == heap.rel[r].exists /\ Define(DropTable(Here, r))

CreateTableAs(d, q) ==
  /\ ~heap.rel[d].exists /\ \A r \in Reads(q) : heap.rel[r].exists
  /\ \E made \in {provsql_ProcessUtility(Here, cache[Writer], d, q)} : Definition(made.h, made.cache)

CreateMapping(m, r, maintained) ==
  /\ heap.rel[r].exists /\ heap.rel[r].col /\ ~heap.map[m].exists
  /\ \E made \in {create_provenance_mapping(Here, cache[Writer], m, r, maintained)} :
       Definition(made.h, made.cache)

Switch == Define([Here EXCEPT !.setting = IF @ = "on" THEN "off" ELSE "on"])

Insert(r, rows) ==
  heap.rel[r].exists /\ Modify(InsertStatement(Here, r, [i \in DOMAIN rows |-> Row(rows[i], NULL)], Now))
InsertFrom(r, s) ==
  r # s /\ heap.rel[r].exists /\ heap.rel[s].exists /\ Modify(InsertSelect(Here, r, s, Now))
Delete(r, cond) == heap.rel[r].exists /\ Modify(DeleteStatement(Here, r, cond, Now))
Update(r, cond, to) == heap.rel[r].exists /\ Modify(UpdateStatement(Here, r, cond, to, Now))

Undo(c) == CanUndo(heap, c) /\ Modify(undo(Here, c, Relations, Now))
ReplaceUpdate(c) == CanUndo(heap, c) /\ Modify(replace_update(Here, c, Relations, Now))
ReplaceInputs(r, cond) ==
  heap.rel[r].col /\ CanReplaceInputs(heap, r, cond) /\ Modify(replace_input(Here, r, cond, Now))
ReplaceBlock(r) ==
  /\ heap.rel[r].col
  /\ \E row \in Mem(heap.rel[r].rows) :
       /\ row.tok # NULL /\ row.tok.gate = "mulinput"
       /\ Modify(replace_block(Here, r, row.tok.children[1], Now))

(* The end of the transaction.  The rows it logged are stamped, and the    *)
(* other session is told what it invalidated.                              *)
Entered(h, from) == {h.hist[i].rel : i \in {j \in (from + 1)..Len(h.hist) : h.hist[j].op = "enter"}}

Commit ==
  LET logged == DOMAIN heap.log \ DOMAIN tx.saved.log
      stamped == stamp_commit_time(DropTemporary(heap), logged, clock + 1)
      done == [stamped EXCEPT !.tx = 0, !.fresh = {}, !.touched = {}]
      new == Entered(heap, Len(tx.saved.hist))
      past == [t \in DOMAIN seen |-> [r \in DOMAIN seen[t] \ new |-> seen[t][r]]]
  IN  /\ tx.open
      /\ heap' = done /\ tx' = NoTransaction
      /\ clock' = clock + 1 /\ seen' = Append(past, ContentsOf(done))
      /\ pending' = pending \cup tx.touched
      /\ UNCHANGED <<cache, planning, left>>

Rollback ==
  /\ tx.open
  /\ heap' = tx.saved /\ tx' = NoTransaction
  /\ cache' = [cache EXCEPT ![Writer] = Invalidate(@, tx.touched)]
  /\ UNCHANGED <<clock, seen, pending, planning, left>>

(* The reader locks the relations of its query, which makes it process the *)
(* invalidations that have reached it; then it looks them up.              *)
StartPlanning ==
  /\ ~planning /\ left.plans > 0
  /\ planning' = TRUE /\ left' = [left EXCEPT !.plans = @ - 1]
  /\ cache' = [cache EXCEPT ![Reader] = Invalidate(@, pending)]
  /\ pending' = {}
  /\ UNCHANGED <<heap, tx, clock, seen>>

Plan(q) ==
  /\ planning /\ \A r \in Reads(q) : Committed.rel[r].exists
  /\ LET read == ClassifyWith(cache[Reader], Committed, q).cache
     IN  cache' = [cache EXCEPT ![Reader] = provsql_lookup_relation_keys(read, Committed, Reads(q))]
  /\ planning' = FALSE
  /\ UNCHANGED <<heap, tx, clock, seen, pending, left>>

Next ==
  \/ \E r \in Targets : AddProvenance(r)
  \/ \E r \in Targets : RemoveProvenance(r)
  \/ \E r \in Targets : RepairKey(r)
  \/ \E r \in Targets, b \in BOOLEAN : DeclareKey(r, b)
  \/ \E d \in Derived : Drop(d)
  \/ \E d \in Derived, q \in Queries : CreateTableAs(d, q)
  \/ \E m \in Mappings, r \in Targets, b \in BOOLEAN : CreateMapping(m, r, b)
  \/ Switch
  \/ \E r \in Targets \cup Derived, rows \in NewRows : Insert(r, rows)
  \/ \E r, s \in Targets \cup Derived : InsertFrom(r, s)
  \/ \E r \in Targets \cup Derived, cond \in Deletes : Delete(r, cond)
  \/ \E r \in Targets \cup Derived, u \in Updates : Update(r, u[1], u[2])
  \/ \E c \in DOMAIN heap.log : Undo(c)
  \/ \E c \in DOMAIN heap.log : ReplaceUpdate(c)
  \/ \E r \in Targets, cond \in Deletes : ReplaceInputs(r, cond)
  \/ \E r \in Targets : ReplaceBlock(r)
  \/ Commit
  \/ Rollback
  \/ StartPlanning
  \/ \E q \in Queries : Plan(q)

Spec == Init /\ [][Next]_vars

-----------------------------------------------------------------------------
(* What a session remembers of a relation is what its transaction would    *)
(* read, but for invalidations on their way to it: the row trigger on      *)
(* provsql.table_info, the invalidations of DDL, the roll-back.            *)
CacheAgrees ==
  \A s \in {Writer, Reader} : \A r \in Rels :
    LET h == IF s = Writer THEN heap ELSE Committed
        c == cache[s]
    IN  \/ s = Reader /\ r \in pending
        \/ /\ c.info[r] \in {Unread, provsql_fetch_table_info(h, r)}
           /\ c.ancestry[r] \in {Unread, provsql_fetch_ancestry(h, r)}
           /\ c.keys[r] \in {Unread, fetch_relation_keys(h, r)}
=============================================================================
