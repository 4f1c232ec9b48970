------------------------- MODULE TableTrackingProofs -------------------------
(***************************************************************************)
(* What a session remembers of a relation is what its transaction would    *)
(* read, for every list of tables, every set of queries and every way of   *)
(* classifying them (TableTracking).                                       *)
(***************************************************************************)
EXTENDS TableTracking, FiniteSetTheorems, SequenceTheorems, TLAPS

HeapFields == {"rel", "info", "map", "log", "setting", "tx", "fresh", "touched", "n", "hist"}
RelationFields == {"exists", "rows", "col", "guard", "stmt", "keys", "mixed", "plain", "foreign"}

-----------------------------------------------------------------------------
(* Lists.                                                                  *)

(* A list is a sequence.                                                   *)
LEMMA ListIsSeq ==
    ASSUME NEW s, IsList(s)
    PROVE  /\ s \in Seq(Mem(s)) /\ Len(s) \in Nat
           /\ DOMAIN s = 1..Len(s)
<1>1. Cardinality(DOMAIN s) \in Nat
  BY FS_CardinalityType DEF IsList
<1> DEFINE n == Cardinality(DOMAIN s)
<1>2. DOMAIN s = 1..n /\ s = [i \in 1..n |-> s[i]]
  BY DEF IsList
<1>3. \A i \in DOMAIN s : s[i] \in Mem(s)
  BY DEF Mem
<1> HIDE DEF n
<1>4. s \in [1..n -> Mem(s)]
  BY <1>2, <1>3
<1>5. s \in Seq(Mem(s)) /\ Len(s) = n
  BY <1>1, <1>2, <1>4 DEF n
<1> QED BY <1>1, <1>2, <1>5 DEF n

(* A sequence is a list.                                                   *)
LEMMA SeqIsList ==
    ASSUME NEW S, NEW s \in Seq(S)
    PROVE  IsList(s)
<1> DEFINE n == Len(s)
<1>1. n \in Nat /\ DOMAIN s = 1..n /\ s = [i \in DOMAIN s |-> s[i]]
  OBVIOUS
<1> HIDE DEF n
<1>2. IsFiniteSet(1..n) /\ Cardinality(1..n) = n
  <2>1. IsFiniteSet(1..n) /\ Cardinality(1..n) = IF 1 > n THEN 0 ELSE n-1+1
    <3>1. n \in Int /\ 1 \in Int
      BY <1>1
    <3> QED BY <3>1, FS_Interval, Zenon
  <2> QED BY <1>1, <2>1
<1> QED BY <1>1, <1>2 DEF IsList

(* Any part of anything, as Each and the definitions of tables take it, is *)
(* a list.                                                                 *)
LEMMA SubSeqIsList ==
    ASSUME NEW f, NEW m \in Int, NEW n \in Int
    PROVE  IsList(SubSeq(f, m, n))
<1> DEFINE S == {f[i] : i \in m..n}
<1>1. \A i \in m..n : f[i] \in S
  OBVIOUS
<1> HIDE DEF S
<1>2. SubSeq(f, m, n) \in Seq(S)
  BY <1>1, SubSeqProperties
<1> QED BY <1>2, SeqIsList

(* A function on the indices of a list is a list.                          *)
LEMMA SameDomainIsList ==
    ASSUME NEW s, IsList(s), NEW f, f = [i \in DOMAIN s |-> f[i]]
    PROVE  IsList(f) /\ Len(f) = Len(s) /\ DOMAIN f = DOMAIN s
<1> DEFINE S == {f[i] : i \in DOMAIN s}
<1>1. f \in [DOMAIN s -> S]
  OBVIOUS
<1> HIDE DEF S
<1>2. DOMAIN s = 1..Len(s) /\ Len(s) \in Nat
  BY ListIsSeq
<1>3. f \in Seq(S) /\ Len(f) = Len(s)
  BY <1>1, <1>2
<1> QED BY <1>1, <1>3, SeqIsList

LEMMA AppendIsList ==
    ASSUME NEW s, IsList(s), NEW x
    PROVE  IsList(Append(s, x))
<1> DEFINE S == Mem(s) \cup {x}
<1>1. s \in Seq(S) /\ x \in S
  <2>1. s \in Seq(Mem(s)) /\ DOMAIN s = 1..Len(s) /\ Len(s) \in Nat
    BY ListIsSeq
  <2>2. \A i \in 1..Len(s) : s[i] \in S
    BY <2>1
  <2> QED BY <2>1, <2>2
<1> HIDE DEF S
<1>2. Append(s, x) \in Seq(S)
  BY <1>1
<1> QED BY <1>2, SeqIsList

LEMMA EmptyIsList == IsList(<<>>)
<1>1. <<>> \in Seq({})
  OBVIOUS
<1> QED BY <1>1, SeqIsList

-----------------------------------------------------------------------------
(* What an operation may leave behind it.                                  *)

(* Two databases say the same of a relation.                               *)
SameView(h, g, r) == g.info[r] = h.info[r] /\ g.rel[r].keys = h.rel[r].keys

(* An operation leads from one database to another, and whatever it        *)
(* changed of a record or of the keys of a relation, it invalidated.       *)
Covers(h, g) ==
  /\ HeapOK(g)
  /\ h.touched \subseteq g.touched
  /\ \A r \in Rels \ g.touched : SameView(h, g, r)

LEMMA CoversReflexive == ASSUME NEW h, HeapOK(h) PROVE Covers(h, h)
BY DEF Covers, SameView

LEMMA CoversTransitive ==
    ASSUME NEW h, NEW g, NEW k, Covers(h, g), Covers(g, k)
    PROVE  Covers(h, k)
BY DEF Covers, SameView

(* One relation is changed, and what is recorded of the invalidated ones.  *)
LEMMA CoversByParts ==
    ASSUME NEW h, HeapOK(h), NEW g, DOMAIN g = HeapFields,
           NEW r \in Rels, NEW t, RelationOK(t),
           g.rel = [h.rel EXCEPT ![r] = t],
           h.touched \subseteq g.touched,
           DOMAIN g.info = Rels, \A q \in Rels \ g.touched : g.info[q] = h.info[q],
           t.keys = h.rel[r].keys \/ (r \in g.touched /\ t.keys = {})
             \/ (r \in g.touched /\ r # Temporary)
    PROVE  Covers(h, g)
<1>1. DOMAIN g.rel = Rels /\ g.rel[r] = t /\ \A q \in Rels \ {r} : g.rel[q] = h.rel[q]
  BY DEF HeapOK
<1>2. \A q \in Rels : RelationOK(g.rel[q])
  BY <1>1 DEF HeapOK
<1>3. Temporary \in Rels
  BY DEF Rels
<1>4. g.rel[Temporary].keys = {}
  BY <1>1, <1>3 DEF HeapOK
<1>5. HeapOK(g)
  BY <1>1, <1>2, <1>4 DEF HeapOK, HeapFields
<1>6. \A q \in Rels \ g.touched : SameView(h, g, q)
  BY <1>1 DEF SameView
<1> QED BY <1>5, <1>6 DEF Covers

(* The relations stay as they are.                                         *)
LEMMA CoversAside ==
    ASSUME NEW h, HeapOK(h), NEW g, DOMAIN g = HeapFields,
           g.rel = h.rel, h.touched \subseteq g.touched,
           DOMAIN g.info = Rels, \A q \in Rels \ g.touched : g.info[q] = h.info[q]
    PROVE  Covers(h, g)
<1>1. HeapOK(g)
  BY DEF HeapOK, HeapFields
<1> QED BY <1>1 DEF Covers, SameView

(* The rows of a relation, and what its history tells, are changed.        *)
LEMMA CoversRelation ==
    ASSUME NEW h, HeapOK(h), NEW r \in Rels, NEW t,
           DOMAIN t = RelationFields, IsList(t.rows), t.keys = h.rel[r].keys,
           t.col \/ t.guard => t.exists
    PROVE  Covers(h, [h EXCEPT !.rel[r] = t])
<1> DEFINE g == [h EXCEPT !.rel[r] = t]
<1>1. RelationOK(t)
  BY DEF RelationOK, RelationFields
<1>2. DOMAIN g = HeapFields /\ g.rel = [h.rel EXCEPT ![r] = t] /\ g.touched = h.touched /\ g.info = h.info
  BY DEF HeapOK, HeapFields
<1>3. DOMAIN g.info = Rels
  BY <1>2 DEF HeapOK
<1> HIDE DEF g
<1>4. Covers(h, g)
  BY <1>1, <1>2, <1>3, CoversByParts
<1> QED BY <1>4 DEF g

LEMMA CoversRows ==
    ASSUME NEW h, HeapOK(h), NEW r \in Rels, NEW rows, IsList(rows)
    PROVE  Covers(h, [h EXCEPT !.rel[r].rows = rows])
<1> DEFINE t == [h.rel[r] EXCEPT !.rows = rows]
<1>1. RelationOK(h.rel[r])
  BY DEF HeapOK
<1>2. /\ DOMAIN t = RelationFields /\ t.rows = rows /\ t.keys = h.rel[r].keys
      /\ t.col \/ t.guard => t.exists
  BY <1>1 DEF RelationOK, RelationFields
<1>3. [h EXCEPT !.rel[r].rows = rows] = [h EXCEPT !.rel[r] = t]
  OBVIOUS
<1> HIDE DEF t
<1> QED BY <1>2, <1>3, CoversRelation

-----------------------------------------------------------------------------
(* provsql.table_info: a write to the record of a relation that exists, or *)
(* that is invalidated already, invalidates it.                            *)
Watched(h, r) == h.rel[r].exists \/ r \in h.touched

LEMMA InvalidateCovers ==
    ASSUME NEW h, HeapOK(h), NEW r \in Rels, Watched(h, r), NEW g, DOMAIN g = HeapFields,
           g.rel = h.rel, g.touched = h.touched, NEW i, g.info = [h.info EXCEPT ![r] = i]
    PROVE  LET k == provsql_table_info_invalidate(g, r)
           IN  Covers(h, k) /\ k.rel = h.rel /\ Watched(k, r)
<1> DEFINE k == provsql_table_info_invalidate(g, r)
<1>1. /\ DOMAIN k = HeapFields /\ k.rel = h.rel /\ k.info = g.info
      /\ k.touched = h.touched \cup (IF h.rel[r].exists THEN {r} ELSE {})
  BY DEF provsql_table_info_invalidate, HeapFields
<1> HIDE DEF k
<1>2. r \in k.touched
  BY <1>1 DEF Watched
<1>3. DOMAIN k.info = Rels /\ \A q \in Rels \ k.touched : k.info[q] = h.info[q]
  BY <1>1, <1>2 DEF HeapOK
<1>4. Covers(h, k)
  BY <1>1, <1>3, CoversAside
<1>5. Covers(h, k) /\ k.rel = h.rel /\ Watched(k, r)
  BY <1>1, <1>2, <1>4 DEF Watched
<1> QED BY <1>5 DEF k

LEMMA SetTableInfoCovers ==
    ASSUME NEW h, HeapOK(h), NEW r \in Rels, Watched(h, r), NEW kind, NEW key
    PROVE  LET k == set_table_info(h, r, kind, key)
           IN  Covers(h, k) /\ k.rel = h.rel /\ Watched(k, r)
<1> DEFINE i == [h.info[r] EXCEPT !.kind = kind, !.key = key]
           g == [h EXCEPT !.info[r] = i]
<1>1. DOMAIN g = HeapFields /\ g.rel = h.rel /\ g.touched = h.touched /\ g.info = [h.info EXCEPT ![r] = i]
  BY DEF HeapOK, HeapFields
<1>2. set_table_info(h, r, kind, key) = provsql_table_info_invalidate(g, r)
  BY DEF set_table_info
<1> HIDE DEF i, g
<1>3. LET k == provsql_table_info_invalidate(g, r)
      IN  Covers(h, k) /\ k.rel = h.rel /\ Watched(k, r)
  BY <1>1, InvalidateCovers
<1> QED BY <1>2, <1>3

LEMMA SetAncestorsCovers ==
    ASSUME NEW h, HeapOK(h), NEW r \in Rels, Watched(h, r), NEW ancestors
    PROVE  LET k == set_ancestors(h, r, ancestors)
           IN  Covers(h, k) /\ k.rel = h.rel /\ Watched(k, r)
<1> DEFINE i == [h.info[r] EXCEPT !.ancestors = ancestors]
           g == [h EXCEPT !.info[r] = i]
<1>1. DOMAIN g = HeapFields /\ g.rel = h.rel /\ g.touched = h.touched /\ g.info = [h.info EXCEPT ![r] = i]
  BY DEF HeapOK, HeapFields
<1>2. set_ancestors(h, r, ancestors) = IF Recorded(h.info[r]) THEN provsql_table_info_invalidate(g, r) ELSE h
  BY DEF set_ancestors
<1> HIDE DEF i, g
<1>3. LET k == provsql_table_info_invalidate(g, r)
      IN  Covers(h, k) /\ k.rel = h.rel /\ Watched(k, r)
  BY <1>1, InvalidateCovers
<1>4. Covers(h, h)
  BY CoversReflexive
<1> QED BY <1>2, <1>3, <1>4

LEMMA RemoveTableInfoCovers ==
    ASSUME NEW h, HeapOK(h), NEW r \in Rels, Watched(h, r)
    PROVE  LET k == remove_table_info(h, r)
           IN  Covers(h, k) /\ k.rel = h.rel /\ Watched(k, r)
<1> DEFINE g == [h EXCEPT !.info[r] = NoInfo]
<1>1. DOMAIN g = HeapFields /\ g.rel = h.rel /\ g.touched = h.touched /\ g.info = [h.info EXCEPT ![r] = NoInfo]
  BY DEF HeapOK, HeapFields
<1>2. remove_table_info(h, r) = IF Recorded(h.info[r]) THEN provsql_table_info_invalidate(g, r) ELSE h
  BY DEF remove_table_info
<1> HIDE DEF g
<1>3. LET k == provsql_table_info_invalidate(g, r)
      IN  Covers(h, k) /\ k.rel = h.rel /\ Watched(k, r)
  BY <1>1, InvalidateCovers
<1>4. Covers(h, h)
  BY CoversReflexive
<1> QED BY <1>2, <1>3, <1>4

LEMMA AlterTableCovers ==
    ASSUME NEW h, HeapOK(h), NEW r \in Rels
    PROVE  LET k == AlterTable(h, r)
           IN  Covers(h, k) /\ k.rel = h.rel /\ k.info = h.info /\ k.touched = h.touched \cup {r}
<1> DEFINE k == AlterTable(h, r)
<1>1. /\ DOMAIN k = HeapFields /\ k.rel = h.rel /\ k.info = h.info /\ k.touched = h.touched \cup {r}
  BY DEF AlterTable, HeapOK, HeapFields
<1> HIDE DEF k
<1>2. DOMAIN k.info = Rels
  BY <1>1 DEF HeapOK
<1>3. Covers(h, k)
  BY <1>1, <1>2, CoversAside
<1> QED BY <1>1, <1>3 DEF k

-----------------------------------------------------------------------------
(* The guard.                                                              *)
LEMMA GuardedExists ==
    ASSUME NEW h, HeapOK(h), NEW r \in Rels, h.rel[r].guard \/ h.rel[r].col
    PROVE  Watched(h, r)
BY DEF HeapOK, RelationOK, Watched

LEMMA GuardInsertCovers ==
    ASSUME NEW h, HeapOK(h), NEW r \in Rels, h.rel[r].guard, NEW row
    PROVE  Covers(h, GuardInsert(h, r, row).h)
<1>1. CASE row.tok = NULL
  <2>1. PICK maps : GuardInsert(h, r, row).h = [h EXCEPT !.n = @ + 1, !.map = maps]
    BY <1>1 DEF GuardInsert
  <2> DEFINE k == [h EXCEPT !.n = @ + 1, !.map = maps]
  <2>2. DOMAIN k = HeapFields /\ k.rel = h.rel /\ k.info = h.info /\ k.touched = h.touched
    BY DEF HeapOK, HeapFields
  <2> HIDE DEF k
  <2>3. DOMAIN k.info = Rels
    BY <2>2 DEF HeapOK
  <2>4. Covers(h, k)
    BY <2>2, <2>3, CoversAside
  <2> QED BY <2>1, <2>4 DEF k
<1>2. CASE row.tok # NULL
  <2>1. GuardInsert(h, r, row).h = set_table_info(h, r, "opaque", <<>>)
    BY <1>2 DEF GuardInsert
  <2> QED BY <2>1, GuardedExists, SetTableInfoCovers
<1> QED BY <1>1, <1>2

LEMMA GuardUpdateCovers ==
    ASSUME NEW h, HeapOK(h), NEW r \in Rels, h.rel[r].guard, NEW old, NEW new
    PROVE  LET k == GuardUpdate(h, r, old, new) IN Covers(h, k) /\ k.rel = h.rel
<1>1. CASE new = old
  BY <1>1, CoversReflexive DEF GuardUpdate
<1>2. CASE new # old /\ new \in h.fresh
  <2>1. PICK maps : GuardUpdate(h, r, old, new) = [h EXCEPT !.map = maps]
    BY <1>2 DEF GuardUpdate
  <2> DEFINE k == [h EXCEPT !.map = maps]
  <2>2. DOMAIN k = HeapFields /\ k.rel = h.rel /\ k.info = h.info /\ k.touched = h.touched
    BY DEF HeapOK, HeapFields
  <2> HIDE DEF k
  <2>3. DOMAIN k.info = Rels
    BY <2>2 DEF HeapOK
  <2>4. Covers(h, k) /\ k.rel = h.rel
    BY <2>2, <2>3, CoversAside
  <2> QED BY <2>1, <2>4 DEF k
<1>3. CASE new # old /\ new \notin h.fresh
  <2>1. GuardUpdate(h, r, old, new) = set_table_info(h, r, "opaque", <<>>)
    BY <1>3 DEF GuardUpdate
  <2> QED BY <2>1, GuardedExists, SetTableInfoCovers
<1> QED BY <1>1, <1>2, <1>3

-----------------------------------------------------------------------------
(* The rows of a table.                                                    *)
LEMMA RowsAreList == ASSUME NEW h, HeapOK(h), NEW r \in Rels PROVE IsList(h.rel[r].rows)
BY DEF HeapOK, RelationOK

LEMMA InsertRowCovers ==
    ASSUME NEW h, HeapOK(h), NEW r \in Rels, NEW row
    PROVE  Covers(h, InsertRow(h, r, row))
<1>1. CASE h.rel[r].guard
  <2> DEFINE g == GuardInsert(h, r, row)
             rows == Append(g.h.rel[r].rows, g.row)
  <2>1. InsertRow(h, r, row) = [g.h EXCEPT !.rel[r].rows = rows]
    BY <1>1 DEF InsertRow
  <2>2. Covers(h, g.h)
    BY <1>1, GuardInsertCovers
  <2>3. HeapOK(g.h)
    BY <2>2 DEF Covers
  <2>4. IsList(rows)
    BY <2>3, RowsAreList, AppendIsList
  <2> HIDE DEF g, rows
  <2>5. Covers(g.h, [g.h EXCEPT !.rel[r].rows = rows])
    BY <2>3, <2>4, CoversRows
  <2> QED BY <2>1, <2>2, <2>5, CoversTransitive
<1>2. CASE ~h.rel[r].guard
  <2> DEFINE rows == Append(h.rel[r].rows, row)
  <2>1. InsertRow(h, r, row) = [h EXCEPT !.rel[r].rows = rows]
    BY <1>2 DEF InsertRow
  <2>2. IsList(rows)
    BY RowsAreList, AppendIsList
  <2> HIDE DEF rows
  <2> QED BY <2>1, <2>2, CoversRows
<1> QED BY <1>1, <1>2

LEMMA SetTokenCovers ==
    ASSUME NEW h, HeapOK(h), NEW r \in Rels, NEW old, NEW new
    PROVE  Covers(h, SetToken(h, r, old, new))
<1> DEFINE watched == IF h.rel[r].guard THEN GuardUpdate(h, r, old, new) ELSE h
           f == [i \in DOMAIN h.rel[r].rows |->
                   IF h.rel[r].rows[i].tok = old THEN Row(h.rel[r].rows[i].vals, new) ELSE h.rel[r].rows[i]]
           rows == SubSeq(f, 1, Len(h.rel[r].rows))
<1>1. \/ SetToken(h, r, old, new) = h
      \/ SetToken(h, r, old, new) = [watched EXCEPT !.rel[r].rows = rows]
  BY DEF SetToken, Each
<1>2. Covers(h, watched)
  BY CoversReflexive, GuardUpdateCovers
<1>3. HeapOK(watched)
  BY <1>2 DEF Covers
<1>4. IsList(rows)
  <2>1. Len(h.rel[r].rows) \in Int
    BY RowsAreList, ListIsSeq
  <2> HIDE DEF f
  <2> QED BY <2>1, SubSeqIsList
<1> HIDE DEF watched, rows
<1>5. Covers(watched, [watched EXCEPT !.rel[r].rows = rows])
  BY <1>3, <1>4, CoversRows
<1> QED BY <1>1, <1>2, <1>5, CoversReflexive, CoversTransitive

(* Folds of these over a list: the context is the database the fold starts *)
(* from and the relation.                                                  *)
KeepsCovered(e, h) == Covers(e[1], h)

InsertStep(e, h, row) == InsertRow(h, e[2], row)
InsertFold == INSTANCE FoldInduction WITH Step <- InsertStep, Keeps <- KeepsCovered

LEMMA InsertRowsCovers ==
    ASSUME NEW h, HeapOK(h), NEW r \in Rels, NEW rows, IsList(rows)
    PROVE  Covers(h, InsertRows(h, r, rows))
<1> DEFINE e == <<h, r>>
<1>1. DOMAIN rows = 1..Len(rows) /\ Len(rows) \in Nat
  BY ListIsSeq
<1>2. KeepsCovered(e, h)
  BY CoversReflexive DEF KeepsCovered
<1>3. ASSUME NEW a, NEW i \in 1..Len(rows), KeepsCovered(e, a)
      PROVE  KeepsCovered(e, InsertStep(e, a, rows[i]))
  <2>1. Covers(h, a) /\ HeapOK(a)
    BY <1>3 DEF KeepsCovered, Covers
  <2>2. Covers(a, InsertRow(a, r, rows[i]))
    BY <2>1, InsertRowCovers
  <2> QED BY <2>1, <2>2, CoversTransitive DEF KeepsCovered, InsertStep
<1> HIDE DEF e
<1>4. KeepsCovered(e, InsertFold!Fold(e, h, rows))
  BY <1>1, <1>2, <1>3, InsertFold!FoldKeeps
<1>5. InsertRows(h, r, rows) = InsertFold!Fold(e, h, rows)
  BY Zenon DEF e, InsertRows, InsertStep, InsertFold!Fold, FoldLeft, MapThenFoldSet,
     InsertFold!FoldLeft, InsertFold!MapThenFoldSet, Max, InsertFold!Max
<1> QED BY <1>4, <1>5 DEF KeepsCovered, e

TokenStep(e, h, p) == SetToken(h, e[2], p[1], p[2])
TokenFold == INSTANCE FoldInduction WITH Step <- TokenStep, Keeps <- KeepsCovered

LEMMA SetTokensCovers ==
    ASSUME NEW h, HeapOK(h), NEW r \in Rels, NEW pairs, NEW n \in Nat, DOMAIN pairs = 1..n
    PROVE  Covers(h, SetTokens(h, r, pairs))
<1> DEFINE e == <<h, r>>
<1>1. KeepsCovered(e, h)
  BY CoversReflexive DEF KeepsCovered
<1>2. ASSUME NEW a, NEW i \in 1..n, KeepsCovered(e, a)
      PROVE  KeepsCovered(e, TokenStep(e, a, pairs[i]))
  <2>1. Covers(h, a) /\ HeapOK(a)
    BY <1>2 DEF KeepsCovered, Covers
  <2>2. Covers(a, SetToken(a, r, pairs[i][1], pairs[i][2]))
    BY <2>1, SetTokenCovers
  <2> QED BY <2>1, <2>2, CoversTransitive DEF KeepsCovered, TokenStep
<1> HIDE DEF e
<1>3. KeepsCovered(e, TokenFold!Fold(e, h, pairs))
  BY <1>1, <1>2, TokenFold!FoldKeeps
<1>4. SetTokens(h, r, pairs) = TokenFold!Fold(e, h, pairs)
  BY SMT DEF e, SetTokens, TokenStep, TokenFold!Fold, FoldLeft, MapThenFoldSet,
     TokenFold!FoldLeft, TokenFold!MapThenFoldSet, Max, TokenFold!Max
<1> QED BY <1>3, <1>4 DEF KeepsCovered, e

(* The guard of an UPDATE leaves the rows alone.                           *)
KeepsGuarded(e, h) == Covers(e[1], h) /\ h.rel = e[1].rel
GuardStep(e, h, p) == GuardUpdate(h, e[2], p[1], p[2])
GuardFold == INSTANCE FoldInduction WITH Step <- GuardStep, Keeps <- KeepsGuarded

LEMMA GuardUpdatesCovers ==
    ASSUME NEW h, HeapOK(h), NEW r \in Rels, h.rel[r].guard,
           NEW pairs, NEW n \in Nat, DOMAIN pairs = 1..n
    PROVE  Covers(h, GuardUpdates(h, r, pairs))
<1> DEFINE e == <<h, r>>
<1>1. KeepsGuarded(e, h)
  BY CoversReflexive DEF KeepsGuarded
<1>2. ASSUME NEW a, NEW i \in 1..n, KeepsGuarded(e, a)
      PROVE  KeepsGuarded(e, GuardStep(e, a, pairs[i]))
  <2> DEFINE k == GuardUpdate(a, r, pairs[i][1], pairs[i][2])
  <2>1. Covers(h, a) /\ HeapOK(a) /\ a.rel = h.rel /\ a.rel[r].guard
    BY <1>2 DEF KeepsGuarded, Covers
  <2>2. Covers(a, k) /\ k.rel = a.rel
    BY <2>1, GuardUpdateCovers
  <2>3. GuardStep(e, a, pairs[i]) = k
    BY DEF GuardStep
  <2> HIDE DEF k
  <2>4. Covers(h, k)
    BY <2>1, <2>2, CoversTransitive
  <2> QED BY <2>1, <2>2, <2>3, <2>4 DEF KeepsGuarded
<1> HIDE DEF e
<1>3. KeepsGuarded(e, GuardFold!Fold(e, h, pairs))
  BY <1>1, <1>2, GuardFold!FoldKeeps
<1>4. GuardUpdates(h, r, pairs) = GuardFold!Fold(e, h, pairs)
  BY Zenon DEF e, GuardUpdates, GuardStep, GuardFold!Fold, FoldLeft, MapThenFoldSet,
     GuardFold!FoldLeft, GuardFold!MapThenFoldSet, Max, GuardFold!Max
<1> QED BY <1>3, <1>4 DEF KeepsGuarded, e

(* The rows picked from a list are a list.                                 *)
KeepsList(e, kept) == IsList(kept)
PickStep(e, kept, row) == IF row \in e THEN Append(kept, row) ELSE kept
PickFold == INSTANCE FoldInduction WITH Step <- PickStep, Keeps <- KeepsList

LEMMA PickedIsList ==
    ASSUME NEW rows, IsList(rows), NEW X
    PROVE  IsList(Picked(rows, X))
<1>1. DOMAIN rows = 1..Len(rows) /\ Len(rows) \in Nat
  BY ListIsSeq
<1>2. KeepsList(X, <<>>)
  BY EmptyIsList DEF KeepsList
<1>3. ASSUME NEW a, NEW i \in 1..Len(rows), KeepsList(X, a)
      PROVE  KeepsList(X, PickStep(X, a, rows[i]))
  BY <1>3, AppendIsList DEF KeepsList, PickStep
<1>4. KeepsList(X, PickFold!Fold(X, <<>>, rows))
  BY <1>1, <1>2, <1>3, PickFold!FoldKeeps
<1>5. Picked(rows, X) = PickFold!Fold(X, <<>>, rows)
  BY Zenon DEF Picked, PickStep, PickFold!Fold, FoldLeft, MapThenFoldSet,
     PickFold!FoldLeft, PickFold!MapThenFoldSet, Max, PickFold!Max
<1> QED BY <1>4, <1>5 DEF KeepsList

(* A walk over the tables, each with the column rewritten.                 *)
LEMMA RewriteTableCovers ==
    ASSUME NEW h, HeapOK(h), NEW r \in Rels, NEW k, NEW op, NEW old, NEW new
    PROVE  Covers(h, RewriteTable(h, r, k, op, old, new))
<1> DEFINE rows == h.rel[r].rows
           pairs == [i \in DOMAIN rows |-> <<rows[i].tok, Rewritten(op, rows[i].tok, old, new, <<k, i>>)>>]
<1>1. DOMAIN pairs = 1..Len(rows) /\ Len(rows) \in Nat
  BY RowsAreList, ListIsSeq
<1>2. RewriteTable(h, r, k, op, old, new) = SetTokens(h, r, pairs)
  BY DEF RewriteTable
<1> HIDE DEF pairs
<1> QED BY <1>1, <1>2, SetTokensCovers

RewriteStep(e, h, k) ==
  IF h.rel[e[2][k]].col THEN RewriteTable(h, e[2][k], k, e[3], e[4], e[5]) ELSE h
RewriteFold == INSTANCE FoldInduction WITH Step <- RewriteStep, Keeps <- KeepsCovered

LEMMA RewriteTablesCovers ==
    ASSUME NEW h, HeapOK(h), NEW order, IsList(order), Mem(order) \subseteq Rels,
           NEW op, NEW old, NEW new
    PROVE  Covers(h, RewriteTables(h, order, op, old, new))
<1> DEFINE e == <<h, order, op, old, new>>
           places == [k \in DOMAIN order |-> k]
<1>1. DOMAIN places = 1..Len(order) /\ Len(order) \in Nat /\ \A i \in 1..Len(order) : places[i] = i
  BY ListIsSeq
<1>2. \A i \in 1..Len(order) : order[i] \in Rels
  BY <1>1 DEF Mem
<1>3. KeepsCovered(e, h)
  BY CoversReflexive DEF KeepsCovered
<1>4. ASSUME NEW a, NEW i \in 1..Len(order), KeepsCovered(e, a)
      PROVE  KeepsCovered(e, RewriteStep(e, a, places[i]))
  <2>1. Covers(h, a) /\ HeapOK(a)
    BY <1>4 DEF KeepsCovered, Covers
  <2>2. Covers(a, RewriteTable(a, order[i], i, op, old, new)) /\ Covers(a, a)
    BY <1>2, <2>1, RewriteTableCovers, CoversReflexive
  <2>3. RewriteStep(e, a, places[i]) = IF a.rel[order[i]].col
                                       THEN RewriteTable(a, order[i], i, op, old, new) ELSE a
    BY <1>1 DEF RewriteStep
  <2> HIDE DEF e, places
  <2>4. Covers(h, RewriteStep(e, a, places[i]))
    BY <2>1, <2>2, <2>3, CoversTransitive
  <2> QED BY <2>4 DEF KeepsCovered, e
<1>5. RewriteTables(h, order, op, old, new) = RewriteFold!Fold(e, h, places)
  BY SMT DEF RewriteTables, RewriteStep, RewriteFold!Fold, FoldLeft, MapThenFoldSet,
     RewriteFold!FoldLeft, RewriteFold!MapThenFoldSet, Max, RewriteFold!Max
<1> HIDE DEF e, places
<1>6. KeepsCovered(e, RewriteFold!Fold(e, h, places))
  BY <1>1, <1>3, <1>4, RewriteFold!FoldKeeps
<1> QED BY <1>5, <1>6 DEF KeepsCovered, e

-----------------------------------------------------------------------------
(* What a statement notes of itself.                                       *)

(* Neither the relations nor what is recorded of them is changed.          *)
Beside(h, g) ==
  DOMAIN g = HeapFields /\ g.rel = h.rel /\ g.info = h.info /\ g.touched = h.touched

LEMMA BesideCovers ==
    ASSUME NEW h, HeapOK(h), NEW g, Beside(h, g)
    PROVE  Covers(h, g)
<1>1. DOMAIN g.info = Rels
  BY DEF Beside, HeapOK
<1> QED BY <1>1, CoversAside DEF Beside

LEMMA NoteCovers == ASSUME NEW h, HeapOK(h), NEW entry PROVE Covers(h, Note(h, entry))
<1>1. Beside(h, Note(h, entry))
  BY DEF Beside, Note, HeapOK, HeapFields
<1> QED BY <1>1, BesideCovers

LEMMA LogStatementCovers ==
    ASSUME NEW h, HeapOK(h), NEW kind, NEW now
    PROVE  LET e == LogStatement(h, kind, now)
           IN  /\ Covers(h, e.h) /\ DOMAIN e = {"h", "gate", "effect"}
<1> DEFINE m == [h EXCEPT !.n = @ + 1]
           g == transaction_token(m)
           k == Log(g, h.n, LogRow(kind, now, g.tx))
<1>1. Beside(h, m)
  BY DEF Beside, HeapOK, HeapFields
<1> HIDE DEF m
<1>2. Beside(h, g)
  BY <1>1 DEF Beside, transaction_token, Log, HeapFields
<1> HIDE DEF g
<1>3. Beside(h, k)
  BY <1>2 DEF Beside, Log, HeapFields
<1>4. LogStatement(h, kind, now).h = k /\ DOMAIN LogStatement(h, kind, now) = {"h", "gate", "effect"}
  BY DEF LogStatement, m, g
<1> HIDE DEF k
<1>5. Covers(h, k)
  BY <1>3, BesideCovers
<1> QED BY <1>4, <1>5

LEMMA MixCovers == ASSUME NEW h, HeapOK(h), NEW r \in Rels PROVE Covers(h, Mix(h, r))
<1> DEFINE v == h.rel[r].mixed \/ Cardinality(Tokens(h.rel[r].rows)) < Len(h.rel[r].rows)
           t == [h.rel[r] EXCEPT !.mixed = v]
<1>1. RelationOK(h.rel[r])
  BY DEF HeapOK
<1>2. Mix(h, r) = [h EXCEPT !.rel[r] = t]
  BY DEF Mix
<1> HIDE DEF v
<1>3. /\ DOMAIN t = RelationFields /\ t.rows = h.rel[r].rows /\ t.keys = h.rel[r].keys
      /\ t.col \/ t.guard => t.exists
  BY <1>1 DEF RelationOK, RelationFields
<1>4. IsList(t.rows)
  BY <1>1, <1>3 DEF RelationOK
<1> HIDE DEF t
<1> QED BY <1>2, <1>3, <1>4, CoversRelation

LEMMA PlainCovers ==
    ASSUME NEW h, HeapOK(h), NEW r \in Rels, NEW v
    PROVE  Covers(h, [h EXCEPT !.rel[r].plain = v])
<1> DEFINE t == [h.rel[r] EXCEPT !.plain = v]
<1>1. RelationOK(h.rel[r])
  BY DEF HeapOK
<1>2. /\ DOMAIN t = RelationFields /\ t.rows = h.rel[r].rows /\ t.keys = h.rel[r].keys
      /\ t.col \/ t.guard => t.exists
  BY <1>1 DEF RelationOK, RelationFields
<1>3. IsList(t.rows)
  BY <1>1, <1>2 DEF RelationOK
<1>4. [h EXCEPT !.rel[r].plain = v] = [h EXCEPT !.rel[r] = t]
  OBVIOUS
<1> HIDE DEF t
<1> QED BY <1>2, <1>3, <1>4, CoversRelation

LEMMA ForeignCovers ==
    ASSUME NEW h, HeapOK(h), NEW r \in Rels, NEW v, NEW w
    PROVE  Covers(h, [h EXCEPT !.rel[r].mixed = v, !.rel[r].foreign = w])
<1> DEFINE t == [h.rel[r] EXCEPT !.mixed = v, !.foreign = w]
<1>1. RelationOK(h.rel[r])
  BY DEF HeapOK
<1>2. /\ DOMAIN t = RelationFields /\ t.rows = h.rel[r].rows /\ t.keys = h.rel[r].keys
      /\ t.col \/ t.guard => t.exists
  BY <1>1 DEF RelationOK, RelationFields
<1>3. IsList(t.rows)
  BY <1>1, <1>2 DEF RelationOK
<1>4. [h EXCEPT !.rel[r].mixed = v, !.rel[r].foreign = w] = [h EXCEPT !.rel[r] = t]
  BY DEF HeapOK
<1> HIDE DEF t
<1> QED BY <1>2, <1>3, <1>4, CoversRelation

-----------------------------------------------------------------------------
(* The statement triggers.                                                 *)
LEMMA MultiplyCovers ==
    ASSUME NEW h, HeapOK(h), NEW r \in Rels, NEW rows, IsList(rows), NEW effect
    PROVE  Covers(h, Multiply(h, r, rows, effect)) /\ Covers(h, TakeAway(h, r, rows, effect))
<1> DEFINE up == [i \in DOMAIN rows |-> <<rows[i].tok, provenance_times(<<rows[i].tok, effect>>)>>]
           down == [i \in DOMAIN rows |-> <<rows[i].tok, provenance_monus(rows[i].tok, effect)>>]
<1>1. DOMAIN up = 1..Len(rows) /\ DOMAIN down = 1..Len(rows) /\ Len(rows) \in Nat
  BY ListIsSeq
<1>2. Multiply(h, r, rows, effect) = SetTokens(h, r, up)
      /\ TakeAway(h, r, rows, effect) = SetTokens(h, r, down)
  BY DEF Multiply, TakeAway
<1> HIDE DEF up, down
<1> QED BY <1>1, <1>2, SetTokensCovers

LEMMA InsertTriggerCovers ==
    ASSUME NEW h, HeapOK(h), NEW r \in Rels, NEW new, IsList(new), NEW now
    PROVE  Covers(h, insert_statement_trigger(h, r, new, now).h)
<1> DEFINE e == LogStatement(h, "INSERT", now)
<1>1. Covers(h, e.h) /\ DOMAIN e = {"h", "gate", "effect"}
  BY LogStatementCovers
<1>2. insert_statement_trigger(h, r, new, now) = [e EXCEPT !.h = Multiply(e.h, r, new, e.effect)]
  BY DEF insert_statement_trigger
<1> HIDE DEF e
<1>3. insert_statement_trigger(h, r, new, now).h = Multiply(e.h, r, new, e.effect)
  BY <1>1, <1>2
<1>4. Covers(e.h, Multiply(e.h, r, new, e.effect))
  BY <1>1, MultiplyCovers DEF Covers
<1> QED BY <1>1, <1>3, <1>4, CoversTransitive

LEMMA DeleteTriggerCovers ==
    ASSUME NEW h, HeapOK(h), NEW r \in Rels, NEW old, IsList(old), NEW now
    PROVE  Covers(h, delete_statement_trigger(h, r, old, now).h)
<1> DEFINE e == LogStatement(h, "DELETE", now)
           back == InsertRows(e.h, r, old)
<1>1. Covers(h, e.h) /\ DOMAIN e = {"h", "gate", "effect"}
  BY LogStatementCovers
<1>2. delete_statement_trigger(h, r, old, now) = [e EXCEPT !.h = TakeAway(back, r, old, e.effect)]
  BY DEF delete_statement_trigger
<1> HIDE DEF e
<1>3. Covers(e.h, back)
  BY <1>1, InsertRowsCovers DEF Covers
<1> HIDE DEF back
<1>4. delete_statement_trigger(h, r, old, now).h = TakeAway(back, r, old, e.effect)
  BY <1>1, <1>2
<1>5. Covers(back, TakeAway(back, r, old, e.effect))
  BY <1>3, MultiplyCovers DEF Covers
<1> QED BY <1>1, <1>3, <1>4, <1>5, CoversTransitive

LEMMA UpdateTriggerCovers ==
    ASSUME NEW h, HeapOK(h), NEW r \in Rels, NEW old, IsList(old), NEW new, IsList(new), NEW now
    PROVE  Covers(h, update_statement_trigger(h, r, old, new, now).h)
<1> DEFINE e == LogStatement(h, "UPDATE", now)
           up == Multiply(e.h, r, new, e.effect)
           back == InsertRows(up, r, old)
<1>1. Covers(h, e.h) /\ DOMAIN e = {"h", "gate", "effect"}
  BY LogStatementCovers
<1>2. update_statement_trigger(h, r, old, new, now) = [e EXCEPT !.h = TakeAway(back, r, old, e.effect)]
  BY DEF update_statement_trigger
<1> HIDE DEF e
<1>3. Covers(e.h, up)
  BY <1>1, MultiplyCovers DEF Covers
<1> HIDE DEF up
<1>4. Covers(up, back)
  BY <1>3, InsertRowsCovers DEF Covers
<1> HIDE DEF back
<1>5. update_statement_trigger(h, r, old, new, now).h = TakeAway(back, r, old, e.effect)
  BY <1>1, <1>2
<1>6. Covers(back, TakeAway(back, r, old, e.effect))
  BY <1>4, MultiplyCovers DEF Covers
<1> QED BY <1>1, <1>3, <1>4, <1>5, <1>6, CoversTransitive

-----------------------------------------------------------------------------
(* The statements.                                                         *)

(* What a statement asked for is noted, and so is whether the tokens still *)
(* tell the rows apart.                                                    *)
LEMMA NotedCovers ==
    ASSUME NEW h, NEW g, Covers(h, g), NEW r \in Rels, NEW entry
    PROVE  Covers(h, Note(g, entry)) /\ Covers(h, Mix(Note(g, entry), r))
<1> DEFINE k == Note(g, entry)
<1>1. Covers(g, k)
  BY NoteCovers DEF Covers
<1>2. Covers(k, Mix(k, r))
  BY <1>1, MixCovers DEF Covers
<1> HIDE DEF k
<1>3. Covers(h, k) /\ Covers(h, Mix(k, r))
  BY <1>1, <1>2, CoversTransitive
<1> QED BY <1>3 DEF k

LEMMA InsertStatementCovers ==
    ASSUME NEW h, HeapOK(h), NEW r \in Rels, NEW rows, IsList(rows), NEW now
    PROVE  Covers(h, InsertStatement(h, r, rows, now))
<1> DEFINE before == Len(h.rel[r].rows)
           put == InsertRows(h, r, rows)
           new == SubSeq(put.rel[r].rows, before + 1, Len(put.rel[r].rows))
           e == insert_statement_trigger(put, r, new, now)
           plain == [put EXCEPT !.rel[r].plain = TRUE]
<1>1. \E entry : InsertStatement(h, r, rows, now) \in {Mix(Note(e.h, entry), r), Mix(Note(plain, entry), r)}
  BY DEF InsertStatement
<1>2. Covers(h, put)
  BY InsertRowsCovers
<1> HIDE DEF put
<1>3. IsList(new)
  <2>1. before + 1 \in Int /\ Len(put.rel[r].rows) \in Int
    BY <1>2, RowsAreList, ListIsSeq DEF Covers
  <2> QED BY <2>1, SubSeqIsList
<1> HIDE DEF new
<1>4. Covers(put, e.h)
  BY <1>2, <1>3, InsertTriggerCovers DEF Covers
<1>5. Covers(put, plain)
  BY <1>2, PlainCovers DEF Covers
<1> HIDE DEF e, plain
<1>6. Covers(h, e.h) /\ Covers(h, plain)
  BY <1>2, <1>4, <1>5, CoversTransitive
<1> QED BY <1>1, <1>6, NotedCovers

LEMMA DeleteStatementCovers ==
    ASSUME NEW h, HeapOK(h), NEW r \in Rels, NEW cond, NEW now
    PROVE  Covers(h, DeleteStatement(h, r, cond, now))
<1> DEFINE rows == h.rel[r].rows
           old == Matched(h, r, cond)
           rest == Picked(rows, Mem(rows) \ Matching(h, r, cond))
           gone == [h EXCEPT !.rel[r].rows = rest]
           e == delete_statement_trigger(gone, r, old, now)
           plain == [gone EXCEPT !.rel[r].plain = TRUE]
<1>1. \E entry : DeleteStatement(h, r, cond, now) \in {Mix(Note(e.h, entry), r), Note(plain, entry)}
  BY DEF DeleteStatement
<1>2. IsList(old) /\ IsList(rest)
  BY RowsAreList, PickedIsList DEF Matched
<1> HIDE DEF rows, old, rest
<1>3. Covers(h, gone)
  BY <1>2, CoversRows
<1> HIDE DEF gone
<1>4. Covers(gone, e.h)
  BY <1>2, <1>3, DeleteTriggerCovers DEF Covers
<1>5. Covers(gone, plain)
  BY <1>3, PlainCovers DEF Covers
<1> HIDE DEF e, plain
<1>6. Covers(h, e.h) /\ Covers(h, plain)
  BY <1>3, <1>4, <1>5, CoversTransitive
<1> QED BY <1>1, <1>6, NotedCovers

LEMMA UpdateRowsCovers ==
    ASSUME NEW h, HeapOK(h), NEW r \in Rels, NEW old, IsList(old), NEW cond, NEW to, NEW token, NEW now
    PROVE  Covers(h, UpdateRows(h, r, old, cond, to, token, now))
<1> DEFINE Value(row) == <<row.vals[1], IF to = 0 THEN row.vals[2] ELSE to>>
           Changed(row) == IF row \in Mem(old) THEN Row(Value(row), token[row.tok]) ELSE row
           pairs == [i \in DOMAIN old |-> <<old[i].tok, token[old[i].tok]>>]
           guarded == IF h.rel[r].guard THEN GuardUpdates(h, r, pairs) ELSE h
           rows == Each(guarded.rel[r].rows, Changed)
           new == Each(old, Changed)
           put == [guarded EXCEPT !.rel[r].rows = rows]
           e == update_statement_trigger(put, r, old, new, now)
           plain == [put EXCEPT !.rel[r].plain = put.rel[r].plain \/ to # 0]
<1>1. \E entry : UpdateRows(h, r, old, cond, to, token, now)
                   \in {Mix(Note(e.h, entry), r), Mix(Note(plain, entry), r)}
  BY DEF UpdateRows
<1>2. Covers(h, guarded)
  <2>1. DOMAIN pairs = 1..Len(old) /\ Len(old) \in Nat
    BY ListIsSeq
  <2> HIDE DEF pairs
  <2> QED BY <2>1, GuardUpdatesCovers, CoversReflexive
<1> HIDE DEF guarded
<1>3. IsList(rows) /\ IsList(new)
  <2>1. Len(guarded.rel[r].rows) \in Int /\ Len(old) \in Int
    BY <1>2, RowsAreList, ListIsSeq DEF Covers
  <2> HIDE DEF Changed
  <2> QED BY <2>1, SubSeqIsList DEF Each
<1> HIDE DEF rows, new
<1>4. Covers(guarded, put)
  BY <1>2, <1>3, CoversRows DEF Covers
<1> HIDE DEF put
<1>5. Covers(put, e.h)
  BY <1>3, <1>4, UpdateTriggerCovers DEF Covers
<1>6. Covers(put, plain)
  BY <1>4, PlainCovers DEF Covers
<1> HIDE DEF e, plain
<1>7. Covers(h, e.h) /\ Covers(h, plain)
  BY <1>2, <1>4, <1>5, <1>6, CoversTransitive
<1> QED BY <1>1, <1>7, NotedCovers

LEMMA UpdateStatementCovers ==
    ASSUME NEW h, HeapOK(h), NEW r \in Rels, NEW cond, NEW to, NEW now
    PROVE  Covers(h, UpdateStatement(h, r, cond, to, now))
<1>1. IsList(Matched(h, r, cond))
  BY RowsAreList, PickedIsList DEF Matched
<1> QED BY <1>1, UpdateRowsCovers DEF UpdateStatement

LEMMA InsertSelectCovers ==
    ASSUME NEW h, HeapOK(h), NEW r \in Rels, NEW s \in Rels, NEW now
    PROVE  Covers(h, InsertSelect(h, r, s, now))
<1> DEFINE rows == process_insert_select(h, r, s)
           g == InsertStatement(h, r, rows, now)
           mixed == g.rel[r].mixed \/ h.rel[s].mixed
<1>1. InsertSelect(h, r, s, now) = [g EXCEPT !.rel[r].mixed = mixed, !.rel[r].foreign = TRUE]
  BY DEF InsertSelect
<1>2. IsList(rows)
  <2>1. IsList(h.rel[s].rows) /\ Len(h.rel[s].rows) \in Int
    BY RowsAreList, ListIsSeq
  <2> QED BY <2>1, SubSeqIsList DEF process_insert_select, Each
<1> HIDE DEF rows
<1>3. Covers(h, g)
  BY <1>2, InsertStatementCovers
<1> HIDE DEF g, mixed
<1>4. Covers(g, [g EXCEPT !.rel[r].mixed = mixed, !.rel[r].foreign = TRUE])
  BY <1>3, ForeignCovers DEF Covers
<1> QED BY <1>1, <1>3, <1>4, CoversTransitive

-----------------------------------------------------------------------------
(* undo() and the replacements of gates.                                   *)
LEMMA RelationsWalked == IsList(Relations) /\ Mem(Relations) \subseteq Rels
BY TablesAssumption DEF Rels

LEMMA SettingBeside ==
    ASSUME NEW h, HeapOK(h), NEW v
    PROVE  Covers(h, [h EXCEPT !.setting = v])
<1> DEFINE g == [h EXCEPT !.setting = v]
<1>1. Beside(h, g)
  BY DEF Beside, HeapOK, HeapFields
<1> HIDE DEF g
<1>2. Covers(h, g)
  BY <1>1, BesideCovers
<1> QED BY <1>2 DEF g

LEMMA WalkCovers ==
    ASSUME NEW h, HeapOK(h), NEW kind, NEW now, NEW op, NEW old, NEW gate, NEW entry
    PROVE  LET e == LogStatement(h, kind, now)
               walked == RewriteTables(e.h, Relations, op, old, gate)
           IN  Covers(h, Note([walked EXCEPT !.setting = "on"], entry))
<1> DEFINE e == LogStatement(h, kind, now)
           walked == RewriteTables(e.h, Relations, op, old, gate)
           on == [walked EXCEPT !.setting = "on"]
<1>1. Covers(h, e.h)
  BY LogStatementCovers
<1> HIDE DEF e
<1>2. Covers(e.h, walked)
  BY <1>1, RelationsWalked, RewriteTablesCovers DEF Covers
<1> HIDE DEF walked
<1>3. Covers(walked, on)
  BY <1>2, SettingBeside DEF Covers
<1> HIDE DEF on
<1>4. Covers(on, Note(on, entry))
  BY <1>3, NoteCovers DEF Covers
<1>5. Covers(h, Note(on, entry))
  BY <1>1, <1>2, <1>3, <1>4, CoversTransitive
<1> QED BY <1>5 DEF on, walked, e

LEMMA UndoCovers ==
    ASSUME NEW h, HeapOK(h), NEW c, NEW now
    PROVE  Covers(h, undo(h, c, Relations, now)) /\ Covers(h, replace_update(h, c, Relations, now))
<1>1. Covers(h, undo(h, c, Relations, now))
  BY WalkCovers DEF undo
<1>2. Covers(h, replace_update(h, c, Relations, now))
  BY WalkCovers DEF replace_update
<1> QED BY <1>1, <1>2

LEMMA MintedCovers ==
    ASSUME NEW h, HeapOK(h), NEW n, NEW fresh
    PROVE  Covers(h, [h EXCEPT !.n = n, !.fresh = fresh])
<1> DEFINE g == [h EXCEPT !.n = n, !.fresh = fresh]
<1>1. Beside(h, g)
  BY DEF Beside, HeapOK, HeapFields
<1> HIDE DEF g
<1>2. Covers(h, g)
  BY <1>1, BesideCovers
<1> QED BY <1>2 DEF g

LEMMA ReplaceInputCovers ==
    ASSUME NEW h, HeapOK(h), NEW r \in Rels, NEW cond, NEW now
    PROVE  Covers(h, replace_input(h, r, cond, now))
<1> DEFINE toks == Each(h.rel[r].rows, LAMBDA row : row.tok)
           old == Matched(h, r, cond)
           New == [t \in Mem(toks) |-> InputGate(h.n + CHOOSE i \in DOMAIN toks : toks[i] = t)]
           n == h.n + Len(toks) + 1
           fresh == h.fresh \cup {New[t] : t \in Tokens(old)}
           minted == [h EXCEPT !.n = n, !.fresh = fresh]
<1>1. replace_input(h, r, cond, now) = UpdateRows(minted, r, old, cond, 0, New, now)
  BY DEF replace_input
<1>2. IsList(old)
  BY RowsAreList, PickedIsList DEF Matched
<1> HIDE DEF old, New, n, fresh
<1>3. Covers(h, minted)
  BY MintedCovers
<1> HIDE DEF minted
<1>4. Covers(minted, UpdateRows(minted, r, old, cond, 0, New, now))
  BY <1>2, <1>3, UpdateRowsCovers DEF Covers
<1> QED BY <1>1, <1>3, <1>4, CoversTransitive

LEMMA ReplaceBlockCovers ==
    ASSUME NEW h, HeapOK(h), NEW r \in Rels, NEW key, NEW now
    PROVE  Covers(h, replace_block(h, r, key, now))
<1> DEFINE rows == h.rel[r].rows
           block == BlockRows(h, r, key)
           New == [t \in Tokens(block) |->
                     MulInputGate(h.n + CHOOSE i \in DOMAIN rows : rows[i].tok = t, InputGate(h.n))]
           n == h.n + Len(rows) + 1
           fresh == h.fresh \cup {New[t] : t \in Tokens(block)}
           minted == [h EXCEPT !.n = n, !.fresh = fresh]
<1>1. replace_block(h, r, key, now) = UpdateRows(minted, r, block, {}, 0, New, now)
  BY DEF replace_block
<1>2. IsList(block)
  BY RowsAreList, PickedIsList DEF BlockRows
<1> HIDE DEF rows, block, New, n, fresh
<1>3. Covers(h, minted)
  BY MintedCovers
<1> HIDE DEF minted
<1>4. Covers(minted, UpdateRows(minted, r, block, {}, 0, New, now))
  BY <1>2, <1>3, UpdateRowsCovers DEF Covers
<1> QED BY <1>1, <1>3, <1>4, CoversTransitive

-----------------------------------------------------------------------------
(* What makes a table tracked, and what ends it.                           *)

(* A relation that is invalidated may be another altogether.               *)
LEMMA CoversTable ==
    ASSUME NEW h, HeapOK(h), NEW r \in Rels, NEW g, DOMAIN g = HeapFields,
           NEW t, RelationOK(t), r = Temporary => t.keys = {},
           g.rel = [h.rel EXCEPT ![r] = t], g.info = h.info, g.touched = h.touched \cup {r}
    PROVE  Covers(h, g)
<1>1. DOMAIN g.info = Rels
  BY DEF HeapOK
<1> QED BY <1>1, CoversByParts

LEMMA TempHasNoKeys ==
    ASSUME NEW h, HeapOK(h), NEW r \in Rels
    PROVE  r = Temporary => h.rel[r].keys = {}
BY DEF HeapOK

(* A table that has got its column, its guard and a record.                *)
LEMMA EnteredCovers ==
    ASSUME NEW h, HeapOK(h), NEW r \in Rels, h.rel[r].exists, NEW rows, IsList(rows), NEW n, NEW stmt,
           NEW entry, NEW kind, NEW key, NEW g,
           g = [AlterTable(h, r) EXCEPT
                  !.n = n,
                  !.rel[r] = [@ EXCEPT !.rows = rows, !.col = TRUE, !.guard = TRUE, !.stmt = stmt,
                                       !.mixed = FALSE, !.plain = FALSE, !.foreign = FALSE]]
    PROVE  Covers(h, set_ancestors(set_table_info(Note(g, entry), r, kind, key), r, {r}))
<1> DEFINE t == [h.rel[r] EXCEPT !.rows = rows, !.col = TRUE, !.guard = TRUE, !.stmt = stmt,
                                 !.mixed = FALSE, !.plain = FALSE, !.foreign = FALSE]
           k == Note(g, entry)
           i == set_table_info(k, r, kind, key)
<1>1. RelationOK(h.rel[r])
  BY DEF HeapOK
<1>2. DOMAIN t = RelationFields /\ t.rows = rows /\ t.exists /\ t.keys = h.rel[r].keys
  BY <1>1 DEF RelationOK, RelationFields
<1>3. RelationOK(t)
  BY <1>2 DEF RelationOK, RelationFields
<1>4. /\ DOMAIN g = HeapFields /\ g.rel = [h.rel EXCEPT ![r] = t]
      /\ g.info = h.info /\ g.touched = h.touched \cup {r}
  BY DEF AlterTable, HeapOK, HeapFields
<1> HIDE DEF t
<1>5. Covers(h, g)
  BY <1>2, <1>3, <1>4, TempHasNoKeys, CoversTable
<1>6. Covers(h, k) /\ r \in k.touched
  BY <1>4, <1>5, NotedCovers DEF Note, HeapFields
<1> HIDE DEF k
<1>7. Covers(k, i) /\ Watched(i, r)
  BY <1>6, SetTableInfoCovers DEF Watched, Covers
<1> HIDE DEF i
<1>8. Covers(i, set_ancestors(i, r, {r}))
  BY <1>7, SetAncestorsCovers DEF Covers
<1>9. Covers(h, set_ancestors(i, r, {r}))
  BY <1>6, <1>7, <1>8, CoversTransitive
<1> QED BY <1>9 DEF i, k

LEMMA AddProvenanceCovers ==
    ASSUME NEW h, HeapOK(h), NEW r \in Rels, h.rel[r].exists
    PROVE  Covers(h, add_provenance(h, r))
<1> DEFINE rows == [i \in DOMAIN h.rel[r].rows |-> Row(h.rel[r].rows[i].vals, InputGate(h.n + i))]
           put == SubSeq(rows, 1, Len(rows))
           n == AlterTable(h, r).n + Len(rows) + 1
           g == [AlterTable(h, r) EXCEPT
                   !.n = n,
                   !.rel[r] = [@ EXCEPT !.rows = put, !.col = TRUE, !.guard = TRUE, !.stmt = TRUE,
                                        !.mixed = FALSE, !.plain = FALSE, !.foreign = FALSE]]
           entry == Asked("enter", r, g.rel[r].rows, {}, 0, 0, 0)
<1>1. add_provenance(h, r) = IF h.rel[r].col THEN h
                             ELSE set_ancestors(set_table_info(Note(g, entry), r, "tid", <<>>), r, {r})
  BY DEF add_provenance
<1>2. IsList(put)
  <2>1. Len(rows) \in Int
    BY RowsAreList, SameDomainIsList, ListIsSeq
  <2> HIDE DEF rows
  <2> QED BY <2>1, SubSeqIsList
<1> HIDE DEF put, n, entry
<1>3. Covers(h, set_ancestors(set_table_info(Note(g, entry), r, "tid", <<>>), r, {r}))
  BY <1>2, EnteredCovers
<1> QED BY <1>1, <1>3, CoversReflexive

LEMMA RepairKeyCovers ==
    ASSUME NEW h, HeapOK(h), NEW r \in Rels, h.rel[r].exists, NEW key
    PROVE  Covers(h, repair_key(h, r, key))
<1> DEFINE old == h.rel[r].rows
           KeyOf(row) == Each(key, LAMBDA a : row.vals[a])
           keys == SetToSeq({KeyOf(old[i]) : i \in DOMAIN old})
           KeyGate(row) == InputGate(h.n + CHOOSE j \in DOMAIN keys : keys[j] = KeyOf(row))
           rows == [i \in DOMAIN old |-> Row(old[i].vals, MulInputGate(h.n + Len(keys) + i, KeyGate(old[i])))]
           put == SubSeq(rows, 1, Len(rows))
           n == AlterTable(h, r).n + Len(keys) + Len(rows) + 1
           g == [AlterTable(h, r) EXCEPT
                   !.n = n,
                   !.rel[r] = [@ EXCEPT !.rows = put, !.col = TRUE, !.guard = TRUE, !.stmt = FALSE,
                                        !.mixed = FALSE, !.plain = FALSE, !.foreign = FALSE]]
           entry == Asked("enter", r, g.rel[r].rows, {}, 0, 0, 0)
<1>1. repair_key(h, r, key) = set_ancestors(set_table_info(Note(g, entry), r, "bid", key), r, {r})
  BY DEF repair_key
<1>2. IsList(put)
  <2>1. IsList(old)
    BY RowsAreList
  <2> HIDE DEF old, keys, KeyGate
  <2>2. Len(rows) \in Int
    BY <2>1, SameDomainIsList, ListIsSeq
  <2> HIDE DEF rows
  <2> QED BY <2>2, SubSeqIsList
<1> HIDE DEF put, n, entry
<1>3. Covers(h, set_ancestors(set_table_info(Note(g, entry), r, "bid", key), r, {r}))
  BY <1>2, EnteredCovers
<1> QED BY <1>1, <1>3

LEMMA RemoveProvenanceCovers ==
    ASSUME NEW h, HeapOK(h), NEW r \in Rels, h.rel[r].exists
    PROVE  Covers(h, remove_provenance(h, r))
<1> DEFINE u == remove_table_info(h, r)
           rows == Each(h.rel[r].rows, LAMBDA row : Row(row.vals, NULL))
           a == AlterTable(u, r)
           t == [u.rel[r] EXCEPT !.rows = rows, !.col = FALSE, !.guard = FALSE, !.stmt = FALSE]
           g == [a EXCEPT !.rel[r] = t]
<1>1. Covers(h, u) /\ u.rel = h.rel
  BY RemoveTableInfoCovers DEF Watched
<1>2. remove_provenance(h, r) \in {u, g}
  BY DEF remove_provenance, AlterTable
<1>3. IsList(rows)
  <2>1. Len(h.rel[r].rows) \in Int
    BY RowsAreList, ListIsSeq
  <2> QED BY <2>1, SubSeqIsList DEF Each
<1> HIDE DEF u, rows
<1>4. Covers(u, a) /\ a.rel = u.rel
  BY <1>1, AlterTableCovers DEF Covers
<1>5. RelationOK(u.rel[r])
  BY <1>1 DEF HeapOK
<1>6. /\ DOMAIN t = RelationFields /\ t.rows = rows /\ t.keys = a.rel[r].keys
      /\ t.col \/ t.guard => t.exists
  BY <1>4, <1>5 DEF RelationOK, RelationFields
<1> HIDE DEF a, t
<1>7. Covers(a, g)
  BY <1>3, <1>4, <1>6, CoversRelation DEF Covers
<1> HIDE DEF g
<1> QED BY <1>1, <1>2, <1>4, <1>7, CoversTransitive

LEMMA AbsentOK == RelationOK(Absent) /\ Absent.keys = {}
BY EmptyIsList DEF RelationOK, Absent

LEMMA CleanupCovers ==
    ASSUME NEW h, HeapOK(h), NEW r \in Rels, Watched(h, r)
    PROVE  LET k == cleanup_table_info(h, r) IN Covers(h, k) /\ k.rel = h.rel
<1> DEFINE u == remove_table_info(h, r)
           k == cleanup_table_info(h, r)
<1>1. Covers(h, u) /\ u.rel = h.rel
  BY RemoveTableInfoCovers
<1>2. PICK maps : k = [u EXCEPT !.map = maps]
  BY DEF cleanup_table_info
<1> HIDE DEF u, k
<1>3. Beside(u, k)
  BY <1>1, <1>2 DEF Beside, Covers, HeapOK, HeapFields
<1>4. Covers(u, k) /\ k.rel = h.rel
  BY <1>1, <1>3, BesideCovers DEF Covers, Beside
<1>5. Covers(h, k) /\ k.rel = h.rel
  BY <1>1, <1>4, CoversTransitive
<1> QED BY <1>5 DEF k

LEMMA DropTableCovers ==
    ASSUME NEW h, HeapOK(h), NEW r \in Rels
    PROVE  Covers(h, DropTable(h, r))
<1> DEFINE g == [AlterTable(h, r) EXCEPT !.rel[r] = Absent]
<1>1. /\ DOMAIN g = HeapFields /\ g.rel = [h.rel EXCEPT ![r] = Absent]
      /\ g.info = h.info /\ g.touched = h.touched \cup {r}
  BY DEF AlterTable, HeapOK, HeapFields
<1>2. DropTable(h, r) = cleanup_table_info(g, r)
  BY DEF DropTable
<1> HIDE DEF g
<1>3. Covers(h, g)
  BY <1>1, AbsentOK, CoversTable
<1>4. Watched(g, r)
  BY <1>1 DEF Watched
<1>5. Covers(g, cleanup_table_info(g, r))
  BY <1>3, <1>4, CleanupCovers DEF Covers
<1> QED BY <1>2, <1>3, <1>5, CoversTransitive

LEMMA AddKeyCovers ==
    ASSUME NEW h, HeapOK(h), NEW r \in Rels, r # Temporary, NEW cols, NEW notnull
    PROVE  Covers(h, AddKey(h, r, cols, notnull))
<1> DEFINE keys == h.rel[r].keys \cup {[cols |-> cols, notnull |-> notnull]}
           t == [h.rel[r] EXCEPT !.keys = keys]
           g == AddKey(h, r, cols, notnull)
<1>1. RelationOK(h.rel[r])
  BY DEF HeapOK
<1>2. DOMAIN t = RelationFields /\ t.rows = h.rel[r].rows /\ (t.col \/ t.guard => t.exists)
  BY <1>1 DEF RelationOK, RelationFields
<1>3. RelationOK(t)
  BY <1>1, <1>2 DEF RelationOK, RelationFields
<1>4. /\ DOMAIN g = HeapFields /\ g.rel = [h.rel EXCEPT ![r] = t]
      /\ g.info = h.info /\ g.touched = h.touched \cup {r}
  BY DEF AddKey, AlterTable, HeapOK, HeapFields
<1> HIDE DEF t, g
<1>5. Covers(h, g)
  BY <1>3, <1>4, CoversTable
<1> QED BY <1>5 DEF g

-----------------------------------------------------------------------------
(* CREATE TABLE AS, and the mappings that are made with it.                *)

(* The rows a query gives are a list: TLC cannot go through every database *)
(* to see it, and TableTracking leaves open how a query is evaluated.      *)
AnswersAreLists ==
  \A q \in Queries \cup {WholeTable(r) : r \in Targets} :
    \A h : HeapOK(h) => IsList(Answer(q, h))

LEMMA ApplyCovers ==
    ASSUME NEW h, HeapOK(h), NEW d \in Rels, h.rel[d].exists, NEW q, NEW cap
    PROVE  Covers(h, provsql_ProcessUtility_apply(h, d, q, cap))
<1> DEFINE key == AlignedKey(q, cap)
           blocks == cap.kind = "bid" /\ 0 \notin Mem(key)
           kind == IF cap.kind = "bid" /\ ~blocks THEN "tid" ELSE cap.kind
           order == IF blocks THEN key ELSE <<>>
           i == set_table_info(h, d, kind, order)
           u == set_ancestors(i, d, cap.ancestors)
           a == AlterTable(u, d)
           t == [a.rel[d] EXCEPT !.guard = TRUE]
<1>1. provsql_ProcessUtility_apply(h, d, q, cap) = [a EXCEPT !.rel[d] = t]
  BY DEF provsql_ProcessUtility_apply
<1> HIDE DEF kind, order
<1>2. Covers(h, i) /\ i.rel = h.rel /\ Watched(i, d)
  BY SetTableInfoCovers DEF Watched
<1> HIDE DEF i
<1>3. Covers(i, u) /\ u.rel = i.rel
  BY <1>2, SetAncestorsCovers DEF Covers
<1> HIDE DEF u
<1>4. Covers(u, a) /\ a.rel = u.rel
  BY <1>3, AlterTableCovers DEF Covers
<1> HIDE DEF a
<1>5. RelationOK(a.rel[d]) /\ a.rel[d].exists
  BY <1>2, <1>3, <1>4 DEF HeapOK
<1>6. DOMAIN t = RelationFields /\ IsList(t.rows) /\ t.keys = a.rel[d].keys /\ (t.col \/ t.guard => t.exists)
  BY <1>5 DEF RelationOK, RelationFields
<1> HIDE DEF t
<1>7. Covers(a, [a EXCEPT !.rel[d] = t])
  BY <1>4, <1>6, CoversRelation DEF Covers
<1> QED BY <1>1, <1>2, <1>3, <1>4, <1>7, CoversTransitive

LEMMA ProcessUtilityCovers ==
    ASSUME NEW h, HeapOK(h), NEW c, NEW d \in Rels, NEW q, IsList(Answer(q, h))
    PROVE  Covers(h, provsql_ProcessUtility(h, c, d, q).h)
<1> DEFINE cap == provsql_ProcessUtility_capture(q, h, ClassifyWith(c, h, q))
           table == [Table(Answer(q, h)) EXCEPT
                       !.col = HasProvenance(q, h),
                       !.mixed = \E r \in Reads(q) : h.rel[r].mixed,
                       !.plain = \E r \in Reads(q) : h.rel[r].plain]
           put == [AlterTable(h, d) EXCEPT !.rel[d] = table]
           entry == Asked("enter", d, table.rows, {}, 0, 0, 0)
           made == Mix(put, d)
           noted == Note(made, entry)
<1>1. provsql_ProcessUtility(h, c, d, q).h
        \in {noted, provsql_ProcessUtility_apply(noted, d, q, cap[1])}
  BY DEF provsql_ProcessUtility
<1>2. RelationOK(table) /\ table.keys = {} /\ table.exists
  BY DEF Table, Absent, RelationOK
<1> HIDE DEF table
<1>3. /\ DOMAIN put = HeapFields /\ put.rel = [h.rel EXCEPT ![d] = table]
      /\ put.info = h.info /\ put.touched = h.touched \cup {d}
  BY DEF AlterTable, HeapOK, HeapFields
<1> HIDE DEF put
<1>4. Covers(h, put) /\ put.rel[d].exists
  BY <1>2, <1>3, CoversTable DEF HeapOK
<1>5. Covers(put, made) /\ made.rel[d].exists
  <2>1. Covers(put, made)
    BY <1>4, MixCovers DEF Covers
  <2>2. made.rel[d].exists
    BY <1>4 DEF Mix, Covers, HeapOK, RelationOK
  <2> QED BY <2>1, <2>2
<1> HIDE DEF made, entry
<1>6. Covers(made, noted) /\ noted.rel[d].exists
  BY <1>5, NoteCovers DEF Covers, Note, HeapOK
<1> HIDE DEF noted
<1>7. Covers(noted, provsql_ProcessUtility_apply(noted, d, q, cap[1]))
  BY <1>6, ApplyCovers DEF Covers
<1> HIDE DEF cap
<1> QED BY <1>1, <1>4, <1>5, <1>6, <1>7, CoversTransitive

LEMMA WithMappingCovers ==
    ASSUME NEW copied, DOMAIN copied = {"cache", "h"}, HeapOK(copied.h), NEW m, NEW mapping
    PROVE  Covers(copied.h, WithMapping(copied, m, mapping).h)
<1> DEFINE h == copied.h
           maps == [h.map EXCEPT ![m] = mapping]
           t == [h.rel[Temporary] EXCEPT !.col = FALSE]
           g == [h EXCEPT !.map = maps]
<1>1. WithMapping(copied, m, mapping).h = [g EXCEPT !.rel[Temporary] = t]
  BY DEF WithMapping
<1>2. Temporary \in Rels
  BY DEF Rels
<1>3. RelationOK(h.rel[Temporary])
  BY <1>2 DEF HeapOK
<1> HIDE DEF h, maps
<1>4. Beside(h, g)
  BY DEF Beside, HeapOK, HeapFields, h
<1>5. Covers(h, g) /\ g.rel = h.rel
  BY <1>4, BesideCovers DEF Beside, h
<1>6. /\ DOMAIN t = RelationFields /\ IsList(t.rows) /\ t.keys = g.rel[Temporary].keys
      /\ t.col \/ t.guard => t.exists
  BY <1>3, <1>5 DEF RelationOK, RelationFields
<1> HIDE DEF g, t
<1>7. Covers(g, [g EXCEPT !.rel[Temporary] = t])
  BY <1>2, <1>5, <1>6, CoversRelation DEF Covers
<1>8. Covers(h, [g EXCEPT !.rel[Temporary] = t])
  BY <1>5, <1>7, CoversTransitive
<1> QED BY <1>1, <1>8 DEF h

LEMMA CreateMappingCovers ==
    ASSUME NEW h, HeapOK(h), NEW c, NEW m, NEW r \in Targets, AnswersAreLists, NEW maintained
    PROVE  Covers(h, create_provenance_mapping(h, c, m, r, maintained).h)
<1> DEFINE clear == IF h.rel[Temporary].exists THEN DropTable(h, Temporary) ELSE h
           made == provsql_ProcessUtility(clear, c, Temporary, WholeTable(r))
<1>1. Temporary \in Rels
  BY DEF Rels
<1>2. CASE h.map[m].exists
  BY <1>2, CoversReflexive DEF create_provenance_mapping
<1>3. CASE ~h.map[m].exists
  <2>1. PICK mapping : create_provenance_mapping(h, c, m, r, maintained) = WithMapping(made, m, mapping)
    BY <1>3 DEF create_provenance_mapping
  <2>2. Covers(h, clear)
    BY <1>1, CoversReflexive, DropTableCovers
  <2> HIDE DEF clear
  <2>3. IsList(Answer(WholeTable(r), clear))
    BY <2>2 DEF AnswersAreLists, Covers
  <2>4. Covers(clear, made.h)
    BY <1>1, <2>2, <2>3, ProcessUtilityCovers DEF Covers
  <2>5. DOMAIN made = {"cache", "h"}
    BY DEF provsql_ProcessUtility
  <2> HIDE DEF made
  <2>6. Covers(made.h, WithMapping(made, m, mapping).h)
    BY <2>4, <2>5, WithMappingCovers DEF Covers
  <2> QED BY <2>1, <2>2, <2>4, <2>6, CoversTransitive
<1> QED BY <1>2, <1>3

-----------------------------------------------------------------------------
(* The end of a transaction changes nothing that is remembered.            *)
LEMMA CommitKeeps ==
    ASSUME NEW h, HeapOK(h), NEW logged, NEW now
    PROVE  LET g == [stamp_commit_time(DropTemporary(h), logged, now)
                       EXCEPT !.tx = 0, !.fresh = {}, !.touched = {}]
           IN  HeapOK(g) /\ \A r \in Rels : SameView(h, g, r)
<1> DEFINE d == DropTemporary(h)
           log == [g \in DOMAIN d.log |-> IF g \in logged /\ d.log[g].kind # "TRANSACTION"
                                          THEN [d.log[g] EXCEPT !.from = now] ELSE d.log[g]]
           s == stamp_commit_time(d, logged, now)
           g == [s EXCEPT !.tx = 0, !.fresh = {}, !.touched = {}]
<1>1. DOMAIN d = HeapFields /\ d.rel = [h.rel EXCEPT ![Temporary] = Absent] /\ d.info = h.info
  BY DEF DropTemporary, HeapOK, HeapFields
<1>2. s = [d EXCEPT !.log = log]
  BY DEF stamp_commit_time
<1> HIDE DEF d, s, log
<1>3. DOMAIN g = HeapFields /\ g.rel = [h.rel EXCEPT ![Temporary] = Absent] /\ g.info = h.info
  BY <1>1, <1>2 DEF HeapFields
<1> HIDE DEF g
<1>4. \A r \in Rels : RelationOK(g.rel[r]) /\ g.rel[r].keys = h.rel[r].keys
  BY <1>3, AbsentOK DEF HeapOK
<1>5. HeapOK(g) /\ \A r \in Rels : SameView(h, g, r)
  BY <1>3, <1>4 DEF HeapOK, HeapFields, SameView, Rels
<1> QED BY <1>5 DEF g, s, d

-----------------------------------------------------------------------------
(* What a session remembers.                                               *)
CacheTyped(c) ==
  /\ DOMAIN c = {"info", "ancestry", "keys"}
  /\ DOMAIN c.info = Rels /\ DOMAIN c.ancestry = Rels /\ DOMAIN c.keys = Rels

Agrees(c, h, r) ==
  /\ c.info[r] \in {Unread, provsql_fetch_table_info(h, r)}
  /\ c.ancestry[r] \in {Unread, provsql_fetch_ancestry(h, r)}
  /\ c.keys[r] \in {Unread, fetch_relation_keys(h, r)}

(* A cache is right of every relation but some.                            *)
AgreesOutside(c, h, rels) ==
  CacheTyped(c) /\ \A r \in Rels \ rels : Agrees(c, h, r)

LEMMA AgreesSame ==
    ASSUME NEW c, NEW h, NEW g, NEW r, SameView(h, g, r) \/ SameView(g, h, r), Agrees(c, h, r)
    PROVE  Agrees(c, g, r)
BY DEF SameView, Agrees, provsql_fetch_table_info, provsql_fetch_ancestry, fetch_relation_keys

(* What is remembered of a database holds of the one an operation leaves,  *)
(* but for what the operation invalidated.                                 *)
LEMMA AgreesAfter ==
    ASSUME NEW c, NEW h, NEW g, Covers(h, g), AgreesOutside(c, h, g.touched)
    PROVE  AgreesOutside(c, g, g.touched)
BY AgreesSame DEF AgreesOutside, Covers

LEMMA AgreesBefore ==
    ASSUME NEW c, NEW h, NEW g, Covers(h, g), AgreesOutside(c, g, g.touched)
    PROVE  AgreesOutside(c, h, g.touched)
BY AgreesSame DEF AgreesOutside, Covers

LEMMA InvalidateAgrees ==
    ASSUME NEW c, NEW h, NEW rels, NEW more, AgreesOutside(c, h, rels \cup more)
    PROVE  AgreesOutside(Invalidate(c, rels), h, more)
<1> DEFINE i == Invalidate(c, rels)
<1>1. /\ DOMAIN i = {"info", "ancestry", "keys"}
      /\ i.info = [r \in DOMAIN c.info |-> IF r \in rels THEN Unread ELSE c.info[r]]
      /\ i.ancestry = [r \in DOMAIN c.ancestry |-> IF r \in rels THEN Unread ELSE c.ancestry[r]]
      /\ i.keys = [r \in DOMAIN c.keys |-> IF r \in rels THEN Unread ELSE c.keys[r]]
  BY DEF Invalidate
<1> HIDE DEF i
<1>2. CacheTyped(i)
  BY <1>1 DEF AgreesOutside, CacheTyped
<1>3. ASSUME NEW r \in Rels \ more PROVE Agrees(i, h, r)
  <2>1. r \in DOMAIN c.info /\ r \in DOMAIN c.ancestry /\ r \in DOMAIN c.keys
    BY <1>3 DEF AgreesOutside, CacheTyped
  <2>2. CASE r \in rels
    BY <1>1, <2>1, <2>2 DEF Agrees
  <2>3. CASE r \notin rels
    <3>1. Agrees(c, h, r)
      BY <1>3, <2>3 DEF AgreesOutside
    <3> QED BY <1>1, <2>1, <2>3, <3>1 DEF Agrees
  <2> QED BY <2>2, <2>3
<1>4. AgreesOutside(i, h, more)
  BY <1>2, <1>3 DEF AgreesOutside
<1> QED BY <1>4 DEF i

(* A look-up reads what it does not remember.                              *)
LEMMA LookupAgrees ==
    ASSUME NEW c, NEW h, NEW bad, AgreesOutside(c, h, bad), NEW rels
    PROVE  /\ AgreesOutside(provsql_lookup_table_info(c, h, rels), h, bad)
           /\ AgreesOutside(provsql_lookup_ancestry(c, h, rels), h, bad)
           /\ AgreesOutside(provsql_lookup_relation_keys(c, h, rels), h, bad)
<1> USE DEF AgreesOutside, CacheTyped, Agrees
<1>1. AgreesOutside(provsql_lookup_table_info(c, h, rels), h, bad)
  <2> DEFINE read == [r \in DOMAIN c.info |-> IF r \in rels /\ c.info[r] = Unread
                                              THEN provsql_fetch_table_info(h, r) ELSE c.info[r]]
             g == [c EXCEPT !.info = read]
  <2>1. provsql_lookup_table_info(c, h, rels) = g
    BY DEF provsql_lookup_table_info, Read
  <2>2. DOMAIN g = {"info", "ancestry", "keys"} /\ g.info = read /\ g.ancestry = c.ancestry /\ g.keys = c.keys
    OBVIOUS
  <2> HIDE DEF g
  <2>3. AgreesOutside(g, h, bad)
    BY <2>2
  <2> QED BY <2>1, <2>3
<1>2. AgreesOutside(provsql_lookup_ancestry(c, h, rels), h, bad)
  <2> DEFINE read == [r \in DOMAIN c.ancestry |-> IF r \in rels /\ c.ancestry[r] = Unread
                                                  THEN provsql_fetch_ancestry(h, r) ELSE c.ancestry[r]]
             g == [c EXCEPT !.ancestry = read]
  <2>1. provsql_lookup_ancestry(c, h, rels) = g
    BY DEF provsql_lookup_ancestry, Read
  <2>2. DOMAIN g = {"info", "ancestry", "keys"} /\ g.info = c.info /\ g.ancestry = read /\ g.keys = c.keys
    OBVIOUS
  <2> HIDE DEF g
  <2>3. AgreesOutside(g, h, bad)
    BY <2>2
  <2> QED BY <2>1, <2>3
<1>3. AgreesOutside(provsql_lookup_relation_keys(c, h, rels), h, bad)
  <2> DEFINE read == [r \in DOMAIN c.keys |-> IF r \in rels /\ c.keys[r] = Unread
                                              THEN fetch_relation_keys(h, r) ELSE c.keys[r]]
             g == [c EXCEPT !.keys = read]
  <2>1. provsql_lookup_relation_keys(c, h, rels) = g
    BY DEF provsql_lookup_relation_keys, Read
  <2>2. DOMAIN g = {"info", "ancestry", "keys"} /\ g.info = c.info /\ g.ancestry = c.ancestry /\ g.keys = read
    OBVIOUS
  <2> HIDE DEF g
  <2>3. AgreesOutside(g, h, bad)
    BY <2>2
  <2> QED BY <2>1, <2>3
<1> QED BY <1>1, <1>2, <1>3

LEMMA ClassifyAgrees ==
    ASSUME NEW c, NEW h, NEW bad, AgreesOutside(c, h, bad), NEW q
    PROVE  AgreesOutside(ClassifyWith(c, h, q).cache, h, bad)
<1> DEFINE read == provsql_lookup_table_info(c, h, Reads(q))
           tracked == {r \in Reads(q) : read.info[r][1] # "none"}
<1>1. ClassifyWith(c, h, q).cache = provsql_lookup_ancestry(read, h, tracked)
  BY DEF ClassifyWith
<1>2. AgreesOutside(read, h, bad)
  BY LookupAgrees
<1> HIDE DEF read, tracked
<1> QED BY <1>1, <1>2, LookupAgrees

(* The two statements that look relations up, the second after it has      *)
(* dropped the temporary copy of an earlier one.                           *)
LEMMA ProcessUtilityAgrees ==
    ASSUME NEW h, HeapOK(h), NEW c, NEW d \in Rels, NEW q, IsList(Answer(q, h)),
           NEW bad, AgreesOutside(c, h, bad), bad \subseteq h.touched
    PROVE  LET made == provsql_ProcessUtility(h, c, d, q)
           IN  Covers(h, made.h) /\ AgreesOutside(made.cache, h, made.h.touched)
<1> DEFINE made == provsql_ProcessUtility(h, c, d, q)
<1>1. Covers(h, made.h)
  BY ProcessUtilityCovers
<1>2. made.cache = ClassifyWith(c, h, q).cache
  BY DEF provsql_ProcessUtility
<1>3. AgreesOutside(made.cache, h, bad)
  BY <1>2, ClassifyAgrees
<1> HIDE DEF made
<1>4. bad \subseteq made.h.touched
  BY <1>1 DEF Covers
<1>5. AgreesOutside(made.cache, h, made.h.touched)
  BY <1>3, <1>4 DEF AgreesOutside
<1> QED BY <1>1, <1>5 DEF made

LEMMA CreateMappingAgrees ==
    ASSUME NEW h, HeapOK(h), NEW c, NEW m, NEW r \in Targets, AnswersAreLists, NEW maintained,
           AgreesOutside(c, h, {})
    PROVE  LET made == create_provenance_mapping(h, c, m, r, maintained)
           IN  Covers(h, made.h) /\ AgreesOutside(made.cache, h, made.h.touched)
<1> DEFINE made == create_provenance_mapping(h, c, m, r, maintained)
           clear == IF h.rel[Temporary].exists THEN DropTable(h, Temporary) ELSE h
           copied == provsql_ProcessUtility(clear, c, Temporary, WholeTable(r))
<1>1. Covers(h, made.h)
  BY CreateMappingCovers
<1>2. Temporary \in Rels
  BY DEF Rels
<1>3. CASE h.map[m].exists
  <2>1. made.cache = c
    BY <1>3 DEF create_provenance_mapping
  <2> QED BY <1>1, <2>1 DEF AgreesOutside
<1>4. CASE ~h.map[m].exists
  <2>1. PICK mapping : made = WithMapping(copied, m, mapping)
    BY <1>4 DEF create_provenance_mapping
  <2> HIDE DEF made
  <2>2. Covers(h, clear)
    BY <1>2, CoversReflexive, DropTableCovers
  <2> HIDE DEF clear
  <2>3. AgreesOutside(c, h, clear.touched)
    BY DEF AgreesOutside
  <2>4. AgreesOutside(c, clear, clear.touched)
    BY <2>2, <2>3, AgreesAfter
  <2>5. HeapOK(clear) /\ IsList(Answer(WholeTable(r), clear))
    BY <2>2 DEF AnswersAreLists, Covers
  <2>6. Covers(clear, copied.h) /\ AgreesOutside(copied.cache, clear, copied.h.touched)
    BY <1>2, <2>4, <2>5, ProcessUtilityAgrees
  <2>7. DOMAIN copied = {"cache", "h"}
    BY DEF provsql_ProcessUtility
  <2> HIDE DEF copied
  <2>8. Covers(copied.h, made.h)
    BY <2>1, <2>6, <2>7, WithMappingCovers DEF Covers
  <2>9. made.cache = copied.cache
    BY <2>1, <2>7 DEF WithMapping
  <2>10. Covers(clear, made.h) /\ copied.h.touched \subseteq made.h.touched
    BY <2>6, <2>8, CoversTransitive DEF Covers
  <2>11. AgreesOutside(made.cache, clear, made.h.touched)
    BY <2>6, <2>9, <2>10 DEF AgreesOutside
  <2>12. clear.touched \subseteq made.h.touched
    BY <2>10 DEF Covers
  <2>13. \A x \in Rels \ made.h.touched : SameView(h, clear, x) /\ Agrees(made.cache, clear, x)
    BY <2>2, <2>11, <2>12 DEF Covers, AgreesOutside
  <2>14. AgreesOutside(made.cache, h, made.h.touched)
    BY <2>11, <2>13, AgreesSame DEF AgreesOutside
  <2> QED BY <1>1, <2>14 DEF made
<1> QED BY <1>3, <1>4

-----------------------------------------------------------------------------
(* The two sessions.  Besides what each remembers, the invariant keeps     *)
(* what the writer's transaction has not invalidated as it found it, which *)
(* is what a roll-back needs, and a reader that is told of a commit.       *)
TypeOK == HeapOK(heap) /\ (tx.open => HeapOK(tx.saved))

TrackingInv ==
  /\ TypeOK
  /\ tx.open => \A r \in Rels \ tx.touched : SameView(tx.saved, heap, r)
  /\ DOMAIN cache = {Writer, Reader}
  /\ AgreesOutside(cache[Writer], heap, {})
  /\ AgreesOutside(cache[Reader], Committed, pending)

LEMMA InvInit == Init => TrackingInv
<1> SUFFICES ASSUME Init PROVE TrackingInv
  OBVIOUS
<1>1. HeapOK(heap)
  BY TablesAssumption DEF Init
<1>2. ~tx.open /\ DOMAIN cache = {Writer, Reader}
  BY DEF Init, NoTransaction
<1>3. \A s \in {Writer, Reader} : cache[s] = EmptyCache(Rels)
  BY DEF Init
<1>4. CacheTyped(EmptyCache(Rels)) /\ \A h : \A r \in Rels : Agrees(EmptyCache(Rels), h, r)
  BY DEF EmptyCache, CacheTyped, Agrees
<1>5. AgreesOutside(cache[Writer], heap, {}) /\ AgreesOutside(cache[Reader], Committed, pending)
  BY <1>3, <1>4 DEF AgreesOutside
<1> QED BY <1>1, <1>2, <1>5 DEF TrackingInv, TypeOK

(* A statement that covers what it changes.                                *)
LEMMA StatementInv ==
    ASSUME TrackingInv, NEW h, Covers(Here, h), NEW c, AgreesOutside(c, heap, h.touched), Statement(h, c)
    PROVE  TrackingInv'
<1>1. /\ heap' = h /\ pending' = pending
      /\ tx' = [open |-> TRUE, start |-> Now, saved |-> Committed, touched |-> tx.touched \cup h.touched]
      /\ cache' = [cache EXCEPT ![Writer] = Invalidate(c, h.touched)]
  BY DEF Statement
<1>2. tx'.open /\ tx'.saved = Committed /\ tx'.touched = tx.touched \cup h.touched
  BY <1>1
<1>3. HeapOK(h)
  BY DEF Covers
<1>4. HeapOK(Committed)
  BY DEF TrackingInv, TypeOK, Committed
<1>5. Here.rel = heap.rel /\ Here.info = heap.info
  BY DEF TrackingInv, TypeOK, HeapOK, Here
<1>6. \A r \in Rels \ h.touched : SameView(heap, h, r)
  BY <1>5 DEF Covers, SameView
<1>7. \A r \in Rels \ (tx.touched \cup h.touched) : SameView(Committed, h, r)
  BY <1>6 DEF TrackingInv, Committed, SameView
<1>8. AgreesOutside(c, h, h.touched)
  BY <1>6, AgreesSame DEF AgreesOutside
<1>9. AgreesOutside(Invalidate(c, h.touched), h, {})
  <2>1. AgreesOutside(c, h, h.touched \cup {})
    BY <1>8
  <2> QED BY <2>1, InvalidateAgrees
<1>10. Committed' = Committed
  BY <1>2 DEF Committed
<1>11. DOMAIN cache' = {Writer, Reader} /\ cache'[Writer] = Invalidate(c, h.touched) /\ cache'[Reader] = cache[Reader]
  BY <1>1 DEF TrackingInv, Writer, Reader
<1>12. TypeOK'
  BY <1>1, <1>2, <1>3, <1>4 DEF TypeOK
<1>13. \A r \in Rels \ tx'.touched : SameView(tx'.saved, heap', r)
  BY <1>1, <1>2, <1>7
<1>14. AgreesOutside(cache'[Writer], heap', {})
  BY <1>1, <1>9, <1>11
<1>15. AgreesOutside(cache'[Reader], Committed', pending')
  BY <1>1, <1>10, <1>11 DEF TrackingInv
<1> QED BY <1>11, <1>12, <1>13, <1>14, <1>15 DEF TrackingInv, SameView, AgreesOutside, CacheTyped, Agrees,
        provsql_fetch_table_info, provsql_fetch_ancestry, fetch_relation_keys

(* A statement starts from the database with nothing invalidated yet.      *)
LEMMA HereOK ==
    ASSUME TrackingInv
    PROVE  HeapOK(Here) /\ Here.rel = heap.rel /\ AgreesOutside(cache[Writer], Here, {})
<1>1. HeapOK(heap)
  BY DEF TrackingInv, TypeOK
<1>2. DOMAIN Here = HeapFields /\ Here.rel = heap.rel /\ Here.info = heap.info
  BY <1>1 DEF HeapOK, HeapFields, Here
<1>3. HeapOK(Here)
  BY <1>1, <1>2 DEF HeapOK, HeapFields
<1>4. \A r \in Rels : SameView(heap, Here, r)
  BY <1>2 DEF SameView
<1> HIDE DEF Here
<1>5. AgreesOutside(cache[Writer], Here, {})
  BY <1>4, AgreesSame DEF TrackingInv, AgreesOutside
<1> QED BY <1>2, <1>3, <1>5

LEMMA HereAgrees ==
    ASSUME TrackingInv, NEW c, NEW rels, AgreesOutside(c, Here, rels)
    PROVE  AgreesOutside(c, heap, rels)
<1>1. Here.rel = heap.rel /\ Here.info = heap.info
  BY DEF TrackingInv, TypeOK, HeapOK, Here
<1>2. \A r \in Rels : SameView(heap, Here, r)
  BY <1>1 DEF SameView
<1> HIDE DEF Here
<1> QED BY <1>2, AgreesSame DEF AgreesOutside

LEMMA DefinitionInv ==
    ASSUME TrackingInv, NEW h, Covers(Here, h), NEW c, AgreesOutside(c, Here, h.touched), Definition(h, c)
    PROVE  TrackingInv'
BY HereAgrees, StatementInv DEF Definition

LEMMA DefineInv ==
    ASSUME TrackingInv, NEW h, Covers(Here, h), Define(h) \/ Modify(h)
    PROVE  TrackingInv'
<1>1. AgreesOutside(cache[Writer], heap, h.touched)
  BY DEF TrackingInv, AgreesOutside
<1>2. Statement(h, cache[Writer])
  BY DEF Define, Definition, Modify
<1> QED BY <1>1, <1>2, StatementInv

LEMMA TablesAreRelations ==
    /\ Targets \cup Derived \subseteq Rels \ {Temporary}
    /\ \A rows \in NewRows : IsList(rows)
BY TablesAssumption DEF Rels

(* One step for each action that runs a statement.                         *)
LEMMA DefinitionsInv ==
    ASSUME TrackingInv, NEW r \in Targets \cup Derived
    PROVE  /\ AddProvenance(r) => TrackingInv'
           /\ RemoveProvenance(r) => TrackingInv'
           /\ RepairKey(r) => TrackingInv'
           /\ \A notnull : DeclareKey(r, notnull) => TrackingInv'
           /\ Drop(r) => TrackingInv'
<1>1. r \in Rels /\ r # Temporary
  BY TablesAreRelations
<1>2. HeapOK(Here) /\ Here.rel = heap.rel
  BY HereOK
<1>3. ASSUME AddProvenance(r) PROVE TrackingInv'
  <2>1. Here.rel[r].exists /\ Define(add_provenance(Here, r))
    BY <1>2, <1>3 DEF AddProvenance
  <2>2. Covers(Here, add_provenance(Here, r))
    BY <1>1, <1>2, <2>1, AddProvenanceCovers
  <2> QED BY <2>1, <2>2, DefineInv
<1>4. ASSUME RemoveProvenance(r) PROVE TrackingInv'
  <2>1. Here.rel[r].exists /\ Define(remove_provenance(Here, r))
    BY <1>2, <1>4 DEF RemoveProvenance
  <2>2. Covers(Here, remove_provenance(Here, r))
    BY <1>1, <1>2, <2>1, RemoveProvenanceCovers
  <2> QED BY <2>1, <2>2, DefineInv
<1>5. ASSUME RepairKey(r) PROVE TrackingInv'
  <2>1. Here.rel[r].exists /\ Define(repair_key(Here, r, <<1>>))
    BY <1>2, <1>5 DEF RepairKey
  <2>2. Covers(Here, repair_key(Here, r, <<1>>))
    BY <1>1, <1>2, <2>1, RepairKeyCovers
  <2> QED BY <2>1, <2>2, DefineInv
<1>6. ASSUME NEW notnull, DeclareKey(r, notnull) PROVE TrackingInv'
  <2>1. Define(AddKey(Here, r, <<1>>, notnull))
    BY <1>6 DEF DeclareKey
  <2>2. Covers(Here, AddKey(Here, r, <<1>>, notnull))
    BY <1>1, <1>2, AddKeyCovers
  <2> QED BY <2>1, <2>2, DefineInv
<1>7. ASSUME Drop(r) PROVE TrackingInv'
  <2>1. Define(DropTable(Here, r))
    BY <1>7 DEF Drop
  <2>2. Covers(Here, DropTable(Here, r))
    BY <1>1, <1>2, DropTableCovers
  <2> QED BY <2>1, <2>2, DefineInv
<1> QED BY <1>3, <1>4, <1>5, <1>6, <1>7

LEMMA ModificationsInv ==
    ASSUME TrackingInv, NEW r \in Targets \cup Derived, NEW s \in Targets \cup Derived
    PROVE  /\ \A rows \in NewRows : Insert(r, rows) => TrackingInv'
           /\ InsertFrom(r, s) => TrackingInv'
           /\ \A cond : Delete(r, cond) => TrackingInv'
           /\ \A cond, to : Update(r, cond, to) => TrackingInv'
           /\ \A cond : ReplaceInputs(r, cond) => TrackingInv'
           /\ ReplaceBlock(r) => TrackingInv'
<1>1. r \in Rels /\ s \in Rels
  BY TablesAreRelations
<1>2. HeapOK(Here)
  BY HereOK
<1>3. ASSUME NEW rows \in NewRows, Insert(r, rows) PROVE TrackingInv'
  <2> DEFINE new == [i \in DOMAIN rows |-> Row(rows[i], NULL)]
  <2>1. Modify(InsertStatement(Here, r, new, Now))
    BY <1>3 DEF Insert
  <2>2. IsList(new)
    <3>1. IsList(rows)
      BY TablesAreRelations
    <3>2. new = [i \in DOMAIN rows |-> new[i]]
      OBVIOUS
    <3> HIDE DEF new
    <3> QED BY <3>1, <3>2, SameDomainIsList
  <2> HIDE DEF new
  <2>3. Covers(Here, InsertStatement(Here, r, new, Now))
    BY <1>1, <1>2, <2>2, InsertStatementCovers
  <2> QED BY <2>1, <2>3, DefineInv
<1>4. ASSUME InsertFrom(r, s) PROVE TrackingInv'
  <2>1. Modify(InsertSelect(Here, r, s, Now))
    BY <1>4 DEF InsertFrom
  <2>2. Covers(Here, InsertSelect(Here, r, s, Now))
    BY <1>1, <1>2, InsertSelectCovers
  <2> QED BY <2>1, <2>2, DefineInv
<1>5. ASSUME NEW cond, Delete(r, cond) PROVE TrackingInv'
  <2>1. Modify(DeleteStatement(Here, r, cond, Now))
    BY <1>5 DEF Delete
  <2>2. Covers(Here, DeleteStatement(Here, r, cond, Now))
    BY <1>1, <1>2, DeleteStatementCovers
  <2> QED BY <2>1, <2>2, DefineInv
<1>6. ASSUME NEW cond, NEW to, Update(r, cond, to) PROVE TrackingInv'
  <2>1. Modify(UpdateStatement(Here, r, cond, to, Now))
    BY <1>6 DEF Update
  <2>2. Covers(Here, UpdateStatement(Here, r, cond, to, Now))
    BY <1>1, <1>2, UpdateStatementCovers
  <2> QED BY <2>1, <2>2, DefineInv
<1>7. ASSUME NEW cond, ReplaceInputs(r, cond) PROVE TrackingInv'
  <2>1. Modify(replace_input(Here, r, cond, Now))
    BY <1>7 DEF ReplaceInputs
  <2>2. Covers(Here, replace_input(Here, r, cond, Now))
    BY <1>1, <1>2, ReplaceInputCovers
  <2> QED BY <2>1, <2>2, DefineInv
<1>8. ASSUME ReplaceBlock(r) PROVE TrackingInv'
  <2>1. PICK row \in Mem(heap.rel[r].rows) : Modify(replace_block(Here, r, row.tok.children[1], Now))
    BY <1>8 DEF ReplaceBlock
  <2>2. Covers(Here, replace_block(Here, r, row.tok.children[1], Now))
    BY <1>1, <1>2, ReplaceBlockCovers
  <2> QED BY <2>1, <2>2, DefineInv
<1> QED BY <1>3, <1>4, <1>5, <1>6, <1>7, <1>8

(* Two that are about no table in particular: the setting, and the walks   *)
(* over all of them.                                                       *)
LEMMA WholeInv ==
    ASSUME TrackingInv
    PROVE  /\ Switch => TrackingInv'
           /\ \A c : Undo(c) \/ ReplaceUpdate(c) => TrackingInv'
<1>1. HeapOK(Here)
  BY HereOK
<1>2. ASSUME Switch PROVE TrackingInv'
  <2> DEFINE g == [Here EXCEPT !.setting = IF @ = "on" THEN "off" ELSE "on"]
  <2>1. Define(g)
    BY <1>2 DEF Switch
  <2>2. Beside(Here, g)
    BY <1>1 DEF Beside, HeapOK, HeapFields
  <2> HIDE DEF g
  <2>3. Covers(Here, g)
    BY <1>1, <2>2, BesideCovers
  <2> QED BY <2>1, <2>3, DefineInv
<1>3. ASSUME NEW c, Undo(c) \/ ReplaceUpdate(c) PROVE TrackingInv'
  <2>1. Modify(undo(Here, c, Relations, Now)) \/ Modify(replace_update(Here, c, Relations, Now))
    BY <1>3 DEF Undo, ReplaceUpdate
  <2>2. Covers(Here, undo(Here, c, Relations, Now)) /\ Covers(Here, replace_update(Here, c, Relations, Now))
    BY <1>1, UndoCovers
  <2> QED BY <2>1, <2>2, DefineInv
<1> QED BY <1>2, <1>3

LEMMA CreationsInv ==
    ASSUME TrackingInv, AnswersAreLists
    PROVE  /\ \A d \in Derived, q \in Queries : CreateTableAs(d, q) => TrackingInv'
           /\ \A m, maintained : \A r \in Targets : CreateMapping(m, r, maintained) => TrackingInv'
<1>1. HeapOK(Here) /\ AgreesOutside(cache[Writer], Here, {})
  BY HereOK
<1>2. ASSUME NEW d \in Derived, NEW q \in Queries, CreateTableAs(d, q) PROVE TrackingInv'
  <2> DEFINE made == provsql_ProcessUtility(Here, cache[Writer], d, q)
  <2>1. Definition(made.h, made.cache)
    BY <1>2 DEF CreateTableAs
  <2>2. d \in Rels /\ IsList(Answer(q, Here))
    BY <1>1, TablesAreRelations DEF AnswersAreLists
  <2>3. Covers(Here, made.h) /\ AgreesOutside(made.cache, Here, made.h.touched)
    BY <1>1, <2>2, ProcessUtilityAgrees
  <2> HIDE DEF made
  <2> QED BY <2>1, <2>3, DefinitionInv
<1>3. ASSUME NEW m, NEW maintained, NEW r \in Targets, CreateMapping(m, r, maintained) PROVE TrackingInv'
  <2> DEFINE made == create_provenance_mapping(Here, cache[Writer], m, r, maintained)
  <2>1. Definition(made.h, made.cache)
    BY <1>3 DEF CreateMapping
  <2>2. Covers(Here, made.h) /\ AgreesOutside(made.cache, Here, made.h.touched)
    BY <1>1, CreateMappingAgrees
  <2> HIDE DEF made
  <2> QED BY <2>1, <2>2, DefinitionInv
<1> QED BY <1>2, <1>3

(* The end of a transaction.  The other session is told what it            *)
(* invalidated; the session that gives up forgets it.                      *)
LEMMA CommitInv == ASSUME TrackingInv, Commit PROVE TrackingInv'
<1> DEFINE logged == DOMAIN heap.log \ DOMAIN tx.saved.log
           done == [stamp_commit_time(DropTemporary(heap), logged, clock + 1)
                      EXCEPT !.tx = 0, !.fresh = {}, !.touched = {}]
<1>1. tx.open /\ heap' = done /\ tx' = NoTransaction /\ cache' = cache /\ pending' = pending \cup tx.touched
  BY DEF Commit
<1>2. HeapOK(done) /\ \A r \in Rels : SameView(heap, done, r)
  BY CommitKeeps DEF TrackingInv, TypeOK
<1> HIDE DEF done
<1>3. ~tx'.open /\ Committed' = done
  BY <1>1 DEF NoTransaction, Committed
<1>4. Committed = tx.saved /\ \A r \in Rels \ tx.touched : SameView(tx.saved, done, r)
  BY <1>1, <1>2 DEF TrackingInv, Committed, SameView
<1>5. AgreesOutside(cache[Writer], done, {})
  BY <1>2, AgreesSame DEF TrackingInv, AgreesOutside
<1>6. AgreesOutside(cache[Reader], done, pending \cup tx.touched)
  BY <1>4, AgreesSame DEF TrackingInv, AgreesOutside
<1>7. AgreesOutside(cache[Writer], heap, {})' /\ AgreesOutside(cache[Reader], Committed, pending)'
  BY <1>1, <1>3, <1>5, <1>6
<1> QED BY <1>1, <1>2, <1>3, <1>7 DEF TrackingInv, TypeOK

LEMMA RollbackInv == ASSUME TrackingInv, Rollback PROVE TrackingInv'
<1>1. /\ tx.open /\ heap' = tx.saved /\ tx' = NoTransaction /\ pending' = pending
      /\ cache' = [cache EXCEPT ![Writer] = Invalidate(cache[Writer], tx.touched)]
  BY DEF Rollback
<1>2. HeapOK(tx.saved) /\ Committed = tx.saved /\ \A r \in Rels \ tx.touched : SameView(tx.saved, heap, r)
  BY <1>1 DEF TrackingInv, TypeOK, Committed
<1>3. ~tx'.open /\ Committed' = tx.saved
  BY <1>1 DEF NoTransaction, Committed
<1>4. AgreesOutside(cache[Writer], tx.saved, tx.touched \cup {})
  BY <1>2, AgreesSame DEF TrackingInv, AgreesOutside
<1>5. AgreesOutside(Invalidate(cache[Writer], tx.touched), tx.saved, {})
  BY <1>4, InvalidateAgrees
<1>6. /\ DOMAIN cache' = {Writer, Reader} /\ cache'[Reader] = cache[Reader]
      /\ cache'[Writer] = Invalidate(cache[Writer], tx.touched)
  BY <1>1 DEF TrackingInv, Writer, Reader
<1>7. AgreesOutside(cache[Writer], heap, {})' /\ AgreesOutside(cache[Reader], Committed, pending)'
  BY <1>1, <1>2, <1>3, <1>5, <1>6 DEF TrackingInv
<1> QED BY <1>1, <1>2, <1>3, <1>6, <1>7 DEF TrackingInv, TypeOK

(* The reader.                                                             *)
LEMMA PlanningInv ==
    ASSUME TrackingInv, NEW c, AgreesOutside(c, Committed, pending'),
           cache' = [cache EXCEPT ![Reader] = c], UNCHANGED <<heap, tx>>
    PROVE  TrackingInv'
<1>1. DOMAIN cache' = {Writer, Reader} /\ cache'[Reader] = c /\ cache'[Writer] = cache[Writer]
  BY DEF TrackingInv, Writer, Reader
<1>2. Committed' = Committed
  BY DEF Committed
<1>3. AgreesOutside(cache[Writer], heap, {})' /\ AgreesOutside(cache[Reader], Committed, pending)'
  BY <1>1, <1>2 DEF TrackingInv
<1> QED BY <1>1, <1>3 DEF TrackingInv, TypeOK

LEMMA StartPlanningInv == ASSUME TrackingInv, StartPlanning PROVE TrackingInv'
<1> DEFINE c == Invalidate(cache[Reader], pending)
<1>1. pending' = {} /\ cache' = [cache EXCEPT ![Reader] = c] /\ UNCHANGED <<heap, tx>>
  BY DEF StartPlanning
<1>2. AgreesOutside(cache[Reader], Committed, pending \cup {})
  BY DEF TrackingInv
<1>3. AgreesOutside(c, Committed, {})
  BY <1>2, InvalidateAgrees
<1> HIDE DEF c
<1> QED BY <1>1, <1>3, PlanningInv

LEMMA PlanInv == ASSUME TrackingInv, NEW q, Plan(q) PROVE TrackingInv'
<1> DEFINE read == ClassifyWith(cache[Reader], Committed, q).cache
           c == provsql_lookup_relation_keys(read, Committed, Reads(q))
<1>1. pending' = pending /\ cache' = [cache EXCEPT ![Reader] = c] /\ UNCHANGED <<heap, tx>>
  BY DEF Plan
<1>2. AgreesOutside(read, Committed, pending)
  BY ClassifyAgrees DEF TrackingInv
<1> HIDE DEF read
<1>3. AgreesOutside(c, Committed, pending)
  BY <1>2, LookupAgrees
<1> HIDE DEF c
<1> QED BY <1>1, <1>3, PlanningInv

LEMMA InvNext == ASSUME AnswersAreLists, TrackingInv, [Next]_vars PROVE TrackingInv'
<1>1. CASE \E r \in Targets : AddProvenance(r) \/ RemoveProvenance(r) \/ RepairKey(r)
  BY <1>1, DefinitionsInv
<1>2. CASE \E r \in Targets, b \in BOOLEAN : DeclareKey(r, b)
  BY <1>2, DefinitionsInv
<1>3. CASE \E d \in Derived : Drop(d)
  BY <1>3, DefinitionsInv
<1>4. CASE \/ \E d \in Derived, q \in Queries : CreateTableAs(d, q)
           \/ \E m \in Mappings, r \in Targets, b \in BOOLEAN : CreateMapping(m, r, b)
  BY <1>4, CreationsInv
<1>5. CASE Switch
  BY <1>5, WholeInv
<1>6. CASE \E r \in Targets \cup Derived, rows \in NewRows : Insert(r, rows)
  BY <1>6, ModificationsInv
<1>7. CASE \E r, s \in Targets \cup Derived : InsertFrom(r, s)
  BY <1>7, ModificationsInv
<1>8. CASE \E r \in Targets \cup Derived, cond \in Deletes : Delete(r, cond)
  BY <1>8, ModificationsInv
<1>9. CASE \E r \in Targets \cup Derived, u \in Updates : Update(r, u[1], u[2])
  BY <1>9, ModificationsInv
<1>10. CASE \E c \in DOMAIN heap.log : Undo(c) \/ ReplaceUpdate(c)
  BY <1>10, WholeInv
<1>11. CASE \E r \in Targets, cond \in Deletes : ReplaceInputs(r, cond)
  BY <1>11, ModificationsInv
<1>12. CASE \E r \in Targets : ReplaceBlock(r)
  BY <1>12, ModificationsInv
<1>13. CASE Commit \/ Rollback \/ StartPlanning \/ \E q \in Queries : Plan(q)
  BY <1>13, CommitInv, RollbackInv, StartPlanningInv, PlanInv
<1>14. CASE UNCHANGED vars
  <2>1. heap' = heap /\ tx' = tx /\ cache' = cache /\ pending' = pending /\ Committed' = Committed
    BY <1>14 DEF vars, Committed
  <2> QED BY <2>1 DEF TrackingInv, TypeOK
<1> QED
  BY <1>1, <1>2, <1>3, <1>4, <1>5, <1>6, <1>7, <1>8, <1>9, <1>10, <1>11, <1>12, <1>13, <1>14, Zenon DEF Next

-----------------------------------------------------------------------------
(* In every state, whatever was done, rolled back or planned, the rows of  *)
(* every table are a list, and the column "provsql" and its guard are on   *)
(* tables that exist, in the database the writer sees and in the one a     *)
(* roll-back returns to.                                                   *)
THEOREM TablesTyped == ASSUME AnswersAreLists PROVE Spec => []TypeOK
<1>1. Init => TrackingInv
  BY InvInit
<1>2. TrackingInv /\ [Next]_vars => TrackingInv'
  BY InvNext
<1>3. TrackingInv => TypeOK
  BY DEF TrackingInv
<1> QED BY <1>1, <1>2, <1>3, PTL DEF Spec

(* A session never plans from a record that is out of date: what the       *)
(* backend remembers of a table, its record, its ancestors and its keys    *)
(* (provsql_lookup_table_info, provsql_lookup_ancestry,                    *)
(* provsql_lookup_relation_keys), is what its transaction would read, but  *)
(* for the invalidations of others that have not reached it.               *)
THEOREM CacheIsCurrent == ASSUME AnswersAreLists PROVE Spec => []CacheAgrees
<1>1. Init => TrackingInv
  BY InvInit
<1>2. TrackingInv /\ [Next]_vars => TrackingInv'
  BY InvNext
<1>3. TrackingInv => CacheAgrees
  BY DEF TrackingInv, AgreesOutside, Agrees, CacheAgrees, Writer, Reader
<1> QED BY <1>1, <1>2, <1>3, PTL DEF Spec
=============================================================================
