--------------------------- MODULE MCTrackedTables ---------------------------
(***************************************************************************)
(* Two small tables, tracked row by row or in blocks, with what the        *)
(* sessions record on and off; queries that the classifier certifies and   *)
(* queries it must not.                                                    *)
(***************************************************************************)
EXTENDS TrackedTables

MCRelations == <<"r", "s", "d">>

(* r has two rows with one key, s one row.                                 *)
Untracked == EmptyHeap([r |-> <<<<1, 1>>, <<1, 2>>>>, s |-> <<<<2, 1>>>>])
Independent == add_provenance(add_provenance(Untracked, "r"), "s")
Blocks == repair_key(add_provenance(Untracked, "s"), "r", <<1>>)
On(h) == [h EXCEPT !.setting = "on", !.touched = {}]
Off(h) == [h EXCEPT !.touched = {}]

(* With a maintained mapping of r, and with a copy of r.                   *)
Empty == EmptyCache(DOMAIN Untracked.rel)
Mapped(h) == DropTemporary(create_provenance_mapping(h, Empty, "m", "r", TRUE).h)
Copied(h) == provsql_ProcessUtility(h, Empty, "d", WholeTable("r")).h

Then(h, definitions, modifications, plans) ==
  [heap |-> h, left |-> [definitions |-> definitions, modifications |-> modifications, plans |-> plans]]

MCScenarios ==
  LET mapped(h) == On(Mapped(h))
  IN  {Then(On(Independent), 1, 1, 1), Then(mapped(add_provenance(Untracked, "r")), 0, 3, 0),
       Then(On(Copied(Mapped(Blocks))), 0, 2, 1), Then(On(Blocks), 2, 0, 1),
       Then(Off(Untracked), 2, 1, 0)}

MCDeletes == {{1}, {1, 2}}
MCUpdates == {<<{1, 2}, 2>>}
MCNewRows == {<<<<2, 1>>>>}

(* SELECT * FROM a table and from a subquery, with the columns swapped and *)
(* without the key, GROUP BY the key, joins, and UNION ALL.                *)
Relation(r) == [kind |-> "relation", rel |-> r]
Sub(q) == [kind |-> "subquery", q |-> q]
SubSelect == [WholeTable("r") EXCEPT !.rtable = <<Sub(WholeTable("r"))>>, !.provsql = <<>>]
Swapped == [WholeTable("r") EXCEPT !.target = <<Column(1, 2), Column(1, 1)>>]
KeyLost == [WholeTable("r") EXCEPT !.target = <<Column(1, 2), Expression>>]
Grouped1 == [WholeTable("r") EXCEPT !.target = <<Column(1, 1), Column(1, 1)>>,
                                    !.group = <<Column(1, 1)>>, !.provsql = <<>>]
Joined(a, b) ==
  [WholeTable(a) EXCEPT
     !.rtable = <<Relation(a), Relation(b)>>, !.from = <<Tree("inner", Ref(1), Ref(2))>>,
     !.equal = {<<Column(1, 1), Column(2, 1)>>}, !.target = <<Column(1, 1), Column(2, 2)>>, !.provsql = <<>>]
UnionAll(a, b) ==
  [WholeTable("r") EXCEPT !.rtable = <<Sub(WholeTable(a)), Sub(WholeTable(b))>>, !.from = <<>>,
     !.setop = Tree("union all", Ref(1), Ref(2)), !.provsql = <<>>]

MCQueries ==
  LET r == WholeTable("r")
  IN  {r, WholeTable("d"), SubSelect, Swapped, KeyLost, Grouped1,
       Joined("r", "s"), Joined("r", "d"), UnionAll("r", "s")}
=============================================================================
