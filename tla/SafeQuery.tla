----------------------------- MODULE SafeQuery -----------------------------
(***************************************************************************)
(* The rewriting of a hierarchical conjunctive query when provenance is    *)
(* Boolean (src/safe_query.c, src/qual_classify.c), so that its tokens are *)
(* read-once: subqueries that are plain joins are inlined, copies of a     *)
(* table joined on a key are merged, conditions that pin a column are      *)
(* handed on, and every entry becomes a DISTINCT subquery, or a grouped    *)
(* join with others, that shows only what is joined above it: its slots.   *)
(***************************************************************************)
EXTENDS SQLQuery

CONSTANT
  TableInfo  \* what is recorded of a table: name -> [kind, block, keys, ancestors]

LOCAL Mem(s) == {s[i] : i \in DOMAIN s}
LOCAL Each(s, F(_)) == LET r == [i \in DOMAIN s |-> F(s[i])] IN SubSeq(r, 1, Len(s))
LOCAL Upto(n) == [i \in 1..n |-> i]

-----------------------------------------------------------------------------
(* Conjuncts and the columns they talk of, <<entry, position>>.            *)
RECURSIVE qc_flatten_and(_), qc_collect_vars(_)
qc_flatten_and(e) ==
  CASE IsTrue(e) -> <<>>
    [] e.op = "and" -> FlattenSeq(Each(e.args, qc_flatten_and))
    [] OTHER -> <<e>>

qc_collect_vars(e) ==
  CASE e.op # "var" -> FlattenSeq(Each(e.args, qc_collect_vars))
    [] e.x[3] = 0 -> <<<<e.x[1], e.x[2]>>>>
    [] OTHER -> <<>>

VarsOf(es) == Distinct(FlattenSeq(Each(es, qc_collect_vars)))
qc_varnos(e) == {v[1] : v \in Mem(qc_collect_vars(e))}

LOCAL IsColumn(e) == e.op = "var" /\ e.x[3] = 0
qc_is_var_eq(e) == e.op = "=" /\ \A i \in {1, 2} : IsColumn(e.args[i])
qc_is_var_const_eq(e) ==
  e.op = "=" /\ \E i \in {1, 2} : /\ IsColumn(e.args[i]) /\ e.args[3 - i].op = "const"
                                  /\ e.args[3 - i].x[1] # NULL
PinnedColumn(e) == qc_collect_vars(e)[1]
PinnedTo(e) == (CHOOSE arg \in Mem(e.args) : arg.op = "const").x[1]

qc_collect_equalities(cs) == SelectSeq(cs, qc_is_var_eq)

(* The conjuncts of one entry, entry by entry, and those that are left.    *)
qc_split_quals(where, n) ==
  LET cs == qc_flatten_and(where)
      own(j) == SelectSeq(cs, LAMBDA c : qc_varnos(c) = {j})
  IN  [atom |-> Each(Upto(n), own),
       residual |-> SelectSeq(cs, LAMBDA c : Cardinality(qc_varnos(c)) # 1)]

(* Classes of equal columns: the number of the one that names the class,   *)
(* for every column of a list.                                             *)
ClassesOf(vars, cs) ==
  LET at(arg) == <<arg.x[1], arg.x[2]>>
      number(v) == CHOOSE i \in DOMAIN vars : vars[i] = v
      merge(cls, e) ==
        IF {at(e.args[1]), at(e.args[2])} \subseteq Mem(vars)
          THEN LET l == cls[number(at(e.args[1]))]
                   r == cls[number(at(e.args[2]))]
               IN  Each(cls, LAMBDA c : IF c = r THEN l ELSE c)
          ELSE cls
  IN  FoldLeft(merge, Each(vars, number), qc_collect_equalities(cs))

-----------------------------------------------------------------------------
(* A query under analysis: its tables, its columns, their classes and the  *)
(* columns its target list shows.                                          *)
Analysis(q, residual) ==
  LET shown == Each(q.tl, LAMBDA t : t.e)
      vars == VarsOf(shown \o residual)
  IN  [n |-> Len(q.rt), table |-> Each(q.rt, LAMBDA r : r.name), vars |-> vars,
       cls |-> ClassesOf(vars, residual),
       head |-> {i \in DOMAIN vars : vars[i] \in Mem(VarsOf(shown))}]

Reprs(a) == SelectSeq([i \in DOMAIN a.vars |-> i], LAMBDA i : a.cls[i] = i)
MembersOf(a, c) == {i \in DOMAIN a.vars : a.cls[i] = c}
AtomsOf(a, c) == {a.vars[i][1] : i \in MembersOf(a, c)}

(* A class with two columns of an entry counts for no entry.               *)
Clashes(a, c) == Cardinality(MembersOf(a, c)) # Cardinality(AtomsOf(a, c))
Full(a, c) == ~ Clashes(a, c) /\ AtomsOf(a, c) = 1..a.n
Shared(a, c) == ~ Clashes(a, c) /\ Cardinality(AtomsOf(a, c)) >= 2
Partial(a, c) == Shared(a, c) /\ ~ Full(a, c)
Single(a, c) == ~ Clashes(a, c) /\ Cardinality(AtomsOf(a, c)) = 1

Anchored(a, c, j) == j \in AtomsOf(a, c)
Anchor(a, c, j) == a.vars[CHOOSE i \in MembersOf(a, c) : a.vars[i][1] = j][2]

(* Functional dependencies: a key whose columns are joined determines the  *)
(* other columns of its entry; a table without tokens counts as determined. *)
CertainAtom(a, j) == ~ Schema[a.table[j]].tracked /\ TableInfo[a.table[j]].kind = "none"

JoinedKeys(a, j) ==
  {key \in TableInfo[a.table[j]].keys :
     \A col \in key : \E i \in DOMAIN a.vars : a.vars[i] = <<j, col>> /\ Shared(a, a.cls[i])}

Determined(a, c, j) ==
  \/ CertainAtom(a, j)
  \/ \E key \in JoinedKeys(a, j), i \in MembersOf(a, c) : a.vars[i][1] = j /\ a.vars[i][2] \notin key

AtomsFd(a, c) == {j \in AtomsOf(a, c) : ~ Determined(a, c, j)}

-----------------------------------------------------------------------------
(* What every entry becomes: the group it is joined in, 0 for none, and    *)
(* its slots; what every group is: its members, and conditions of its own. *)
SlotOf(base, c, outer) == [base |-> base, class |-> c, outer |-> outer]
AtomIn(group, slots) == [group |-> group, slots |-> slots]
NotFound == [atoms |-> <<>>, groups |-> <<>>]

(* Two classes x and y, no column shown, and a single entry that joins     *)
(* them by a key on x: the entries of x are grouped by the y they have.    *)
Multi(a) == SelectSeq(Reprs(a), LAMBDA c : Shared(a, c))
Middle(a) == AtomsOf(a, Multi(a)[1]) \cap AtomsOf(a, Multi(a)[2])

IsBridged(a) ==
  /\ Len(Multi(a)) = 2 /\ a.head = {}
  /\ Cardinality(Middle(a)) = 1
  /\ \E c \in Mem(Multi(a)), j \in Middle(a) : Determined(a, c, j)
  /\ AtomsOf(a, Multi(a)[1]) \cup AtomsOf(a, Multi(a)[2]) = 1..a.n

BridgedAtoms(a) ==
  LET middle == CHOOSE j \in Middle(a) : TRUE
      first == Determined(a, Multi(a)[1], middle)
      y == IF first THEN Multi(a)[1] ELSE Multi(a)[2]
      x == IF first THEN Multi(a)[2] ELSE Multi(a)[1]
      atom(j) == AtomIn(IF Anchored(a, x, j) THEN 1 ELSE 0,
                        IF Anchored(a, y, j) THEN <<SlotOf(Anchor(a, y, j), y, 1)>> ELSE <<>>)
  IN  [atoms |-> Each(Upto(a.n), atom),
       groups |-> <<[members |-> SelectSeq(Upto(a.n), LAMBDA j : Anchored(a, x, j)),
                     quals |-> <<>>]>>]

(* Without a root the entries may still nest, dependencies counted.        *)
FdAware(a) ==
  /\ \A c \in Mem(Reprs(a)) : ~ Clashes(a, c)
  /\ \A j \in 1..a.n : \E c \in Mem(Multi(a)) : Anchored(a, c, j)
  /\ \A c, d \in Mem(Multi(a)) :
       \/ AtomsFd(a, c) \subseteq AtomsFd(a, d)
       \/ AtomsFd(a, d) \subseteq AtomsFd(a, c)
       \/ AtomsFd(a, c) \cap AtomsFd(a, d) = {}

(* The class whose column comes first in an entry.                         *)
RootOf(a) == SelectSeq(Reprs(a), LAMBDA c : Full(a, c))
LocalRoot(a, j) ==
  IF RootOf(a) # <<>> THEN RootOf(a)[1]
  ELSE LET own == SelectSeq(Multi(a), LAMBDA c : j \in AtomsFd(a, c))
           any == SelectSeq(Multi(a), LAMBDA c : Anchored(a, c, j))
       IN  (own \o any)[1]

(* Sets of entries linked pairwise, each numbered by its first entry.      *)
RECURSIVE Spread(_, _, _)
Spread(Linked(_, _), S, n) ==
  LET T == S \cup {j \in 1..n : \E i \in S : Linked(i, j)}
  IN  IF T = S THEN S ELSE Spread(Linked, T, n)
Components(Linked(_, _), n) ==
  LET least(j) == Min(Spread(Linked, {j}, n))
      firsts == {least(j) : j \in 1..n}
  IN  Each(Upto(n), LAMBDA j : Cardinality({f \in firsts : f <= least(j)}))

(* Entries that share a class below the root are joined in a group: all of *)
(* them in one when some entry shares none, otherwise by what they share.  *)
Signature(a, j) == {c \in Mem(Reprs(a)) : Partial(a, c) /\ Anchored(a, c, j)}
GroupsOf(a) ==
  LET js == Upto(a.n)
      linked(i, j) == Signature(a, i) \cap Signature(a, j) # {}
  IN  CASE RootOf(a) = <<>> -> Each(js, LAMBDA j : 0)
        [] \E j \in 1..a.n : Signature(a, j) = {} ->
             Each(js, LAMBDA j : IF Signature(a, j) = {} THEN 0 ELSE 1)
        [] OTHER -> Components(linked, a.n)

InGroup(group, g) == SelectSeq([j \in DOMAIN group |-> j], LAMBDA j : group[j] = g)

(* Every column is in a class a slot or a group takes care of.             *)
HasPlace(a, group, i) ==
  \/ IF RootOf(a) = <<>> THEN Shared(a, a.cls[i])
     ELSE Full(a, a.cls[i]) \/ (Partial(a, a.cls[i]) /\ group[a.vars[i][1]] # 0)
  \/ Single(a, a.cls[i]) /\ i \in a.head

(* The slots: the root, the other joined classes, the columns shown that   *)
(* are not joined; the latter are numbered through the members of a group. *)
JoinSlots(a, j) ==
  LET root == LocalRoot(a, j)
      kept(c) == IF RootOf(a) = <<>> THEN Shared(a, c) ELSE Full(a, c)
  IN  <<root>> \o SelectSeq(Reprs(a), LAMBDA c : c # root /\ kept(c) /\ Anchored(a, c, j))

ShownSlots(a, j) ==
  SelectSeq([i \in DOMAIN a.vars |-> i],
            LAMBDA i : i \in a.head /\ Single(a, a.cls[i]) /\ a.vars[i][1] = j)

SlotsBefore(a, group, j) ==
  IF group[j] = 0 THEN Len(JoinSlots(a, j))
  ELSE LET members == InGroup(group, group[j])
           before == SelectSeq(members, LAMBDA m : m < j)
       IN  FoldLeft(LAMBDA n, m : n + Len(ShownSlots(a, m)), Len(JoinSlots(a, members[1])), before)

SlotsOf(a, group, j) ==
  LET joined == JoinSlots(a, j)
      shown == ShownSlots(a, j)
      before == SlotsBefore(a, group, j)
      slot(k) == IF k <= Len(joined) THEN SlotOf(Anchor(a, joined[k], j), joined[k], k)
                 ELSE LET i == shown[k - Len(joined)]
                      IN  SlotOf(a.vars[i][2], a.cls[i], before + k - Len(joined))
  IN  Each([k \in 1..(Len(joined) + Len(shown)) |-> k], slot)

(* The alternatives of a block stay together.                              *)
BlocksWhole(a, slots, j) ==
  LET info == TableInfo[a.table[j]]
  IN  info.kind = "BID" => /\ info.block # {}
                           /\ info.block \subseteq {s.base : s \in Mem(slots)}

(* The members of a group are joined on the classes all entries share.     *)
GroupQuals(a, members) ==
  LET full == SelectSeq(Reprs(a), LAMBDA c : Full(a, c))
      eq(c, m) == Eq(Var(members[1], Anchor(a, c, members[1]), 0), Var(m, Anchor(a, c, m), 0))
  IN  FlattenSeq(Each(full, LAMBDA c : Each(Tail(members), LAMBDA m : eq(c, m))))

RootedAtoms(a) ==
  LET group == GroupsOf(a)
      atoms == Each(Upto(a.n), LAMBDA j : AtomIn(group[j], SlotsOf(a, group, j)))
      made(g) == [members |-> InGroup(group, g), quals |-> GroupQuals(a, InGroup(group, g))]
  IN  IF /\ \A i \in DOMAIN a.vars : HasPlace(a, group, i)
         /\ \A j \in 1..a.n : BlocksWhole(a, atoms[j].slots, j)
        THEN [atoms |-> atoms, groups |-> Each([g \in 1..Max(Mem(group)) |-> g], made)]
        ELSE NotFound

find_hierarchical_root_atoms(q, residual) ==
  LET a == Analysis(q, residual)
  IN  CASE a.n < 2 \/ a.vars = <<>> -> NotFound
        [] RootOf(a) = <<>> /\ IsBridged(a) -> BridgedAtoms(a)
        [] RootOf(a) # <<>> \/ FdAware(a) -> RootedAtoms(a)
        [] OTHER -> NotFound

-----------------------------------------------------------------------------
(* Queries with their columns put elsewhere.                               *)
Renumbered(e, to) == RenumberExpr(e, to, 0)

(* Its target entries and its WHERE over other columns: By(<<no, at>>) is  *)
(* what a column becomes.                                                  *)
LOCAL ColumnsOf(es) == Mem(VarsOf(es))
RemapAll(q, By(_)) ==
  LET es == Each(q.tl, LAMBDA t : t.e) \o <<q.where>>
      m == [x \in {<<v[1], v[2], 0>> : v \in ColumnsOf(es)} |-> By(<<x[1], x[2]>>)]
  IN  [q EXCEPT !.tl = Each(@, LAMBDA t : [t EXCEPT !.e = Remap(@, m)]), !.where = Remap(@, m)]

-----------------------------------------------------------------------------
(* Which queries are candidates: plain joins of tables, each once unless   *)
(* its copies are known to be disjoint, none opaque, no shared ancestors.  *)
TablesOf(q) == {q.rt[i].name : i \in DOMAIN q.rt}

is_conjunctive(q, approved) ==
  /\ q.set = NoSet /\ ~ hasAggs(q) /\ ~ hasSubLinks(q)
  /\ q.rt # <<>>
  /\ q.group # <<>> \/ q.distinct
  /\ \A i \in DOMAIN q.from : q.from[i].j = "ref"
  /\ \A i \in DOMAIN q.rt : q.rt[i].k = "rel"
  /\ \A i, j \in DOMAIN q.rt : (i # j /\ q.rt[i].name = q.rt[j].name) => q.rt[i].name \in approved
  /\ \A n \in TablesOf(q) : /\ Schema[n].tracked => TableInfo[n].kind # "none"
                            /\ TableInfo[n].kind # "OPAQUE"

(* A slip: tables that share rows count as independent.                    *)
is_safe_query_candidate_Overlaps(q, approved) == is_conjunctive(q, approved)

is_safe_query_candidate(q, approved) ==
  /\ is_conjunctive(q, approved)
  /\ \A m, n \in TablesOf(q) : m # n => TableInfo[m].ancestors \cap TableInfo[n].ancestors = {}

-----------------------------------------------------------------------------
(* Subqueries of FROM that are plain joins of tables are inlined.          *)
RECURSIVE is_inlineable_subquery(_)
is_inlineable_subquery(sub) ==
  /\ sub.set = NoSet /\ ~ hasSubLinks(sub) /\ ~ hasAggs(sub)
  /\ sub.ctes = <<>> /\ ~ sub.distinct /\ sub.group = <<>> /\ IsTrue(sub.having)
  /\ sub.from # <<>> /\ \A i \in DOMAIN sub.from : sub.from[i].j = "ref"
  /\ \A i \in DOMAIN sub.rt :
       \/ sub.rt[i].k = "rel"
       \/ sub.rt[i].k = "sub" /\ ~ sub.rt[i].lateral /\ is_inlineable_subquery(sub.rt[i].q)
  /\ \A i \in DOMAIN sub.tl : sub.tl[i].junk \/ (sub.tl[i].e.op = "var" /\ sub.tl[i].e.x[3] = 0)

inline_one_subquery(q, target) ==
  LET sub == q.rt[target].q
      shift == [i \in DOMAIN sub.rt |-> i + Len(q.rt)]
      by(v) == IF v[1] = target THEN Renumbered(sub.tl[v[2]].e, shift) ELSE Var(v[1], v[2], 0)
      from == FlattenSeq(Each(q.from, LAMBDA j : IF j = Ref(target)
                                                   THEN Each(sub.from, LAMBDA r : Ref(shift[r.n])) ELSE <<j>>))
      own == RemapAll([q EXCEPT !.rt = @ \o sub.rt, !.from = from], by)
  IN  [own EXCEPT !.where = AndOf(qc_flatten_and(@) \o qc_flatten_and(Renumbered(sub.where, shift)))]

(* The entries that are left get their numbers without the others.         *)
compact_orphan_rtes(q, orphans) ==
  LET kept == SelectSeq(Upto(Len(q.rt)), LAMBDA i : i \notin orphans)
      to == [i \in Mem(kept) |-> CHOOSE k \in DOMAIN kept : kept[k] = i]
  IN  [RenumberQuery(q, to, 0) EXCEPT !.rt = Each(kept, LAMBDA i : q.rt[i])]

Inlineable(q) ==
  SelectSeq(q.from, LAMBDA j : /\ j.j = "ref" /\ q.rt[j.n].k = "sub" /\ ~ q.rt[j.n].lateral
                               /\ is_inlineable_subquery(q.rt[j.n].q))

RECURSIVE InlineAll(_, _)
InlineAll(q, orphans) ==
  IF Inlineable(q) = <<>> THEN IF orphans = {} THEN q ELSE compact_orphan_rtes(q, orphans)
  ELSE LET target == Inlineable(q)[1].n
       IN  InlineAll(inline_one_subquery(q, target), orphans \cup {target})

try_inline_simple_subqueries(q) == InlineAll(q, {})

-----------------------------------------------------------------------------
(* Entries of one table.                                                   *)
Copies(q, i) ==
  IF q.rt[i].k # "rel" THEN {i}
  ELSE {j \in DOMAIN q.rt : q.rt[j].k = "rel" /\ q.rt[j].name = q.rt[i].name}

(* All of them equated on a key are one entry: the first.                  *)
try_pk_self_join_unification(q) ==
  LET cs == qc_flatten_and(q.where)
      vars == VarsOf(Each(q.tl, LAMBDA t : t.e) \o cs)
      cls == ClassesOf(vars, cs)
      equated(i, j, col) == \E k, l \in DOMAIN vars : /\ vars[k] = <<i, col>> /\ vars[l] = <<j, col>>
                                                      /\ cls[k] = cls[l]
      unifies(i, j) == \E key \in TableInfo[q.rt[i].name].keys : \A col \in key : equated(i, j, col)
      keeper == [i \in DOMAIN q.rt |->
                   IF Cardinality(Copies(q, i)) > 1 /\ \A j, k \in Copies(q, i) : j < k => unifies(j, k)
                     THEN Min(Copies(q, i)) ELSE i]
      kept == SelectSeq(Upto(Len(q.rt)), LAMBDA i : keeper[i] = i)
      to == [i \in DOMAIN q.rt |-> CHOOSE k \in DOMAIN kept : kept[k] = keeper[i]]
  IN  IF Len(kept) = Len(q.rt) THEN q
      ELSE [RenumberQuery(q, to, 0) EXCEPT !.rt = Each(kept, LAMBDA i : q.rt[i]), !.from = Distinct(@)]

(* Tables whose copies are pairwise pinned to different constants.         *)
try_disjoint_constant_self_join_split(q) ==
  LET pins == SelectSeq(qc_flatten_and(q.where), qc_is_var_const_eq)
      disjoint(i, j) == \E p, r \in Mem(pins) : /\ PinnedColumn(p)[1] = i /\ PinnedColumn(r)[1] = j
                                                /\ PinnedColumn(p)[2] = PinnedColumn(r)[2]
                                                /\ PinnedTo(p) # PinnedTo(r)
  IN  {n \in {q.rt[i].name : i \in {i \in DOMAIN q.rt : q.rt[i].k = "rel" /\ Copies(q, i) # {i}}} :
         \A i, j \in DOMAIN q.rt : (i < j /\ q.rt[i] = Rel(n) /\ q.rt[j] = Rel(n)) => disjoint(i, j)}

(* A constant that pins a column pins its class: every entry of the class  *)
(* gets the condition, and the conjuncts between pinned columns go.        *)
apply_constant_selection_fd_pass(q, split) ==
  LET own == FlattenSeq(split.atom)
      vars == VarsOf(Each(q.tl, LAMBDA t : t.e) \o split.residual \o own)
      cls == ClassesOf(vars, split.residual)
      number(v) == CHOOSE i \in DOMAIN vars : vars[i] = v
      pins == SelectSeq(own \o split.residual, qc_is_var_const_eq)
      pinOf(c) == SelectSeq(pins, LAMBDA p : cls[number(PinnedColumn(p))] = c)
      pinned(v) == pinOf(cls[number(v)]) # <<>>
      has(j, v) == \E e \in Mem(split.atom[j]) : qc_is_var_const_eq(e) /\ PinnedColumn(e) = v
      more(j) == SelectSeq(vars, LAMBDA v : v[1] = j /\ pinned(v) /\ ~ has(j, v))
      cond(v) == Eq(Var(v[1], v[2], 0), Const(PinnedTo(pinOf(cls[number(v)])[1])))
      redundant(e) == /\ qc_collect_vars(e) # <<>> /\ \A v \in Mem(qc_collect_vars(e)) : pinned(v)
  IN  IF Len(q.rt) < 2 \/ vars = <<>> THEN split
      ELSE [atom |-> Each(Upto(Len(q.rt)), LAMBDA j : split.atom[j] \o Each(more(j), cond)),
            residual |-> SelectSeq(split.residual, LAMBDA e : ~ redundant(e))]

-----------------------------------------------------------------------------
(* A query over some entries, with their numbers in it.                    *)
SubqueryOver(q, entries, conds, tl) ==
  LET to == [j \in Mem(entries) |-> CHOOSE k \in DOMAIN entries : entries[k] = j]
  IN  Select(Each(entries, LAMBDA j : q.rt[j]), Each(Upto(Len(entries)), Ref),
             AndOf(Each(conds, LAMBDA e : Renumbered(e, to))),
             Each(tl, LAMBDA e : TE(Renumbered(e, to))))

(* Components that no equality joins are queries of their own: each shows  *)
(* its target entries, or a constant, and is grouped by them.              *)
compute_atom_components(q, residual) ==
  LET eqs == Mem(qc_collect_equalities(residual))
      linked(i, j) == \E e \in eqs : {e.args[1].x[1], e.args[2].x[1]} = {i, j}
  IN  Components(linked, Len(q.rt))

ShownBy(q, comp, k) ==
  SelectSeq(q.tl, LAMBDA t : qc_varnos(t.e) # {} /\ comp[Min(qc_varnos(t.e))] = k)

ComponentQuery(q, split, comp, k) ==
  LET entries == SelectSeq(Upto(Len(q.rt)), LAMBDA j : comp[j] = k)
      inside == SelectSeq(split.residual, LAMBDA e : qc_varnos(e) # {} /\ {comp[j] : j \in qc_varnos(e)} = {k})
      conds == inside \o FlattenSeq(Each(entries, LAMBDA j : split.atom[j]))
      shown == Each(ShownBy(q, comp, k), LAMBDA t : t.e)
      tl == IF shown = <<>> THEN <<Const(1)>> ELSE shown
  IN  [SubqueryOver(q, entries, conds, tl) EXCEPT !.group = Upto(Len(tl))]

(* The column of its component an entry is found in: the last it is in.    *)
ExposedAt(q, comp, j) ==
  LET shown == ShownBy(q, comp, comp[j])
      S == {i \in DOMAIN shown : j \in qc_varnos(shown[i].e)}
  IN  IF S = {} THEN 0 ELSE Max(S)

rewrite_multi_component(q, split, comp) ==
  LET n == Max(Mem(comp))
      outside == SelectSeq(split.residual, LAMBDA e : Cardinality({comp[j] : j \in qc_varnos(e)}) # 1)
      by(v) == Var(comp[v[1]], ExposedAt(q, comp, v[1]), 0)
      outer == [q EXCEPT !.where = AndOf(outside)]
      used == ColumnsOf(Each(q.tl, LAMBDA t : t.e) \o outside)
      parts == Each(Upto(n), LAMBDA k : Sub(ComponentQuery(q, split, comp, k)))
  IN  IF \/ \E t \in Mem(q.tl) : Cardinality({comp[j] : j \in qc_varnos(t.e)}) > 1
         \/ \E v \in used : ExposedAt(q, comp, v[1]) = 0
        THEN NoQuery
        ELSE [RemapAll(outer, by) EXCEPT !.rt = parts, !.from = Each(Upto(n), Ref)]

-----------------------------------------------------------------------------
(* A conjunct between the members of one group is a condition of the group. *)
GroupOfQual(atoms, e) ==
  LET gs == {atoms[j].group : j \in qc_varnos(e)}
  IN  IF Cardinality(gs) = 1 THEN CHOOSE g \in gs : TRUE ELSE 0

safe_partition_residual(residual, found) ==
  LET of(g) == SelectSeq(residual, LAMBDA e : GroupOfQual(found.atoms, e) = g)
  IN  [groups |-> Each(Upto(Len(found.groups)),
                       LAMBDA g : [found.groups[g] EXCEPT !.quals = @ \o of(g)]),
       outer |-> IF found.groups = <<>> THEN residual ELSE of(0)]

safe_build_inner_wrap(q, j, slots, pushed) ==
  [SubqueryOver(q, <<j>>, pushed, Each(slots, LAMBDA s : Var(j, s.base, 0))) EXCEPT !.distinct = TRUE]

(* A group shows the slots of its members, each number once.               *)
safe_build_group_subquery(q, group, atoms, pushed) ==
  LET slots == FlattenSeq(Each(group.members, LAMBDA j : Each(atoms[j].slots, LAMBDA s : <<j, s>>)))
      emit(out, s) == IF \E k \in DOMAIN out : out[k][2].outer = s[2].outer THEN out ELSE Append(out, s)
      emitted == FoldLeft(emit, <<>>, slots)
      conds == group.quals \o FlattenSeq(Each(group.members, LAMBDA j : pushed[j]))
  IN  [SubqueryOver(q, group.members, conds, Each(emitted, LAMBDA s : Var(s[1], s[2].base, 0)))
         EXCEPT !.group = Upto(Len(emitted))]

(* The entries of the new query, in order: the entry, or the first of its  *)
(* group, each stands for.                                                 *)
Leaders(found) ==
  LET atoms == found.atoms
  IN  SelectSeq(Upto(Len(atoms)), LAMBDA j : \A i \in 1..(j - 1) : atoms[j].group = 0
                                                                   \/ atoms[i].group # atoms[j].group)

OuterEntry(found, j) ==
  CHOOSE k \in DOMAIN Leaders(found) :
    LET l == Leaders(found)[k]
    IN  l = j \/ (found.atoms[j].group # 0 /\ found.atoms[l].group = found.atoms[j].group)

SlotFor(found, v) == {s \in Mem(found.atoms[v[1]].slots) : s.base = v[2]}

rewrite_hierarchical_cq(q, found, pushed, parted) ==
  LET entry(j) ==
        LET g == found.atoms[j].group
        IN  Sub(IF g = 0 THEN safe_build_inner_wrap(q, j, found.atoms[j].slots, pushed[j])
                ELSE safe_build_group_subquery(q, parted.groups[g], found.atoms, pushed))
      by(v) == Var(OuterEntry(found, v[1]), (CHOOSE s \in SlotFor(found, v) : TRUE).outer, 0)
      outer == [q EXCEPT !.where = AndOf(parted.outer)]
      used == ColumnsOf(Each(q.tl, LAMBDA t : t.e) \o parted.outer)
      leaders == Leaders(found)
  IN  IF \E v \in used : SlotFor(found, v) = {} THEN NoQuery
      ELSE [RemapAll(outer, by) EXCEPT !.rt = Each(leaders, entry), !.from = Each(Upto(Len(leaders)), Ref)]

-----------------------------------------------------------------------------
RewriteCandidate(q) ==
  LET split == apply_constant_selection_fd_pass(q, qc_split_quals(q.where, Len(q.rt)))
      comp == compute_atom_components(q, split.residual)
      apart == IF Max(Mem(comp)) > 1 THEN rewrite_multi_component(q, split, comp) ELSE NoQuery
      found == find_hierarchical_root_atoms(q, split.residual)
      parted == safe_partition_residual(split.residual, found)
  IN  CASE apart # NoQuery -> apart
        [] found.atoms = <<>> -> NoQuery
        [] OTHER -> rewrite_hierarchical_cq(q, found, split.atom, parted)

try_safe_query_rewrite(q0) ==
  LET q == try_pk_self_join_unification(try_inline_simple_subqueries(q0))
  IN  IF is_safe_query_candidate(q, try_disjoint_constant_self_join_split(q)) THEN RewriteCandidate(q)
      ELSE NoQuery
=============================================================================
