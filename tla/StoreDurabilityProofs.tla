----------------------- MODULE StoreDurabilityProofs ------------------------
(***************************************************************************)
(* For any number of sessions, tokens, transactions, restarts and crashes: *)
(* a gate committed behind the barrier is on disk and reads back.          *)
(***************************************************************************)
EXTENDS StoreDurability, FiniteSetTheorems, TLAPS

USE BoundAssumption, ConstantAssumption

-----------------------------------------------------------------------------
(* The files *)

LEMMA ContentFacts ==
    ASSUME NEW t \in Tokens
    PROVE  /\ Content[t].type \in Types /\ Content[t].children \in Seq(Tokens)
           /\ Len(Content[t].children) \in Nat
           /\ \A i \in 1..Len(Content[t].children) : Content[t].children[i] \in Tokens
BY ContentAssumption DEF Types

LEMMA FilesFacts ==
    ASSUME NEW m, FilesType(m)
    PROVE  /\ m.nb_gates \in Nat /\ m.nb_wires \in Nat
           /\ m.nb_gates <= MaxGates /\ m.nb_wires <= MaxWires
           /\ \A t \in Tokens : Mapped(m, t) =>
                 /\ m.mapping[t] \in GateIdx /\ RecordOf(m, t) \in Records
                 /\ RecordOf(m, t).nb_children \in Nat /\ RecordOf(m, t).children_idx \in Nat
  <1>1. /\ m.nb_gates \in Nat /\ m.nb_wires \in Nat
        /\ m.nb_gates <= MaxGates /\ m.nb_wires <= MaxWires
      BY DEF FilesType
  <1>2. ASSUME NEW t \in Tokens, Mapped(m, t)
        PROVE  /\ m.mapping[t] \in GateIdx /\ RecordOf(m, t) \in Records
               /\ RecordOf(m, t).nb_children \in Nat /\ RecordOf(m, t).children_idx \in Nat
    <2>1. m.mapping[t] \in GateIdx /\ RecordOf(m, t) \in Records
        BY <1>2 DEF FilesType, Mapped, RecordOf
    <2>2. QED
        BY <2>1 DEF Records
  <1>3. QED
      BY <1>1, <1>2

\* From m to n, wires and records are added; of the old records only that in
\* slot g may be replaced.
Extends(m, n, g) ==
    /\ m.nb_gates <= n.nb_gates /\ m.nb_wires <= n.nb_wires
    /\ \A i \in WireIdx : i < m.nb_wires => n.wires[i] = m.wires[i]
    /\ \A i \in GateIdx : i # g => n.gates[i] = m.gates[i]

\* A token's record in another slot reads back as it did.
LEMMA RecordKept ==
    ASSUME NEW m, NEW n, NEW g, FilesType(m), FilesType(n), Extends(m, n, g),
           NEW t \in Tokens, InFiles(m, t), n.mapping[t] = m.mapping[t], m.mapping[t] # g
    PROVE  /\ InFiles(n, t) /\ RecordOf(n, t) = RecordOf(m, t)
           /\ ReadsAs(m, t) => ReadsAs(n, t)
  <1> DEFINE r == RecordOf(m, t)
  <1>1. /\ Mapped(m, t) /\ m.mapping[t] < m.nb_gates /\ m.mapping[t] \in GateIdx
        /\ r.nb_children \in Nat /\ r.children_idx \in Nat
        /\ r.children_idx + r.nb_children <= m.nb_wires
        /\ m.nb_wires \in Nat /\ m.nb_gates \in Nat /\ n.nb_wires \in Nat /\ n.nb_gates \in Nat
        /\ m.nb_wires <= MaxWires
      BY FilesFacts DEF InFiles
  <1>2. RecordOf(n, t) = r
      BY <1>1 DEF Extends, RecordOf
  <1>3. InFiles(n, t)
      BY <1>1, <1>2 DEF InFiles, Extends, Mapped, GateIdx
  <1>4. ASSUME ReadsAs(m, t)
        PROVE  ReadsAs(n, t)
    <2>1. \A i \in 1..r.nb_children : n.wires[r.children_idx + i - 1] = m.wires[r.children_idx + i - 1]
      <3>1. ASSUME NEW i \in 1..r.nb_children
            PROVE  n.wires[r.children_idx + i - 1] = m.wires[r.children_idx + i - 1]
        <4>1. r.children_idx + i - 1 \in WireIdx /\ r.children_idx + i - 1 < m.nb_wires
            BY <1>1, <3>1 DEF WireIdx
        <4>2. QED
            BY <4>1 DEF Extends
      <3>2. QED
          BY <3>1
    <2> HIDE DEF r
    <2>2. getChildren(n, t) = getChildren(m, t)
        BY <1>2, <2>1 DEF getChildren, r
    <2>3. QED
        BY <1>2, <1>3, <1>4, <2>2 DEF ReadsAs, InFiles, r
  <1>5. QED
      BY <1>2, <1>3, <1>4

\* The wires of a new record hold its children.
LEMMA WiresAdded ==
    ASSUME NEW m, FilesType(m), NEW children \in Seq(Tokens), m.nb_wires + Len(children) <= MaxWires,
           NEW n, n.wires = WithWires(m, children), n.nb_wires = m.nb_wires + Len(children)
    PROVE  /\ n.wires \in [WireIdx -> Tokens \cup {NOTHING}] /\ n.nb_wires \in 0..MaxWires
           /\ m.nb_wires <= n.nb_wires
           /\ \A i \in WireIdx : i < m.nb_wires => n.wires[i] = m.wires[i]
           /\ \A i \in 1..Len(children) : n.wires[m.nb_wires + i - 1] = children[i]
  <1>1. m.nb_wires \in Nat /\ Len(children) \in Nat
      BY FilesFacts
  <1>2. \A i \in 1..Len(children) : children[i] \in Tokens
      OBVIOUS
  <1>3. n.wires \in [WireIdx -> Tokens \cup {NOTHING}]
    <2>1. ASSUME NEW i \in WireIdx
          PROVE  n.wires[i] \in Tokens \cup {NOTHING}
      <3>1. CASE i \in m.nb_wires..(m.nb_wires + Len(children) - 1)
        <4>1. n.wires[i] = children[i - m.nb_wires + 1]
            BY <2>1, <3>1 DEF WithWires
        <4>2. i - m.nb_wires + 1 \in 1..Len(children)
            BY <1>1, <3>1
        <4>3. QED
            BY <1>2, <4>1, <4>2
      <3>2. CASE i \notin m.nb_wires..(m.nb_wires + Len(children) - 1)
          BY <2>1, <3>2 DEF WithWires, FilesType
      <3>3. QED
          BY <3>1, <3>2
    <2>2. QED
        BY <2>1 DEF WithWires
  <1>4. \A i \in WireIdx : i < m.nb_wires => n.wires[i] = m.wires[i]
      BY <1>1 DEF WithWires, WireIdx
  <1>5. \A i \in 1..Len(children) : n.wires[m.nb_wires + i - 1] = children[i]
    <2>1. ASSUME NEW i \in 1..Len(children)
          PROVE  n.wires[m.nb_wires + i - 1] = children[i]
      <3>1. /\ m.nb_wires + i - 1 \in WireIdx
            /\ m.nb_wires + i - 1 \in m.nb_wires..(m.nb_wires + Len(children) - 1)
            /\ (m.nb_wires + i - 1) - m.nb_wires + 1 = i
          BY <1>1 DEF WireIdx
      <3>2. QED
          BY <3>1 DEF WithWires
    <2>2. QED
        BY <2>1
  <1>6. n.nb_wires \in 0..MaxWires /\ m.nb_wires <= n.nb_wires
      BY <1>1
  <1>7. QED
      BY <1>3, <1>4, <1>5, <1>6

\* appendGate adds a record of the token's own, in a slot no record is in.
LEMMA AppendFacts ==
    ASSUME NEW m, FilesType(m), NEW t \in Tokens, NEW type \in Types, NEW children \in Seq(Tokens),
           NEW g \in GateIdx, g = m.nb_gates, m.nb_wires + Len(children) <= MaxWires,
           NEW n, n = appendGate(m, t, type, children)
    PROVE  /\ FilesType(n) /\ Extends(m, n, g) /\ n.nb_gates = g + 1
           /\ n.mapping[t] = g /\ \A u \in Tokens : u # t => n.mapping[u] = m.mapping[u]
           /\ InFiles(n, t) /\ RecordOf(n, t).type = type /\ RecordOf(n, t).nb_children = Len(children)
           /\ getChildren(n, t) = children
  <1>1. g \in Nat /\ g < MaxGates /\ m.nb_wires \in Nat /\ Len(children) \in Nat
      BY FilesFacts DEF GateIdx
  <1> DEFINE r == Record(type, Len(children), m.nb_wires)
  <1>2. /\ n.mapping = [m.mapping EXCEPT ![t] = g] /\ n.nb_gates = g + 1
        /\ n.gates = [m.gates EXCEPT ![g] = r]
        /\ n.wires = WithWires(m, children) /\ n.nb_wires = m.nb_wires + Len(children)
      BY DEF appendGate
  <1>3. /\ n.wires \in [WireIdx -> Tokens \cup {NOTHING}] /\ n.nb_wires \in 0..MaxWires
        /\ m.nb_wires <= n.nb_wires
        /\ \A i \in WireIdx : i < m.nb_wires => n.wires[i] = m.wires[i]
        /\ \A i \in 1..Len(children) : n.wires[m.nb_wires + i - 1] = children[i]
      BY <1>2, WiresAdded
  <1>4. r \in Records
      BY <1>1 DEF Records, Record
  <1>5. /\ r.type = type /\ r.nb_children = Len(children) /\ r.children_idx = m.nb_wires
      BY DEF Record
  <1> HIDE DEF r
  <1>6. FilesType(n)
      BY <1>1, <1>2, <1>3, <1>4 DEF FilesType
  <1>7. Extends(m, n, g)
      BY <1>1, <1>2, <1>3 DEF Extends, FilesType
  <1>8. n.mapping[t] = g /\ n.gates[g] = r /\ \A u \in Tokens : u # t => n.mapping[u] = m.mapping[u]
      BY <1>1, <1>2 DEF FilesType
  <1>9. RecordOf(n, t) = r
      BY <1>8 DEF RecordOf
  <1>10. InFiles(n, t)
      BY <1>1, <1>2, <1>5, <1>8, <1>9 DEF InFiles, Mapped
  <1>11. getChildren(n, t) = children
    <2>1. getChildren(n, t) = [i \in 1..Len(children) |-> n.wires[m.nb_wires + i - 1]]
        BY <1>5, <1>9 DEF getChildren
    <2>2. getChildren(n, t) = [i \in 1..Len(children) |-> children[i]]
        BY <1>3, <2>1
    <2>3. QED
        BY <2>2
  <1>12. QED
      BY <1>2, <1>5, <1>6, <1>7, <1>8, <1>9, <1>10, <1>11

\* The upgrade replaces the token's record where it is.
LEMMA UpgradeFacts ==
    ASSUME NEW m, FilesType(m), NEW t \in Tokens, Mapped(m, t), NEW type \in Types,
           NEW children \in Seq(Tokens), m.nb_wires + Len(children) <= MaxWires,
           NEW n, n = upgrade(m, t, type, children)
    PROVE  /\ FilesType(n) /\ Extends(m, n, m.mapping[t])
           /\ n.mapping = m.mapping /\ n.nb_gates = m.nb_gates
           /\ m.mapping[t] < m.nb_gates => InFiles(n, t)
           /\ RecordOf(n, t).type = type /\ getChildren(n, t) = children
  <1>1. m.nb_gates \in Nat /\ m.nb_wires \in Nat /\ Len(children) \in Nat /\ m.mapping[t] \in GateIdx
      BY FilesFacts
  <1> DEFINE r == Record(type, Len(children), m.nb_wires)
  <1>2. /\ n.mapping = m.mapping /\ n.nb_gates = m.nb_gates
        /\ n.gates = [m.gates EXCEPT ![m.mapping[t]] = r]
        /\ n.wires = WithWires(m, children) /\ n.nb_wires = m.nb_wires + Len(children)
      BY DEF upgrade
  <1>3. /\ n.wires \in [WireIdx -> Tokens \cup {NOTHING}] /\ n.nb_wires \in 0..MaxWires
        /\ m.nb_wires <= n.nb_wires
        /\ \A i \in WireIdx : i < m.nb_wires => n.wires[i] = m.wires[i]
        /\ \A i \in 1..Len(children) : n.wires[m.nb_wires + i - 1] = children[i]
      BY <1>2, WiresAdded
  <1>4. r \in Records
      BY <1>1 DEF Records, Record
  <1>5. /\ r.type = type /\ r.nb_children = Len(children) /\ r.children_idx = m.nb_wires
      BY DEF Record
  <1> HIDE DEF r
  <1>6. FilesType(n)
      BY <1>1, <1>2, <1>3, <1>4 DEF FilesType
  <1>7. Extends(m, n, m.mapping[t])
      BY <1>1, <1>2, <1>3 DEF Extends, FilesType
  <1>8. n.mapping[t] = m.mapping[t] /\ n.gates[m.mapping[t]] = r
      BY <1>1, <1>2 DEF FilesType
  <1>9. RecordOf(n, t) = r
      BY <1>8 DEF RecordOf
  <1>10. m.mapping[t] < m.nb_gates => InFiles(n, t)
      BY <1>1, <1>2, <1>5, <1>8, <1>9 DEF InFiles, Mapped
  <1>11. getChildren(n, t) = children
    <2>1. getChildren(n, t) = [i \in 1..Len(children) |-> n.wires[m.nb_wires + i - 1]]
        BY <1>5, <1>9 DEF getChildren
    <2>2. getChildren(n, t) = [i \in 1..Len(children) |-> children[i]]
        BY <1>3, <2>1
    <2>3. QED
        BY <2>2
  <1>12. QED
      BY <1>2, <1>5, <1>6, <1>7, <1>9, <1>10, <1>11

-----------------------------------------------------------------------------
(* What is good of a token                                                  *)

LEMMA InvFacts ==
    ASSUME DurabilityInv
    PROVE  /\ FilesType(mem) /\ CouldType /\ IndexInv
           /\ synced \subseteq Tokens /\ excused \subseteq Tokens
           /\ BarrierHolds /\ WorkerInv /\ PendingInv
           /\ pipe \in Seq(Messages) /\ xact \in [Sessions -> Xacts]
BY DEF DurabilityInv, DurableInv, TypeOK

\* A token that is good leads to a record.
LEMMA GoodMapped ==
    ASSUME DurabilityInv, NEW t \in Tokens, Good(t)
    PROVE  Mapped(mem, t)
  <1>1. \A u \in excused : Mapped(mem, u)
      BY InvFacts DEF IndexInv
  <1>2. Aliased(t) => Mapped(mem, t)
      BY <1>1 DEF Aliased, Mapped
  <1>3. QED
      BY <1>1, <1>2 DEF Good, ReadsBack, ReadsAs

\* One that leads where another does is excused or aliased, or the other is.
LEMMA SharedSlot ==
    ASSUME DurabilityInv, NEW v \in Tokens, NEW t \in Tokens, t # v, Mapped(mem, t),
           mem.mapping[t] = mem.mapping[v]
    PROVE  t \in excused \/ Aliased(t)
  <1>1. t \in excused \/ v \in excused
      BY InvFacts DEF IndexInv
  <1>2. v \in excused => Aliased(t)
      BY DEF Aliased
  <1>3. QED
      BY <1>1, <1>2

\* A slot past the end of the records is nobody's, but for damaged tokens.
LEMMA FreeSlot ==
    ASSUME DurabilityInv, NEW t \in Tokens, Mapped(mem, t), mem.mapping[t] = mem.nb_gates
    PROVE  t \in excused
  <1>1. t \notin excused => mem.mapping[t] < mem.nb_gates
      BY InvFacts DEF IndexInv
  <1>2. mem.nb_gates \in Nat
      BY InvFacts, FilesFacts
  <1>3. QED
      BY <1>1, <1>2

-----------------------------------------------------------------------------
(* A step that stores to the files: v gets a record in slot g.              *)

StoresTo(v, g) ==
    /\ FilesType(mem) /\ FilesType(mem') /\ Extends(mem, mem', g)
    /\ \A t \in Tokens : t # v => mem'.mapping[t] = mem.mapping[t]
    /\ mem'.mapping[v] = g
    /\ Mapped(mem, v) => mem'.mapping[v] = mem.mapping[v]
    /\ \A t \in Tokens : t # v /\ Mapped(mem, t) /\ mem.mapping[t] = g => t \in excused \/ Aliased(t)
    /\ excused' = excused /\ synced' = synced

LEMMA AliasKept ==
    ASSUME DurabilityInv, NEW v \in Tokens, NEW g, StoresTo(v, g), NEW t \in Tokens, Aliased(t)
    PROVE  Aliased(t)'
  <1>1. PICK u \in excused \ {t} : mem.mapping[u] = mem.mapping[t]
      BY DEF Aliased
  <1>2. Mapped(mem, u) /\ u \in Tokens
      BY <1>1, InvFacts DEF IndexInv
  <1>3. Mapped(mem, t)
      BY <1>1, <1>2 DEF Mapped
  <1>4. mem'.mapping[u] = mem.mapping[u] /\ mem'.mapping[t] = mem.mapping[t]
      BY <1>2, <1>3 DEF StoresTo
  <1>5. QED
      BY <1>1, <1>4 DEF Aliased, StoresTo

\* Every other token that was good still is.
LEMMA GoodKept ==
    ASSUME DurabilityInv, NEW v \in Tokens, NEW g, StoresTo(v, g), NEW t \in Tokens, t # v, Good(t)
    PROVE  Good(t)'
  <1>1. CASE t \in excused
      BY <1>1 DEF Good, StoresTo
  <1>2. CASE Aliased(t)
      BY <1>2, AliasKept DEF Good
  <1>3. CASE ReadsBack(mem, t) /\ mem.mapping[t] # g
    <2>1. InFiles(mem', t) /\ ReadsAs(mem', t)
        BY <1>3, RecordKept DEF ReadsBack, StoresTo
    <2>2. QED
        BY <2>1 DEF Good, ReadsBack
  <1>4. CASE ReadsBack(mem, t) /\ mem.mapping[t] = g
    <2>1. t \in excused \/ Aliased(t)
        BY <1>4 DEF StoresTo, ReadsBack, InFiles
    <2>2. QED
        BY <1>1, <1>2, <2>1
  <1>5. QED
      BY <1>1, <1>2, <1>3, <1>4 DEF Good

\* So does every other placeholder, until it is aliased.
LEMMA PlaceholderKept ==
    ASSUME DurabilityInv, NEW v \in Tokens, NEW g, StoresTo(v, g), NEW t \in Tokens, t # v,
           InFiles(mem, t), Placeholder(RecordOf(mem, t))
    PROVE  Good(t)' \/ (InFiles(mem, t) /\ Placeholder(RecordOf(mem, t)))'
  <1>1. CASE mem.mapping[t] # g
    <2>1. InFiles(mem', t) /\ RecordOf(mem', t) = RecordOf(mem, t)
        BY <1>1, RecordKept DEF StoresTo
    <2>2. QED
        BY <2>1
  <1>2. CASE mem.mapping[t] = g
    <2>1. t \in excused \/ Aliased(t)
        BY <1>2 DEF StoresTo, InFiles
    <2>2. QED
        BY <2>1, GoodKept DEF Good
  <1>3. QED
      BY <1>1, <1>2

\* What may be on disk after it: what was before, or the new words.
StoresOver(c) ==
    /\ could' = Stored(c, mem')
    /\ c = could \/ c = ForceMapping(could, mem)

LEMMA CouldKept ==
    ASSUME CouldType, FilesType(mem), FilesType(mem'), NEW c, StoresOver(c)
    PROVE  /\ CouldType'
           /\ could' = Stored(c, mem')
           /\ \A t \in Tokens : c.mapping[t] \in {could.mapping[t], {mem.mapping[t]}}
           /\ c.gates = could.gates /\ c.nb_gates = could.nb_gates
           /\ c.wires = could.wires /\ c.nb_wires = could.nb_wires
  <1>1. /\ c \in [mapping : [Tokens -> SUBSET (GateIdx \cup {NOTHING})],
                  gates : [GateIdx -> SUBSET Records], nb_gates : SUBSET (0..MaxGates),
                  wires : [WireIdx -> SUBSET (Tokens \cup {NOTHING})],
                  nb_wires : SUBSET (0..MaxWires)]
        /\ c.gates = could.gates /\ c.nb_gates = could.nb_gates
        /\ c.wires = could.wires /\ c.nb_wires = could.nb_wires
    <2>1. CASE c = could
        BY <2>1 DEF CouldType
    <2>2. CASE c = ForceMapping(could, mem)
      <3>1. [t \in Tokens |-> {mem.mapping[t]}] \in [Tokens -> SUBSET (GateIdx \cup {NOTHING})]
          BY DEF FilesType
      <3>2. c = [could EXCEPT !.mapping = [t \in Tokens |-> {mem.mapping[t]}]]
          BY <2>2 DEF ForceMapping, Only
      <3>3. QED
          BY <3>1, <3>2 DEF CouldType
    <2>3. QED
        BY <2>1, <2>2 DEF StoresOver
  <1>2. \A t \in Tokens : c.mapping[t] \in {could.mapping[t], {mem.mapping[t]}}
    <2>1. CASE c = could
        BY <2>1
    <2>2. CASE c = ForceMapping(could, mem)
      <3>1. c.mapping = [t \in Tokens |-> {mem.mapping[t]}]
          BY <2>2 DEF ForceMapping, Only, CouldType
      <3>2. QED
          BY <3>1
    <2>3. QED
        BY <2>1, <2>2 DEF StoresOver
  <1>3. could' \in [mapping : [Tokens -> SUBSET (GateIdx \cup {NOTHING})],
                    gates : [GateIdx -> SUBSET Records], nb_gates : SUBSET (0..MaxGates),
                    wires : [WireIdx -> SUBSET (Tokens \cup {NOTHING})],
                    nb_wires : SUBSET (0..MaxWires)]
    <2>1. [t \in Tokens |-> c.mapping[t] \cup {mem'.mapping[t]}]
             \in [Tokens -> SUBSET (GateIdx \cup {NOTHING})]
        BY <1>1 DEF FilesType
    <2>2. [i \in GateIdx |-> c.gates[i] \cup {mem'.gates[i]}] \in [GateIdx -> SUBSET Records]
        BY <1>1 DEF FilesType
    <2>3. [i \in WireIdx |-> c.wires[i] \cup {mem'.wires[i]}]
             \in [WireIdx -> SUBSET (Tokens \cup {NOTHING})]
        BY <1>1 DEF FilesType
    <2>4. /\ c.nb_gates \cup {mem'.nb_gates} \in SUBSET (0..MaxGates)
          /\ c.nb_wires \cup {mem'.nb_wires} \in SUBSET (0..MaxWires)
        BY <1>1 DEF FilesType
    <2>5. QED
        BY <2>1, <2>2, <2>3, <2>4 DEF StoresOver, Stored
  <1>4. QED
      BY <1>1, <1>2, <1>3 DEF CouldType, StoresOver

LEMMA SettledKept ==
    ASSUME DurabilityInv, NEW v \in Tokens, NEW g, StoresTo(v, g), NEW c, StoresOver(c),
           NEW t \in Tokens, t # v, mem.mapping[t] # g, InFiles(mem, t), Settled(t)
    PROVE  Settled(t)'
  <1> DEFINE k == mem.mapping[t]
             r == RecordOf(mem, t)
             last == r.children_idx + r.nb_children
  <1>1. FilesType(mem) /\ FilesType(mem') /\ Extends(mem, mem', g) /\ mem'.mapping[t] = k
      BY DEF StoresTo
  <1>2. /\ k \in GateIdx /\ k < mem.nb_gates /\ last <= mem.nb_wires /\ mem.nb_wires <= MaxWires
        /\ r.nb_children \in Nat /\ r.children_idx \in Nat
        /\ mem.nb_gates \in Nat /\ mem.nb_wires \in Nat /\ mem'.nb_gates \in Nat /\ mem'.nb_wires \in Nat
      BY <1>1, FilesFacts DEF InFiles
  <1>3. RecordOf(mem', t) = RecordOf(mem, t)
      BY <1>1, RecordKept
  <1>4. /\ could' = Stored(c, mem')
        /\ c.mapping[t] \in {could.mapping[t], {k}}
        /\ c.gates = could.gates /\ c.nb_gates = could.nb_gates
        /\ c.wires = could.wires /\ c.nb_wires = could.nb_wires
      BY <1>1, CouldKept, InvFacts
  <1>5. /\ could.mapping[t] = {k} /\ could.gates[k] = {r}
        /\ \A n \in could.nb_gates : k < n
        /\ \A n \in could.nb_wires : last <= n
        /\ \A i \in r.children_idx..(r.children_idx + r.nb_children - 1) : could.wires[i] = {mem.wires[i]}
    <2>1. could.mapping[t] = {k}
        BY DEF Settled
    <2>2. could.gates[k] = {r}
        BY DEF Settled
    <2>3. \A n \in could.nb_gates : k < n
        BY DEF Settled
    <2>4. \A n \in could.nb_wires : last <= n
        BY DEF Settled
    <2>5. \A i \in r.children_idx..(r.children_idx + r.nb_children - 1) : could.wires[i] = {mem.wires[i]}
        BY DEF Settled
    <2>6. QED
        BY <2>1, <2>2, <2>3, <2>4, <2>5
  <1>6. could'.mapping[t] = {k}
    <2>1. could'.mapping[t] = c.mapping[t] \cup {mem'.mapping[t]}
        BY <1>4 DEF Stored
    <2>2. QED
        BY <1>1, <1>4, <1>5, <2>1
  <1>7. could'.gates[k] = {r}
    <2>1. could'.gates[k] = could.gates[k] \cup {mem'.gates[k]}
        BY <1>2, <1>4 DEF Stored
    <2>2. mem'.gates[k] = r
        BY <1>1, <1>3 DEF RecordOf
    <2>3. QED
        BY <1>5, <2>1, <2>2
  <1>8. \A n \in could'.nb_gates : k < n
    <2>1. could'.nb_gates = could.nb_gates \cup {mem'.nb_gates}
        BY <1>4 DEF Stored
    <2>2. k < mem'.nb_gates
        BY <1>1, <1>2 DEF Extends, GateIdx
    <2>3. QED
        BY <1>5, <2>1, <2>2
  <1>9. \A n \in could'.nb_wires : last <= n
    <2>1. could'.nb_wires = could.nb_wires \cup {mem'.nb_wires}
        BY <1>4 DEF Stored
    <2>2. last <= mem'.nb_wires
        BY <1>1, <1>2 DEF Extends
    <2>3. QED
        BY <1>5, <2>1, <2>2
  <1>10. ASSUME NEW i \in r.children_idx..(r.children_idx + r.nb_children - 1)
         PROVE  could'.wires[i] = {mem'.wires[i]}
    <2>1. i \in WireIdx /\ i < mem.nb_wires
        BY <1>2 DEF WireIdx
    <2>2. could'.wires[i] = could.wires[i] \cup {mem'.wires[i]}
        BY <1>4, <2>1 DEF Stored
    <2>3. mem'.wires[i] = mem.wires[i]
        BY <1>1, <2>1 DEF Extends
    <2>4. QED
        BY <1>5, <2>2, <2>3
  <1>11. mem'.mapping[t] = k /\ RecordOf(mem', t) = r
      BY <1>1, <1>3
  <1> HIDE DEF k, r
  <1>12. QED
      BY <1>6, <1>7, <1>8, <1>9, <1>10, <1>11 DEF Settled

\* No committed record is stored over.
LEMMA BarrierKept ==
    ASSUME DurabilityInv, NEW v \in Tokens, NEW g, StoresTo(v, g), NEW c, StoresOver(c),
           v \in synced \ excused => Aliased(v)
    PROVE  BarrierHolds'
  <1>1. ASSUME NEW t \in (synced \ excused)'
        PROVE  (Aliased(t) \/ (ReadsBack(mem, t) /\ Settled(t)))'
    <2>0. excused' = excused /\ synced' = synced
        BY DEF StoresTo
    <2>1. t \in synced \ excused /\ t \in Tokens
        BY <1>1, <2>0, InvFacts
    <2>2. CASE Aliased(t)
        BY <2>1, <2>2, AliasKept
    <2>3. CASE ~Aliased(t)
      <3>1. ReadsBack(mem, t) /\ Settled(t)
          BY <2>1, <2>3, InvFacts DEF BarrierHolds
      <3>2. t # v /\ mem.mapping[t] # g
          BY <2>1, <2>3, <3>1 DEF StoresTo, ReadsBack, InFiles
      <3>3. Settled(t)'
          BY <2>1, <3>1, <3>2, SettledKept DEF ReadsBack
      <3>4. ReadsBack(mem', t)
          BY <2>1, <3>1, <3>2, RecordKept DEF ReadsBack, StoresTo
      <3>5. QED
          BY <3>3, <3>4
    <2>4. QED
        BY <2>2, <2>3
  <1>2. QED
      BY <1>1 DEF BarrierHolds

\* The entries of the table are written once, and one gate has one record.
LEMMA IndexKept ==
    ASSUME DurabilityInv, NEW v \in Tokens, NEW g \in GateIdx, StoresTo(v, g), NEW c, StoresOver(c),
           ~Mapped(mem, v) => \A t \in Tokens : t # v /\ mem.mapping[t] = g => t \in excused,
           v \notin excused => g < mem'.nb_gates,
           (Good(v) \/ (InFiles(mem, v) /\ Placeholder(RecordOf(mem, v))))'
    PROVE  IndexInv'
  <1>1. /\ FilesType(mem) /\ FilesType(mem') /\ Extends(mem, mem', g)
        /\ \A t \in Tokens : t # v => mem'.mapping[t] = mem.mapping[t]
        /\ mem'.mapping[v] = g
        /\ Mapped(mem, v) => mem'.mapping[v] = mem.mapping[v]
        /\ excused' = excused /\ synced' = synced
      BY DEF StoresTo
  <1>2. \A t \in Tokens : Mapped(mem, t) => Mapped(mem', t) /\ mem'.mapping[t] = mem.mapping[t]
      BY <1>1 DEF Mapped
  <1>3. \A t \in Tokens : /\ could'.mapping[t] = c.mapping[t] \cup {mem'.mapping[t]}
                          /\ c.mapping[t] \in {could.mapping[t], {mem.mapping[t]}}
      BY <1>1, CouldKept, InvFacts DEF Stored
  <1>4. ASSUME NEW t \in Tokens
        PROVE  could'.mapping[t] \subseteq {NOTHING, mem'.mapping[t]}
    <2>1. could.mapping[t] \subseteq {NOTHING, mem.mapping[t]}
        BY InvFacts DEF IndexInv
    <2>2. c.mapping[t] \subseteq {NOTHING, mem.mapping[t]}
        BY <1>3, <2>1
    <2>3. mem.mapping[t] = NOTHING \/ mem'.mapping[t] = mem.mapping[t]
        BY <1>2 DEF Mapped
    <2>4. QED
        BY <1>3, <2>2, <2>3
  <1>5. ASSUME NEW t \in (excused \cup synced)'
        PROVE  Mapped(mem', t) /\ could'.mapping[t] = {mem'.mapping[t]}
    <2>1. t \in Tokens /\ Mapped(mem, t) /\ could.mapping[t] = {mem.mapping[t]}
        BY <1>1, <1>5, InvFacts DEF IndexInv
    <2>2. QED
        BY <1>2, <1>3, <2>1
  <1>6. ASSUME NEW t \in (Tokens \ excused)', Mapped(mem, t)'
        PROVE  /\ mem'.mapping[t] < mem'.nb_gates
               /\ (Good(t) \/ (InFiles(mem, t) /\ Placeholder(RecordOf(mem, t))))'
    <2>1. CASE t = v
        BY <1>1, <1>6, <2>1
    <2>2. CASE t # v
      <3>1. t \in Tokens \ excused /\ Mapped(mem, t)
          BY <1>1, <1>6, <2>2 DEF Mapped
      <3>2. /\ mem.mapping[t] < mem.nb_gates /\ mem.mapping[t] \in GateIdx
            /\ mem.nb_gates \in Nat /\ mem'.nb_gates \in Nat
          BY <1>1, <3>1, InvFacts, FilesFacts DEF IndexInv
      <3>3. mem'.mapping[t] < mem'.nb_gates
          BY <1>1, <2>2, <3>2 DEF Extends, GateIdx
      <3>4. Good(t) \/ (InFiles(mem, t) /\ Placeholder(RecordOf(mem, t)))
          BY <3>1, InvFacts DEF IndexInv
      <3>5. QED
          BY <2>2, <3>1, <3>3, <3>4, GoodKept, PlaceholderKept
    <2>3. QED
        BY <2>1, <2>2
  <1>7. ASSUME NEW t \in Tokens, NEW u \in Tokens, t # u, Mapped(mem, t)', mem'.mapping[t] = mem'.mapping[u]
        PROVE  t \in excused' \/ u \in excused'
    <2>1. CASE mem'.mapping[t] = mem.mapping[t] /\ mem'.mapping[u] = mem.mapping[u]
        BY <1>1, <1>7, <2>1, InvFacts DEF IndexInv, Mapped
    <2>2. CASE t = v /\ ~Mapped(mem, v)
        BY <1>1, <1>7, <2>2
    <2>3. CASE u = v /\ ~Mapped(mem, v)
        BY <1>1, <1>7, <2>3
    <2>4. QED
        BY <1>1, <2>1, <2>2, <2>3
  <1>8. QED
      BY <1>4, <1>5, <1>6, <1>7 DEF IndexInv

-----------------------------------------------------------------------------
(* The pipe and what is pending in it                                       *)

GoodStays == \A t \in Tokens : Good(t) => Good(t)'

LEMMA MessageFacts ==
    ASSUME NEW q \in Seq(Messages), NEW i \in 1..Len(q)
    PROVE  /\ q[i] \in Messages /\ q[i].op \in {"C", "S"} /\ q[i].from \in Sessions
           /\ q[i].op = "C" => q[i].token \in Tokens
  <1>1. q[i] \in Messages
      OBVIOUS
  <1>2. QED
      BY <1>1 DEF Messages

LEMMA MadeFacts ==
    ASSUME NEW x \in [Sessions -> Xacts], NEW s \in Sessions
    PROVE  x[s].made \subseteq Tokens /\ x[s].state \in {"none", "open", "barrier"}
BY DEF Xacts

LEMMA TailFacts ==
    ASSUME NEW q \in Seq(Messages), q # <<>>
    PROVE  /\ Tail(q) \in Seq(Messages) /\ Len(q) \in Nat \ {0} /\ Len(Tail(q)) = Len(q) - 1
           /\ Head(q) = q[1] /\ Head(q) \in Messages
           /\ \A i \in 1..(Len(q) - 1) : Tail(q)[i] = q[i + 1]
  <1>1. Len(q) \in Nat /\ Len(q) # 0
      OBVIOUS
  <1>2. Tail(q) \in Seq(Messages) /\ Len(Tail(q)) = Len(q) - 1
      BY <1>1
  <1>3. Head(q) = q[1] /\ Head(q) \in Messages
      BY <1>1
  <1>4. \A i \in 1..(Len(q) - 1) : Tail(q)[i] = q[i + 1]
      BY <1>1
  <1>5. QED
      BY <1>1, <1>2, <1>3, <1>4

\* A creation that was pending still is, or was the one that was read.
LEMMA CreatedTail ==
    ASSUME pipe \in Seq(Messages), pipe # <<>>, pipe' = Tail(pipe), GoodStays,
           Head(pipe).op = "C" => \E u \in Tokens : u = Head(pipe).token /\ Good(u)',
           NEW t \in Tokens, NEW n \in 1..Len(pipe), Created(t, n)
    PROVE  Good(t)' \/ \E j \in 1..(n - 1) : pipe'[j].op = "C" /\ pipe'[j].token = t
  <1>1. CASE Good(t)
      BY <1>1 DEF GoodStays, Created
  <1>2. CASE \E j \in 1..n : pipe[j].op = "C" /\ pipe[j].token = t
    <2>1. PICK j \in 1..n : pipe[j].op = "C" /\ pipe[j].token = t
        BY <1>2
    <2>2. CASE j = 1
      <3>1. Head(pipe).op = "C" /\ Head(pipe).token = t
          BY <2>1, <2>2, TailFacts
      <3>2. Good(t)'
          BY <3>1
      <3>3. QED
          BY <3>2
    <2>3. CASE j # 1
      <3>1. j - 1 \in 1..(n - 1) /\ j - 1 \in 1..(Len(pipe) - 1) /\ (j - 1) + 1 = j
          BY <2>1, <2>3, TailFacts
      <3>2. pipe'[j - 1] = pipe[j]
          BY <3>1, TailFacts
      <3>3. QED
          BY <2>1, <3>1, <3>2
    <2>4. QED
        BY <2>2, <2>3
  <1>3. QED
      BY <1>1, <1>2 DEF Created

LEMMA PendingSame ==
    ASSUME DurabilityInv, pipe' = pipe, xact' = xact, GoodStays
    PROVE  PendingInv'
  <1>1. PendingInv /\ pipe \in Seq(Messages) /\ xact \in [Sessions -> Xacts]
      BY InvFacts
  <1>2. ASSUME NEW t \in Tokens, NEW n, Created(t, n)
        PROVE  Created(t, n)'
      BY <1>2 DEF Created, GoodStays
  <1>3. \A s \in Sessions :
           /\ xact'[s].state = "none" => xact'[s].made = {}
           /\ xact'[s].state = "open" => \A t \in xact'[s].made : Created(t, Len(pipe))'
    <2>1. \A s \in Sessions : xact[s].state = "open" => \A t \in xact[s].made : Created(t, Len(pipe))
        BY <1>1 DEF PendingInv
    <2>2. QED
        BY <1>1, <1>2, <2>1, MadeFacts DEF PendingInv
  <1>4. ASSUME NEW i \in 1..Len(pipe'), pipe'[i].op = "S"
        PROVE  /\ xact'[pipe'[i].from].state = "barrier"
               /\ \A t \in xact'[pipe'[i].from].made : Created(t, i - 1)'
    <2>1. /\ pipe[i].from \in Sessions /\ xact[pipe[i].from].state = "barrier"
          /\ \A t \in xact[pipe[i].from].made : Created(t, i - 1)
        BY <1>1, <1>4, MessageFacts DEF PendingInv
    <2>2. QED
        BY <1>1, <1>2, <2>1, MadeFacts
  <1>5. QED
      BY <1>1, <1>3, <1>4 DEF PendingInv

\* The worker is through with a creation.
LEMMA PendingTail ==
    ASSUME DurabilityInv, pipe # <<>>, pipe' = Tail(pipe), xact' = xact, GoodStays,
           NEW u \in Tokens, Head(pipe).op = "C", u = Head(pipe).token, Good(u)'
    PROVE  PendingInv'
  <1>1. PendingInv /\ pipe \in Seq(Messages) /\ xact \in [Sessions -> Xacts]
      BY InvFacts
  <1>2. /\ Len(pipe) \in Nat \ {0} /\ Len(pipe') = Len(pipe) - 1
        /\ \A i \in 1..(Len(pipe) - 1) : pipe'[i] = pipe[i + 1]
      BY <1>1, TailFacts
  <1>3. \A t \in Tokens : \A n \in 1..Len(pipe) : Created(t, n) =>
           Good(t)' \/ \E j \in 1..(n - 1) : pipe'[j].op = "C" /\ pipe'[j].token = t
      BY <1>1, CreatedTail
  <1>4. ASSUME NEW s \in Sessions
        PROVE  (/\ xact[s].state = "none" => xact[s].made = {}
                /\ xact[s].state = "open" => \A t \in xact[s].made : Created(t, Len(pipe)))'
    <2>1. /\ xact[s].state = "none" => xact[s].made = {}
          /\ xact[s].state = "open" => \A t \in xact[s].made : Created(t, Len(pipe))
          /\ xact[s].made \subseteq Tokens
        BY <1>1, MadeFacts DEF PendingInv
    <2>2. Len(pipe) \in 1..Len(pipe)
        BY <1>2
    <2>3. \A t \in Tokens : Created(t, Len(pipe)) =>
             Good(t)' \/ \E j \in 1..(Len(pipe) - 1) : pipe'[j].op = "C" /\ pipe'[j].token = t
        BY <1>3, <2>2
    <2>4. \A t \in Tokens : Created(t, Len(pipe)) => Created(t, Len(pipe))'
        BY <1>2, <2>3 DEF Created
    <2>5. QED
        BY <2>1, <2>4
  <1>5. ASSUME NEW i \in 1..Len(pipe'), pipe'[i].op = "S"
        PROVE  /\ xact'[pipe'[i].from].state = "barrier"
               /\ \A t \in xact'[pipe'[i].from].made : Created(t, i - 1)'
    <2>1. i + 1 \in 1..Len(pipe) /\ pipe'[i] = pipe[i + 1] /\ (i + 1) - 1 = i
        BY <1>2
    <2>2. /\ pipe[i + 1].from \in Sessions /\ xact[pipe[i + 1].from].state = "barrier"
          /\ \A t \in xact[pipe[i + 1].from].made : Created(t, i)
        BY <1>1, <1>5, <2>1, MessageFacts DEF PendingInv
    <2>3. xact[pipe[i + 1].from].made \subseteq Tokens
        BY <1>1, <2>2, MadeFacts
    <2>4. i \in 1..Len(pipe)
        BY <1>2
    <2>5. \A t \in Tokens : Created(t, i) => Created(t, i - 1)'
        BY <1>3, <2>4 DEF Created
    <2>6. QED
        BY <2>1, <2>2, <2>3, <2>5
  <1>6. ASSUME NEW i \in 1..Len(pipe'), NEW j \in 1..Len(pipe'),
               pipe'[i].op = "S", pipe'[j].op = "S", pipe'[i].from = pipe'[j].from
        PROVE  i = j
    <2>1. /\ i + 1 \in 1..Len(pipe) /\ pipe'[i] = pipe[i + 1]
          /\ j + 1 \in 1..Len(pipe) /\ pipe'[j] = pipe[j + 1]
        BY <1>2
    <2>2. i + 1 = j + 1
        BY <1>1, <1>6, <2>1 DEF PendingInv
    <2>3. QED
        BY <2>2
  <1>7. QED
      BY <1>4, <1>5, <1>6 DEF PendingInv

\* A message is sent by a session s whose transaction is open.
LEMMA PendingAppend ==
    ASSUME DurabilityInv, NEW s \in Sessions, xact[s].state = "open",
           NEW msg \in Messages, pipe' = Append(pipe, msg), GoodStays,
           NEW x \in Xacts, xact' = [xact EXCEPT ![s] = x],
           \/ msg.op = "C" /\ x.state = "open" /\ x.made = xact[s].made \cup {msg.token}
           \/ msg.op = "S" /\ x.state = "barrier" /\ x.made = xact[s].made /\ msg.from = s
    PROVE  PendingInv'
  <1>1. PendingInv /\ pipe \in Seq(Messages) /\ xact \in [Sessions -> Xacts]
      BY InvFacts
  <1>2. /\ Len(pipe) \in Nat /\ Len(pipe') = Len(pipe) + 1 /\ pipe'[Len(pipe) + 1] = msg
        /\ \A i \in 1..Len(pipe) : pipe'[i] = pipe[i]
      BY <1>1
  <1>3. xact'[s] = x /\ \A r \in Sessions : r # s => xact'[r] = xact[r]
      BY <1>1
  <1>4. ASSUME NEW t \in Tokens, NEW n \in Nat, n <= Len(pipe), Created(t, n)
        PROVE  Good(t)' \/ \E j \in 1..n : pipe'[j].op = "C" /\ pipe'[j].token = t
    <2>1. CASE Good(t)
        BY <2>1 DEF GoodStays
    <2>2. CASE \E j \in 1..n : pipe[j].op = "C" /\ pipe[j].token = t
      <3>1. PICK j \in 1..n : pipe[j].op = "C" /\ pipe[j].token = t
          BY <2>2
      <3>2. j \in 1..Len(pipe)
          BY <1>2, <1>4, <3>1
      <3>3. QED
          BY <1>2, <3>1, <3>2
    <2>3. QED
        BY <1>4, <2>1, <2>2 DEF Created
  <1>5. ASSUME NEW r \in Sessions
        PROVE  (/\ xact[r].state = "none" => xact[r].made = {}
                /\ xact[r].state = "open" => \A t \in xact[r].made : Created(t, Len(pipe)))'
    <2>1. /\ xact[r].state = "none" => xact[r].made = {}
          /\ xact[r].state = "open" => \A t \in xact[r].made : Created(t, Len(pipe))
          /\ xact[r].made \subseteq Tokens
        BY <1>1, MadeFacts DEF PendingInv
    <2>2. \A j \in 1..Len(pipe) : j \in 1..(Len(pipe) + 1)
        BY <1>2
    <2>3. \A t \in Tokens : Created(t, Len(pipe)) => Created(t, Len(pipe))'
        BY <1>2, <1>4, <2>2 DEF Created
    <2>4. CASE r # s
        BY <1>3, <2>1, <2>3, <2>4
    <2>5. CASE r = s
      <3>1. CASE msg.op = "C"
        <4>1. Len(pipe) + 1 \in 1..(Len(pipe) + 1)
            BY <1>2
        <4>2. msg.op = "C" /\ msg.token \in Tokens /\ x.state = "open" /\ x.made = xact[s].made \cup {msg.token}
            BY <3>1 DEF Messages
        <4>3. \A t \in Tokens : t = msg.token => Created(t, Len(pipe))'
            BY <1>2, <4>1, <4>2 DEF Created
        <4>4. QED
            BY <1>3, <2>1, <2>3, <2>5, <4>2, <4>3
      <3>2. CASE msg.op = "S"
          BY <1>3, <2>5, <3>2
      <3>3. QED
          BY <3>1, <3>2
    <2>6. QED
        BY <2>4, <2>5
  <1>6. ASSUME NEW i \in 1..Len(pipe'), pipe'[i].op = "S"
        PROVE  /\ xact'[pipe'[i].from].state = "barrier"
               /\ \A t \in xact'[pipe'[i].from].made : Created(t, i - 1)'
    <2>1. CASE i \in 1..Len(pipe)
      <3>1. /\ pipe[i].op = "S" /\ pipe'[i] = pipe[i]
            /\ pipe[i].from \in Sessions /\ xact[pipe[i].from].state = "barrier"
            /\ \A t \in xact[pipe[i].from].made : Created(t, i - 1)
          BY <1>1, <1>2, <1>6, <2>1, MessageFacts DEF PendingInv
      <3>2. xact'[pipe[i].from] = xact[pipe[i].from] /\ xact[pipe[i].from].made \subseteq Tokens
          BY <1>1, <1>3, <3>1, MadeFacts
      <3>3. i - 1 \in Nat /\ i - 1 <= Len(pipe)
          BY <1>2, <2>1
      <3>4. \A t \in Tokens : Created(t, i - 1) => Created(t, i - 1)'
          BY <1>4, <3>3 DEF Created
      <3>5. QED
          BY <3>1, <3>2, <3>4
    <2>2. CASE i = Len(pipe) + 1
      <3>1. msg.op = "S" /\ pipe'[i] = msg
          BY <1>2, <1>6, <2>2
      <3>2. pipe'[i].from = s /\ xact'[s] = x /\ x.state = "barrier" /\ x.made = xact[s].made
          BY <1>3, <3>1
      <3>3. (\A t \in xact[s].made : Created(t, Len(pipe))) /\ xact[s].made \subseteq Tokens
          BY <1>1, MadeFacts DEF PendingInv
      <3>4. i - 1 = Len(pipe) /\ Len(pipe) <= Len(pipe)
          BY <1>2, <2>2
      <3>5. \A t \in Tokens : Created(t, Len(pipe)) =>
               Good(t)' \/ \E j \in 1..Len(pipe) : pipe'[j].op = "C" /\ pipe'[j].token = t
          BY <1>2, <1>4, <3>4
      <3>6. \A t \in Tokens : Created(t, Len(pipe)) => Created(t, i - 1)'
          BY <3>4, <3>5 DEF Created
      <3>7. QED
          BY <3>2, <3>3, <3>6
    <2>3. QED
        BY <1>2, <2>1, <2>2
  <1>7. ASSUME NEW i \in 1..Len(pipe'), NEW j \in 1..Len(pipe'),
               pipe'[i].op = "S", pipe'[j].op = "S", pipe'[i].from = pipe'[j].from
        PROVE  i = j
    <2>1. \A k \in 1..Len(pipe) : pipe[k].op = "S" => pipe[k].from # s
        BY <1>1 DEF PendingInv
    <2>2. \A k \in 1..Len(pipe') : k = Len(pipe) + 1 \/ k \in 1..Len(pipe)
        BY <1>2
    <2>3. CASE i \in 1..Len(pipe) /\ j \in 1..Len(pipe)
        BY <1>1, <1>2, <1>7, <2>3 DEF PendingInv
    <2>4. CASE i = Len(pipe) + 1 /\ j \in 1..Len(pipe)
        BY <1>2, <1>7, <2>1, <2>4
    <2>5. CASE j = Len(pipe) + 1 /\ i \in 1..Len(pipe)
        BY <1>2, <1>7, <2>1, <2>5
    <2>6. QED
        BY <1>7, <2>2, <2>3, <2>4, <2>5
  <1>8. QED
      BY <1>5, <1>6, <1>7 DEF PendingInv

\* The flush that answers an 'S' ends, and its sender's transaction with it.
LEMMA PendingEnd ==
    ASSUME DurabilityInv, pipe # <<>>, Head(pipe).op = "S", pipe' = Tail(pipe), GoodStays,
           NEW s \in Sessions, s = Head(pipe).from, xact' = [xact EXCEPT ![s] = NoXact]
    PROVE  /\ PendingInv'
           /\ \A t \in xact[s].made : t \in Tokens /\ Good(t)
  <1>1. PendingInv /\ pipe \in Seq(Messages) /\ xact \in [Sessions -> Xacts]
      BY InvFacts
  <1>2. /\ Len(pipe) \in Nat \ {0} /\ Len(pipe') = Len(pipe) - 1 /\ Head(pipe) = pipe[1]
        /\ \A i \in 1..(Len(pipe) - 1) : pipe'[i] = pipe[i + 1]
      BY <1>1, TailFacts
  <1>3. xact'[s] = NoXact /\ \A r \in Sessions : r # s => xact'[r] = xact[r]
      BY <1>1
  <1>4. \A t \in xact[s].made : t \in Tokens /\ Good(t)
    <2>1. 1 \in 1..Len(pipe) /\ pipe[1].op = "S" /\ pipe[1].from = s
        BY <1>2
    <2>2. \A t \in xact[s].made : Created(t, 1 - 1)
        BY <1>1, <2>1 DEF PendingInv
    <2>3. 1..(1 - 1) = {}
        OBVIOUS
    <2>4. QED
        BY <1>1, <2>2, <2>3, MadeFacts DEF Created
  <1>5. \A t \in Tokens : \A n \in 1..Len(pipe) : Created(t, n) =>
           Good(t)' \/ \E j \in 1..(n - 1) : pipe'[j].op = "C" /\ pipe'[j].token = t
      BY <1>1, CreatedTail
  <1>6. ASSUME NEW r \in Sessions
        PROVE  (/\ xact[r].state = "none" => xact[r].made = {}
                /\ xact[r].state = "open" => \A t \in xact[r].made : Created(t, Len(pipe)))'
    <2>1. /\ xact[r].state = "none" => xact[r].made = {}
          /\ xact[r].state = "open" => \A t \in xact[r].made : Created(t, Len(pipe))
          /\ xact[r].made \subseteq Tokens
        BY <1>1, MadeFacts DEF PendingInv
    <2>2. Len(pipe) \in 1..Len(pipe)
        BY <1>2
    <2>3. \A t \in Tokens : Created(t, Len(pipe)) =>
             Good(t)' \/ \E j \in 1..(Len(pipe) - 1) : pipe'[j].op = "C" /\ pipe'[j].token = t
        BY <1>5, <2>2
    <2>4. \A t \in Tokens : Created(t, Len(pipe)) => Created(t, Len(pipe))'
        BY <1>2, <2>3 DEF Created
    <2>5. CASE r # s
        BY <1>3, <2>1, <2>4, <2>5
    <2>6. CASE r = s
        BY <1>3, <2>6 DEF NoXact
    <2>7. QED
        BY <2>5, <2>6
  <1>7. ASSUME NEW i \in 1..Len(pipe'), pipe'[i].op = "S"
        PROVE  /\ xact'[pipe'[i].from].state = "barrier"
               /\ \A t \in xact'[pipe'[i].from].made : Created(t, i - 1)'
    <2>1. /\ 1 \in 1..Len(pipe) /\ i \in 1..Len(pipe) /\ i + 1 \in 1..Len(pipe)
          /\ pipe'[i] = pipe[i + 1] /\ (i + 1) - 1 = i /\ 1 # i + 1
        BY <1>2
    <2>2. /\ pipe[i + 1].from \in Sessions /\ xact[pipe[i + 1].from].state = "barrier"
          /\ \A t \in xact[pipe[i + 1].from].made : Created(t, i)
        BY <1>1, <1>7, <2>1, MessageFacts DEF PendingInv
    <2>3. pipe[i + 1].from # s
        BY <1>1, <1>2, <1>7, <2>1 DEF PendingInv
    <2>4. /\ xact'[pipe[i + 1].from] = xact[pipe[i + 1].from]
          /\ xact[pipe[i + 1].from].made \subseteq Tokens
        BY <1>1, <1>3, <2>2, <2>3, MadeFacts
    <2>5. \A t \in Tokens : Created(t, i) => Created(t, i - 1)'
        BY <1>5, <2>1 DEF Created
    <2>6. QED
        BY <2>1, <2>2, <2>4, <2>5
  <1>8. ASSUME NEW i \in 1..Len(pipe'), NEW j \in 1..Len(pipe'),
               pipe'[i].op = "S", pipe'[j].op = "S", pipe'[i].from = pipe'[j].from
        PROVE  i = j
    <2>1. /\ i + 1 \in 1..Len(pipe) /\ pipe'[i] = pipe[i + 1]
          /\ j + 1 \in 1..Len(pipe) /\ pipe'[j] = pipe[j + 1]
        BY <1>2
    <2>2. i + 1 = j + 1
        BY <1>1, <1>8, <2>1 DEF PendingInv
    <2>3. QED
        BY <2>2
  <1>9. PendingInv'
      BY <1>6, <1>7, <1>8 DEF PendingInv
  <1>10. QED
      BY <1>4, <1>9

\* A transaction that no 'S' is pending of begins or ends.
LEMMA PendingXact ==
    ASSUME DurabilityInv, NEW s \in Sessions, xact[s].state # "barrier", pipe' = pipe, GoodStays,
           NEW x \in Xacts, xact' = [xact EXCEPT ![s] = x],
           x.state # "barrier" /\ x.made = {}
    PROVE  PendingInv'
  <1>1. PendingInv /\ pipe \in Seq(Messages) /\ xact \in [Sessions -> Xacts]
      BY InvFacts
  <1>2. xact'[s] = x /\ \A r \in Sessions : r # s => xact'[r] = xact[r]
      BY <1>1
  <1>3. \A t \in Tokens : \A n : Created(t, n) => Created(t, n)'
      BY DEF Created, GoodStays
  <1>4. ASSUME NEW r \in Sessions
        PROVE  (/\ xact[r].state = "none" => xact[r].made = {}
                /\ xact[r].state = "open" => \A t \in xact[r].made : Created(t, Len(pipe)))'
    <2>1. /\ xact[r].state = "none" => xact[r].made = {}
          /\ xact[r].state = "open" => \A t \in xact[r].made : Created(t, Len(pipe))
          /\ xact[r].made \subseteq Tokens
        BY <1>1, MadeFacts DEF PendingInv
    <2>2. CASE r # s
        BY <1>2, <1>3, <2>1, <2>2
    <2>3. CASE r = s
        BY <1>2, <2>3
    <2>4. QED
        BY <2>2, <2>3
  <1>5. ASSUME NEW i \in 1..Len(pipe'), pipe'[i].op = "S"
        PROVE  /\ xact'[pipe'[i].from].state = "barrier"
               /\ \A t \in xact'[pipe'[i].from].made : Created(t, i - 1)'
    <2>1. /\ pipe[i].from \in Sessions /\ xact[pipe[i].from].state = "barrier"
          /\ \A t \in xact[pipe[i].from].made : Created(t, i - 1)
        BY <1>1, <1>5, MessageFacts DEF PendingInv
    <2>2. xact'[pipe[i].from] = xact[pipe[i].from] /\ xact[pipe[i].from].made \subseteq Tokens
        BY <1>1, <1>2, <2>1, MadeFacts
    <2>3. QED
        BY <1>3, <2>1, <2>2
  <1>6. QED
      BY <1>1, <1>4, <1>5 DEF PendingInv

-----------------------------------------------------------------------------
(* Steps that do not store to the files                                     *)

LEMMA FilesSame ==
    ASSUME DurabilityInv, UNCHANGED <<mem, could, excused, synced>>
    PROVE  BarrierHolds' /\ CouldType' /\ IndexInv' /\ GoodStays
  <1>1. BarrierHolds'
      BY InvFacts DEF BarrierHolds, Aliased, Settled
  <1>2. CouldType'
      BY InvFacts DEF CouldType
  <1>3. IndexInv'
      BY InvFacts DEF IndexInv, Good, Aliased
  <1>4. GoodStays
      BY DEF GoodStays, Good, Aliased
  <1>5. QED
      BY <1>1, <1>2, <1>3, <1>4

LEMMA WorkerSame ==
    ASSUME DurabilityInv, UNCHANGED <<mem, could, excused, worker, syncing>>,
           pipe # <<>> => pipe' # <<>> /\ Head(pipe') = Head(pipe)
    PROVE  WorkerInv'
  <1>1. WorkerInv
      BY InvFacts
  <1>2. ASSUME worker = "kids"
        PROVE  (/\ pipe # <<>> /\ Head(pipe).op = "C" /\ Good(Head(pipe).token)
                /\ mem.nb_gates + Cardinality(MissingKids(Head(pipe).token)) <= MaxGates)'
    <2>1. /\ pipe # <<>> /\ Head(pipe).op = "C" /\ Good(Head(pipe).token)
          /\ mem.nb_gates + Cardinality(MissingKids(Head(pipe).token)) <= MaxGates
        BY <1>1, <1>2 DEF WorkerInv
    <2>2. Good(Head(pipe).token)'
        BY <2>1 DEF Good, Aliased
    <2>3. (mem.nb_gates + Cardinality(MissingKids(Head(pipe).token)) <= MaxGates)'
        BY <2>1 DEF MissingKids
    <2>4. QED
        BY <2>1, <2>2, <2>3
  <1>3. (syncing => worker \notin {"poll", "kids"} /\ pipe # <<>> /\ Head(pipe).op = "S")'
      BY <1>1 DEF WorkerInv
  <1>4. QED
      BY <1>1, <1>2, <1>3 DEF WorkerInv

LEMMA ClientSteps ==
    ASSUME DurabilityInv, NEW s \in Sessions, Client(s)
    PROVE  DurabilityInv'
  <1>1. /\ UNCHANGED <<mem, could, worker, syncing, opened, store_dirty, stops, crashes, ghosts>>
        /\ xacts' \in 0..MaxXacts
    <2>1. xacts \in 0..MaxXacts
        BY DEF DurabilityInv, DurableInv, TypeOK
    <2>2. CASE Begin(s)
        BY <2>1, <2>2 DEF Begin
    <2>3. CASE \E t \in Tokens : CreateGate(s, t)
        BY <2>1, <2>3 DEF CreateGate, counters
    <2>4. CASE Barrier(s)
        BY <2>1, <2>4 DEF Barrier, counters
    <2>5. CASE EndNow(s)
        BY <2>1, <2>5 DEF EndNow, counters
    <2>6. QED
        BY <2>2, <2>3, <2>4, <2>5 DEF Client
  <1>2. BarrierHolds' /\ CouldType' /\ IndexInv' /\ GoodStays
      BY <1>1, FilesSame DEF ghosts
  <1>3. pipe \in Seq(Messages) /\ Len(pipe) <= MaxPipe /\ xact \in [Sessions -> Xacts] /\ TypeOK
      BY DEF DurabilityInv, DurableInv, TypeOK
  <1>4. /\ PendingInv'
        /\ pipe' \in Seq(Messages) /\ Len(pipe') <= MaxPipe /\ xact' \in [Sessions -> Xacts]
        /\ pipe # <<>> => pipe' # <<>> /\ Head(pipe') = Head(pipe)
    <2>1. CASE Begin(s)
      <3> DEFINE x == [xact[s] EXCEPT !.state = "open"]
      <3>1. /\ x \in Xacts /\ x.state = "open" /\ x.made = xact[s].made
            /\ xact' = [xact EXCEPT ![s] = x]
          BY <1>3, <2>1 DEF Xacts, Begin
      <3>2. xact[s].made = {} /\ xact[s].state # "barrier" /\ pipe' = pipe
          BY <2>1, InvFacts DEF PendingInv, Begin
      <3> HIDE DEF x
      <3>3. PendingInv'
          BY <1>2, <3>1, <3>2, PendingXact
      <3>4. QED
          BY <1>3, <3>1, <3>2, <3>3
    <2>2. CASE EndNow(s)
      <3>1. /\ NoXact \in Xacts /\ NoXact.state # "barrier" /\ NoXact.made = {}
            /\ xact' = [xact EXCEPT ![s] = NoXact]
          BY <1>3, <2>2 DEF Xacts, NoXact, EndNow
      <3>2. xact[s].state # "barrier" /\ pipe' = pipe
          BY <2>2 DEF EndNow
      <3>3. PendingInv'
          BY <1>2, <3>1, <3>2, PendingXact
      <3>4. QED
          BY <1>3, <3>1, <3>2, <3>3
    <2>3. CASE \E t \in Tokens : CreateGate(s, t)
      <3>1. PICK t \in Tokens : CreateGate(s, t)
          BY <2>3
      <3> DEFINE x == [xact[s] EXCEPT !.made = @ \cup {t}]
                 msg == [op |-> "C", token |-> t, from |-> s]
      <3>2. /\ x \in Xacts /\ x.state = "open" /\ x.made = xact[s].made \cup {t}
            /\ xact' = [xact EXCEPT ![s] = x] /\ xact[s].state = "open"
          BY <1>3, <3>1 DEF Xacts, CreateGate
      <3>3. /\ msg \in Messages /\ msg.op = "C" /\ msg.token = t
            /\ pipe' = Append(pipe, msg) /\ Len(pipe) < MaxPipe
          BY <3>1 DEF Messages, CreateGate
      <3> HIDE DEF x, msg
      <3>4. PendingInv'
          BY <1>2, <3>2, <3>3, PendingAppend
      <3>5. QED
          BY <1>3, <3>2, <3>3, <3>4
    <2>4. CASE Barrier(s)
      <3> DEFINE x == [xact[s] EXCEPT !.state = "barrier"]
                 msg == [op |-> "S", from |-> s]
      <3>1. /\ x \in Xacts /\ x.state = "barrier" /\ x.made = xact[s].made
            /\ xact' = [xact EXCEPT ![s] = x] /\ xact[s].state = "open"
          BY <1>3, <2>4 DEF Xacts, Barrier
      <3>2. /\ msg \in Messages /\ msg.op = "S" /\ msg.from = s
            /\ pipe' = Append(pipe, msg) /\ Len(pipe) < MaxPipe
          BY <2>4 DEF Messages, Barrier
      <3> HIDE DEF x, msg
      <3>3. PendingInv'
          BY <1>2, <3>1, <3>2, PendingAppend
      <3>4. QED
          BY <1>3, <3>1, <3>2, <3>3
    <2>5. QED
        BY <2>1, <2>2, <2>3, <2>4 DEF Client
  <1>5. WorkerInv'
      BY <1>1, <1>4, WorkerSame DEF ghosts
  <1>6. TypeOK'
      BY <1>1, <1>3, <1>4 DEF TypeOK, ghosts
  <1>7. QED
      BY <1>2, <1>4, <1>5, <1>6 DEF DurabilityInv, DurableInv

-----------------------------------------------------------------------------
(* Steps that store to the files                                            *)

\* What every such step keeps.
Stays ==
    /\ FilesType(mem')
    /\ \A t \in Tokens : mem'.mapping[t] \in could'.mapping[t]
    /\ \A i \in GateIdx : mem'.gates[i] \in could'.gates[i]
    /\ \A i \in WireIdx : mem'.wires[i] \in could'.wires[i]
    /\ mem'.nb_gates \in could'.nb_gates /\ mem'.nb_wires \in could'.nb_wires
    /\ BarrierHolds' /\ CouldType' /\ IndexInv' /\ GoodStays

LEMMA StoreStep ==
    ASSUME DurabilityInv, NEW v \in Tokens, NEW g \in GateIdx, StoresTo(v, g), NEW c, StoresOver(c),
           ~Mapped(mem, v) => \A t \in Tokens : t # v /\ mem.mapping[t] = g => t \in excused,
           v \notin excused => g < mem'.nb_gates,
           (Good(v) \/ (InFiles(mem, v) /\ Placeholder(RecordOf(mem, v))))',
           v \in synced \ excused => Aliased(v),
           Good(v) => Good(v)'
    PROVE  Stays
  <1>1. FilesType(mem')
      BY DEF StoresTo
  <1>2. /\ \A t \in Tokens : mem'.mapping[t] \in could'.mapping[t]
        /\ \A i \in GateIdx : mem'.gates[i] \in could'.gates[i]
        /\ \A i \in WireIdx : mem'.wires[i] \in could'.wires[i]
        /\ mem'.nb_gates \in could'.nb_gates /\ mem'.nb_wires \in could'.nb_wires
      BY DEF StoresOver, Stored
  <1>3. CouldType'
      BY <1>1, InvFacts, CouldKept
  <1>4. IndexInv'
      BY IndexKept
  <1>5. BarrierHolds'
      BY BarrierKept
  <1>6. GoodStays
    <2>1. \A t \in Tokens : t # v /\ Good(t) => Good(t)'
        BY GoodKept
    <2>2. QED
        BY <2>1 DEF GoodStays
  <1>7. QED
      BY <1>1, <1>2, <1>3, <1>4, <1>5, <1>6 DEF Stays

\* appendGate, of a gate or of a placeholder for a child.
LEMMA AppendStep ==
    ASSUME DurabilityInv, NEW v \in Tokens, ~Mapped(mem, v),
           NEW type \in Types, NEW children \in Seq(Tokens),
           mem.nb_gates < MaxGates, mem.nb_wires + Len(children) <= MaxWires,
           StoreGate(v, type, children), UNCHANGED <<excused, synced>>,
           \/ type = Content[v].type /\ children = Content[v].children
           \/ type = "input" /\ children = <<>>
    PROVE  /\ Stays
           /\ mem'.mapping = [mem.mapping EXCEPT ![v] = mem.nb_gates]
           /\ mem'.nb_gates = mem.nb_gates + 1
           /\ type = Content[v].type /\ children = Content[v].children => Good(v)'
  <1>1. FilesType(mem) /\ mem.nb_gates \in Nat /\ mem.nb_gates \in GateIdx /\ mem.nb_wires \in Nat
      BY InvFacts, FilesFacts DEF GateIdx
  <1>2. PICK g \in GateIdx : g = mem.nb_gates
      BY <1>1
  <1>3. /\ FilesType(mem') /\ Extends(mem, mem', g)
        /\ mem'.nb_gates = g + 1
        /\ mem'.mapping[v] = g /\ \A u \in Tokens : u # v => mem'.mapping[u] = mem.mapping[u]
        /\ InFiles(mem', v) /\ RecordOf(mem', v).type = type
        /\ RecordOf(mem', v).nb_children = Len(children) /\ getChildren(mem', v) = children
    <2>1. mem' = appendGate(mem, v, type, children)
        BY DEF StoreGate
    <2>2. QED
        BY <1>1, <1>2, <2>1, AppendFacts
  <1>4. mem'.mapping = [mem.mapping EXCEPT ![v] = g]
      BY <1>1, <1>3 DEF FilesType
  <1>5. \A t \in Tokens : mem.mapping[t] = g => t \in excused
    <2>1. g # NOTHING
        BY <1>1, <1>2
    <2>2. ASSUME NEW t \in Tokens, mem.mapping[t] = g
          PROVE  t \in excused
      <3>1. Mapped(mem, t)
          BY <2>1, <2>2 DEF Mapped
      <3>2. mem.mapping[t] = mem.nb_gates
          BY <1>2, <2>2
      <3>3. QED
          BY <3>1, <3>2, FreeSlot
    <2>3. QED
        BY <2>2
  <1>6. StoresTo(v, g)
      BY <1>1, <1>3, <1>5 DEF StoresTo
  <1>7. PICK c : StoresOver(c)
    <2>1. could' = Stored(Grown(could, mem), mem')
        BY DEF StoreGate
    <2>2. Grown(could, mem) \in {could, ForceMapping(could, mem)}
        BY DEF Grown
    <2>3. StoresOver(Grown(could, mem))
        BY <2>1, <2>2 DEF StoresOver
    <2>4. QED
        BY <2>3
  <1>8. ~Good(v) /\ v \notin excused \cup synced
      BY GoodMapped, InvFacts DEF IndexInv
  <1>9. type = Content[v].type /\ children = Content[v].children => Good(v)'
    <2>1. ASSUME type = Content[v].type, children = Content[v].children
          PROVE  ReadsBack(mem', v)
        BY <1>3, <2>1 DEF ReadsBack, ReadsAs, InFiles
    <2>2. QED
        BY <2>1 DEF Good
  <1>10. (Good(v) \/ (InFiles(mem, v) /\ Placeholder(RecordOf(mem, v))))'
    <2>1. CASE type = "input" /\ children = <<>>
        BY <1>3, <2>1 DEF Placeholder
    <2>2. QED
        BY <1>9, <2>1
  <1>11. g < mem'.nb_gates
      BY <1>1, <1>2, <1>3
  <1>12. Stays
      BY <1>5, <1>6, <1>7, <1>8, <1>10, <1>11, StoreStep
  <1>13. QED
      BY <1>2, <1>3, <1>4, <1>9, <1>12

\* The upgrade, of a token the index leads to a placeholder.
LEMMA UpgradeStep ==
    ASSUME DurabilityInv, NEW v \in Tokens, Mapped(mem, v), Placeholder(RecordOf(mem, v)),
           NEW type, NEW children, type = Content[v].type, children = Content[v].children,
           type # "input" \/ children # <<>>,
           mem.nb_wires + Len(children) <= MaxWires,
           mem' = upgrade(mem, v, type, children), could' = Stored(could, mem'),
           UNCHANGED <<excused, synced>>
    PROVE  /\ Stays /\ Good(v)'
           /\ mem'.mapping = mem.mapping /\ mem'.nb_gates = mem.nb_gates
  <1>1. /\ FilesType(mem) /\ mem.nb_gates \in Nat /\ mem.mapping[v] \in GateIdx
        /\ type \in Types /\ children \in Seq(Tokens)
      BY InvFacts, FilesFacts, ContentFacts
  <1>2. PICK g \in GateIdx : g = mem.mapping[v]
      BY <1>1
  <1>3. /\ FilesType(mem') /\ Extends(mem, mem', g)
        /\ mem'.mapping = mem.mapping /\ mem'.nb_gates = mem.nb_gates
        /\ mem.mapping[v] < mem.nb_gates => InFiles(mem', v)
        /\ RecordOf(mem', v).type = type /\ getChildren(mem', v) = children
      BY <1>1, <1>2, UpgradeFacts
  <1>4. v \notin excused => mem.mapping[v] < mem.nb_gates
      BY InvFacts DEF IndexInv
  <1>5. Good(v)'
    <2>1. v \notin excused => ReadsBack(mem', v)
        BY <1>3, <1>4 DEF ReadsBack, ReadsAs, InFiles
    <2>2. QED
        BY <2>1 DEF Good
  <1>6. StoresTo(v, g)
    <2>1. \A t \in Tokens : t # v /\ Mapped(mem, t) /\ mem.mapping[t] = g => t \in excused \/ Aliased(t)
        BY <1>2, SharedSlot
    <2>2. QED
        BY <1>1, <1>2, <1>3, <2>1 DEF StoresTo
  <1>7. StoresOver(could)
      BY DEF StoresOver
  <1>8. v \in synced \ excused => Aliased(v)
    <2>1. ~ReadsBack(mem, v)
      <3>1. SUFFICES ASSUME ReadsBack(mem, v)
                     PROVE  FALSE
          OBVIOUS
      <3>2. /\ RecordOf(mem, v).type = type /\ getChildren(mem, v) = children
            /\ RecordOf(mem, v).type = "input" /\ RecordOf(mem, v).nb_children = 0
          BY <3>1 DEF ReadsBack, ReadsAs, Placeholder
      <3>3. children = [i \in 1..0 |-> mem.wires[RecordOf(mem, v).children_idx + i - 1]]
          BY <3>2 DEF getChildren
      <3>4. Len(children) = 0
          BY <1>1, <3>3
      <3>5. children = <<>>
          BY <1>1, <3>4
      <3>6. QED
          BY <3>2, <3>5
    <2>2. QED
        BY <2>1, InvFacts DEF BarrierHolds
  <1>9. v \notin excused => g < mem'.nb_gates
      BY <1>2, <1>3, <1>4
  <1>10. Stays
      BY <1>5, <1>6, <1>7, <1>8, <1>9, StoreStep
  <1>11. QED
      BY <1>3, <1>5, <1>10

\* The tokens a creation has yet to give records to.
LEMMA MissingFacts ==
    ASSUME NEW t \in Tokens
    PROVE  /\ MissingKids(t) \subseteq Tokens /\ IsFiniteSet(MissingKids(t))
           /\ Cardinality(MissingKids(t)) \in Nat
  <1>1. MissingKids(t) \subseteq Tokens
      BY ContentFacts DEF MissingKids
  <1>2. IsFiniteSet(MissingKids(t))
      BY <1>1, ContentAssumption, FS_Subset
  <1>3. QED
      BY <1>1, <1>2, FS_CardinalityType

LEMMA MissingAfter ==
    ASSUME FilesType(mem), NEW v \in Tokens, NEW t \in Tokens, NEW g \in GateIdx,
           mem'.mapping = [mem.mapping EXCEPT ![v] = g]
    PROVE  MissingKids(t)' = MissingKids(t) \ {v}
  <1> DEFINE K == {Content[t].children[i] : i \in 1..Len(Content[t].children)}
  <1>1. K \subseteq Tokens
      BY ContentFacts
  <1>2. MissingKids(t) = {u \in K : ~Mapped(mem, u)} /\ MissingKids(t)' = {u \in K : ~Mapped(mem', u)}
      BY DEF MissingKids
  <1> HIDE DEF K
  <1>3. g # NOTHING
      BY DEF GateIdx
  <1>4. \A u \in Tokens : ~Mapped(mem', u) <=> ~Mapped(mem, u) /\ u # v
      BY <1>3 DEF Mapped, FilesType
  <1>5. QED
      BY <1>1, <1>2, <1>4

LEMMA RoomFacts ==
    ASSUME DurabilityInv, NEW t \in Tokens, Room(t)
    PROVE  /\ mem.nb_wires + Len(Content[t].children) <= MaxWires
           /\ ~Mapped(mem, t) => /\ mem.nb_gates < MaxGates
                                 /\ mem.nb_gates + 1 + Cardinality(MissingKids(t) \ {t}) <= MaxGates
           /\ Mapped(mem, t) => mem.nb_gates + Cardinality(MissingKids(t)) <= MaxGates
  <1> DEFINE K == {Content[t].children[i] : i \in 1..Len(Content[t].children)}
             new == {u \in {t} \cup K : ~Mapped(mem, u)}
  <1>1. /\ mem.nb_wires + Len(Content[t].children) <= MaxWires
        /\ mem.nb_gates + Cardinality(new) <= MaxGates
      BY DEF Room
  <1>2. MissingKids(t) = {u \in K : ~Mapped(mem, u)} /\ K \subseteq Tokens
      BY ContentFacts DEF MissingKids
  <1> HIDE DEF K
  <1>3. IsFiniteSet(new) /\ Cardinality(new) \in Nat
    <2>1. new \subseteq Tokens
        BY <1>2
    <2>2. IsFiniteSet(new)
        BY <2>1, ContentAssumption, FS_Subset
    <2>3. QED
        BY <2>2, FS_CardinalityType
  <1>4. mem.nb_gates \in Nat
      BY InvFacts, FilesFacts
  <1>5. ASSUME ~Mapped(mem, t)
        PROVE  /\ mem.nb_gates < MaxGates
               /\ mem.nb_gates + 1 + Cardinality(MissingKids(t) \ {t}) <= MaxGates
    <2>1. t \in new /\ new \ {t} = MissingKids(t) \ {t}
        BY <1>2, <1>5
    <2>2. Cardinality(new \ {t}) = Cardinality(new) - 1
        BY <1>3, <2>1, FS_RemoveElement
    <2>3. IsFiniteSet(new \ {t}) /\ Cardinality(new \ {t}) \in Nat
        BY <1>3, FS_RemoveElement, FS_CardinalityType
    <2>4. PICK n \in Nat : n = Cardinality(new)
        BY <1>3
    <2>5. PICK k \in Nat : k = Cardinality(MissingKids(t) \ {t})
        BY <2>1, <2>3
    <2>6. k = n - 1 /\ mem.nb_gates + n <= MaxGates
        BY <1>1, <2>1, <2>2, <2>4, <2>5, Zenon
    <2>7. mem.nb_gates < MaxGates /\ mem.nb_gates + 1 + k <= MaxGates
        BY <1>4, <2>6
    <2>8. QED
        BY <2>5, <2>7
  <1>6. Mapped(mem, t) => new = MissingKids(t)
      BY <1>2
  <1>7. QED
      BY <1>1, <1>5, <1>6

LEMMA KidsWorker ==
    ASSUME worker' = "kids", ~syncing', pipe' # <<>>, Head(pipe').op = "C",
           NEW t, t = Head(pipe').token, Good(t)',
           (mem.nb_gates + Cardinality(MissingKids(t)) <= MaxGates)'
    PROVE  WorkerInv'
  <1>1. Good(Head(pipe).token)'
      BY DEF Good, Aliased
  <1>2. (mem.nb_gates + Cardinality(MissingKids(Head(pipe).token)) <= MaxGates)'
      BY DEF MissingKids
  <1>3. QED
      BY <1>1, <1>2 DEF WorkerInv

LEMMA ApplyCreateStep ==
    ASSUME DurabilityInv, ApplyCreate
    PROVE  DurabilityInv'
  <1>1. /\ TypeOK /\ FilesType(mem) /\ pipe \in Seq(Messages) /\ WorkerInv
        /\ worker = "poll" /\ pipe # <<>> /\ Head(pipe).op = "C"
        /\ UNCHANGED <<syncing, xact, counters, ghosts>>
        /\ opened' \in BOOLEAN /\ store_dirty' \in BOOLEAN
      BY InvFacts DEF ApplyCreate, Reads, DurabilityInv, DurableInv
  <1>2. PICK t \in Tokens : t = Head(pipe).token
    <2>1. Head(pipe) \in Messages
        BY <1>1, TailFacts
    <2>2. QED
        BY <1>1, <2>1 DEF Messages
  <1> DEFINE type == Content[t].type
             children == Content[t].children
  <1>3. type \in Types /\ children \in Seq(Tokens) /\ createGate(t, type, children)
      BY <1>2, ContentFacts DEF ApplyCreate
  <1>4. ~syncing'
      BY <1>1 DEF WorkerInv
  <1>5. UNCHANGED <<excused, synced>>
      BY <1>1 DEF ghosts
  <1>6. CASE ~Mapped(mem, t) /\ Room(t) /\ StoreGate(t, type, children) /\ worker' = "kids" /\ UNCHANGED pipe
    <2>1. /\ mem.nb_gates < MaxGates /\ mem.nb_wires + Len(children) <= MaxWires
          /\ mem.nb_gates + 1 + Cardinality(MissingKids(t) \ {t}) <= MaxGates
        BY <1>6, RoomFacts
    <2>2. /\ Stays /\ mem'.mapping = [mem.mapping EXCEPT ![t] = mem.nb_gates]
          /\ mem'.nb_gates = mem.nb_gates + 1 /\ Good(t)'
        BY <1>3, <1>5, <1>6, <2>1, AppendStep
    <2>3. MissingKids(t)' = MissingKids(t) \ {t}
      <3>1. mem.nb_gates \in GateIdx
          BY <1>1, <2>1, FilesFacts DEF GateIdx
      <3>2. QED
          BY <1>1, <2>2, <3>1, MissingAfter
    <2>4. (mem.nb_gates + Cardinality(MissingKids(t)) <= MaxGates)'
        BY <2>1, <2>2, <2>3
    <2>5. WorkerInv'
        BY <1>1, <1>2, <1>4, <1>6, <2>2, <2>4, KidsWorker
    <2>6. PendingInv'
        BY <1>1, <1>6, <2>2, PendingSame DEF Stays
    <2>7. TypeOK'
        BY <1>1, <1>6, <2>2 DEF TypeOK, Stays, counters, ghosts
    <2>8. QED
        BY <2>2, <2>5, <2>6, <2>7 DEF DurabilityInv, DurableInv, Stays
  <1>7. CASE /\ Mapped(mem, t) /\ Placeholder(RecordOf(mem, t)) /\ (type # "input" \/ children # <<>>)
             /\ Room(t) /\ mem' = upgrade(mem, t, type, children)
             /\ could' = Stored(could, mem') /\ worker' = "kids" /\ UNCHANGED pipe
    <2>1. /\ mem.nb_wires + Len(children) <= MaxWires
          /\ mem.nb_gates + Cardinality(MissingKids(t)) <= MaxGates
        BY <1>7, RoomFacts
    <2>2. Stays /\ Good(t)' /\ mem'.mapping = mem.mapping /\ mem'.nb_gates = mem.nb_gates
        BY <1>5, <1>7, <2>1, UpgradeStep
    <2>3. (mem.nb_gates + Cardinality(MissingKids(t)) <= MaxGates)'
        BY <2>1, <2>2 DEF MissingKids, Mapped
    <2>4. WorkerInv'
        BY <1>1, <1>2, <1>4, <1>7, <2>2, <2>3, KidsWorker
    <2>5. PendingInv'
        BY <1>1, <1>7, <2>2, PendingSame DEF Stays
    <2>6. TypeOK'
        BY <1>1, <1>7, <2>2 DEF TypeOK, Stays, counters, ghosts
    <2>7. QED
        BY <2>2, <2>4, <2>5, <2>6 DEF DurabilityInv, DurableInv, Stays
  <1>8. CASE /\ Mapped(mem, t) /\ ~(Placeholder(RecordOf(mem, t)) /\ (type # "input" \/ children # <<>>))
             /\ pipe' = Tail(pipe) /\ UNCHANGED <<mem, could, worker>>
    <2>1. BarrierHolds' /\ CouldType' /\ IndexInv' /\ GoodStays
        BY <1>5, <1>8, FilesSame
    <2>2. Good(t)
      <3>1. CASE Good(t) \/ t \in excused
          BY <3>1 DEF Good
      <3>2. CASE InFiles(mem, t) /\ Placeholder(RecordOf(mem, t))
        <4>1. type = "input" /\ children = <<>>
            BY <1>8, <3>2
        <4>2. RecordOf(mem, t).type = type /\ RecordOf(mem, t).nb_children = 0
            BY <3>2, <4>1 DEF Placeholder
        <4>3. getChildren(mem, t) = [i \in 1..0 |-> mem.wires[RecordOf(mem, t).children_idx + i - 1]]
            BY <4>2 DEF getChildren
        <4>4. getChildren(mem, t) = <<>>
            BY <4>3
        <4>5. QED
            BY <3>2, <4>1, <4>2, <4>4 DEF Good, ReadsBack, ReadsAs, InFiles
      <3>3. QED
          BY <1>8, <3>1, <3>2, InvFacts DEF IndexInv
    <2>3. Good(t)'
        BY <2>1, <2>2 DEF GoodStays
    <2>4. PendingInv'
        BY <1>1, <1>2, <1>8, <2>1, <2>3, PendingTail
    <2>5. WorkerInv'
        BY <1>1, <1>4, <1>8 DEF WorkerInv
    <2>6. pipe' \in Seq(Messages) /\ Len(pipe') <= MaxPipe
      <3>1. pipe' \in Seq(Messages) /\ Len(pipe') = Len(pipe) - 1 /\ Len(pipe) \in Nat
          BY <1>1, <1>8, TailFacts
      <3>2. Len(pipe) <= MaxPipe
          BY <1>1 DEF TypeOK
      <3>3. QED
          BY <3>1, <3>2
    <2>7. TypeOK'
        BY <1>1, <1>8, <2>6 DEF TypeOK, counters, ghosts
    <2>8. QED
        BY <2>1, <2>4, <2>5, <2>7 DEF DurabilityInv, DurableInv
  <1>9. QED
      BY <1>3, <1>6, <1>7, <1>8 DEF createGate

LEMMA LazyAddStep ==
    ASSUME DurabilityInv, LazyAdd
    PROVE  DurabilityInv'
  <1>1. /\ TypeOK /\ FilesType(mem) /\ pipe \in Seq(Messages) /\ WorkerInv
        /\ worker = "kids" /\ ~syncing
        /\ UNCHANGED <<pipe, worker, syncing, opened, store_dirty, xact, counters, ghosts>>
      BY InvFacts DEF LazyAdd, DurabilityInv, DurableInv, WorkerInv
  <1>2. /\ pipe # <<>> /\ Head(pipe).op = "C" /\ Good(Head(pipe).token)
        /\ mem.nb_gates + Cardinality(MissingKids(Head(pipe).token)) <= MaxGates
      BY <1>1 DEF WorkerInv
  <1>3. PICK t \in Tokens : t = Head(pipe).token
    <2>1. Head(pipe) \in Messages
        BY <1>1, <1>2, TailFacts
    <2>2. QED
        BY <1>2, <2>1 DEF Messages
  <1>4. PICK i \in UnmappedKids : StoreGate(Content[t].children[i], "input", <<>>)
      BY <1>3 DEF LazyAdd
  <1>5. PICK v \in MissingKids(t) : v = Content[t].children[i]
      BY <1>3, <1>4 DEF UnmappedKids, MissingKids
  <1>6. v \in Tokens /\ ~Mapped(mem, v)
      BY <1>5, MissingFacts DEF MissingKids
  <1>7. /\ mem.nb_gates \in Nat /\ mem.nb_gates < MaxGates /\ mem.nb_gates \in GateIdx
        /\ mem.nb_gates + 1 + Cardinality(MissingKids(t) \ {v}) <= MaxGates
    <2>1. PICK n \in Nat : n = Cardinality(MissingKids(t))
        BY MissingFacts
    <2>2. Cardinality(MissingKids(t) \ {v}) = n - 1 /\ Cardinality(MissingKids(t) \ {v}) \in Nat
      <3>1. IsFiniteSet(MissingKids(t)) /\ v \in MissingKids(t)
          BY <1>5, MissingFacts
      <3>2. /\ IsFiniteSet(MissingKids(t) \ {v})
            /\ Cardinality(MissingKids(t) \ {v}) = Cardinality(MissingKids(t)) - 1
          BY <3>1, FS_RemoveElement
      <3>3. Cardinality(MissingKids(t) \ {v}) \in Nat
          BY <3>2, FS_CardinalityType
      <3>4. QED
          BY <2>1, <3>2, <3>3
    <2>3. mem.nb_gates + n <= MaxGates
        BY <1>2, <1>3, <2>1
    <2>4. PICK k \in Nat : k = Cardinality(MissingKids(t) \ {v})
        BY <2>2
    <2>5. k = n - 1
        BY <2>2, <2>4
    <2>6. mem.nb_gates \in Nat
        BY <1>1, FilesFacts
    <2>7. /\ mem.nb_gates < MaxGates /\ mem.nb_gates \in GateIdx
          /\ mem.nb_gates + 1 + k <= MaxGates
        BY <2>3, <2>5, <2>6 DEF GateIdx
    <2>8. QED
        BY <2>4, <2>6, <2>7
  <1>8. /\ "input" \in Types /\ <<>> \in Seq(Tokens) /\ mem.nb_wires + Len(<<>>) <= MaxWires
        /\ StoreGate(v, "input", <<>>)
    <2>1. mem.nb_wires \in Nat /\ mem.nb_wires <= MaxWires
        BY <1>1, FilesFacts
    <2>2. mem.nb_wires + 0 = mem.nb_wires
        BY <2>1
    <2>3. "input" \in Types
        BY DEF Types
    <2>4. Len(<<>>) = 0 /\ <<>> \in Seq(Tokens)
        OBVIOUS
    <2>5. QED
        BY <1>4, <1>5, <2>1, <2>2, <2>3, <2>4
  <1>9. /\ Stays /\ mem'.mapping = [mem.mapping EXCEPT ![v] = mem.nb_gates]
        /\ mem'.nb_gates = mem.nb_gates + 1
    <2>1. UNCHANGED <<excused, synced>>
        BY <1>1 DEF ghosts
    <2>2. QED
        BY <1>6, <1>7, <1>8, <2>1, AppendStep
  <1>10. MissingKids(t)' = MissingKids(t) \ {v}
      BY <1>1, <1>6, <1>7, <1>9, MissingAfter
  <1>11. (mem.nb_gates + Cardinality(MissingKids(t)) <= MaxGates)'
      BY <1>7, <1>9, <1>10
  <1>12. Good(t)'
    <2>1. Good(t)
        BY <1>2, <1>3
    <2>2. QED
        BY <1>9, <2>1 DEF Stays, GoodStays
  <1>13. WorkerInv'
      BY <1>1, <1>2, <1>3, <1>11, <1>12, KidsWorker
  <1>14. PendingInv'
      BY <1>1, <1>9, PendingSame DEF Stays
  <1>15. TypeOK'
      BY <1>1, <1>9 DEF TypeOK, Stays, counters, ghosts
  <1>16. QED
      BY <1>9, <1>13, <1>14, <1>15 DEF DurabilityInv, DurableInv, Stays

LEMMA EndCreateStep ==
    ASSUME DurabilityInv, EndCreate
    PROVE  DurabilityInv'
  <1>1. /\ TypeOK /\ pipe \in Seq(Messages) /\ WorkerInv
        /\ worker = "kids" /\ worker' = "poll" /\ pipe' = Tail(pipe) /\ ~syncing
        /\ UNCHANGED <<mem, could, syncing, opened, store_dirty, xact, counters, ghosts>>
      BY InvFacts DEF EndCreate, DurabilityInv, DurableInv, WorkerInv
  <1>2. pipe # <<>> /\ Head(pipe).op = "C" /\ Good(Head(pipe).token)
      BY <1>1 DEF WorkerInv
  <1>3. PICK t \in Tokens : t = Head(pipe).token
    <2>1. Head(pipe) \in Messages
        BY <1>1, <1>2, TailFacts
    <2>2. QED
        BY <1>2, <2>1 DEF Messages
  <1>4. BarrierHolds' /\ CouldType' /\ IndexInv' /\ GoodStays
      BY <1>1, FilesSame DEF ghosts
  <1>5. Good(t)'
    <2>1. Good(t)
        BY <1>2, <1>3
    <2>2. QED
        BY <1>4, <2>1 DEF GoodStays
  <1>6. PendingInv'
      BY <1>1, <1>2, <1>3, <1>4, <1>5, PendingTail
  <1>7. WorkerInv'
      BY <1>1 DEF WorkerInv
  <1>8. pipe' \in Seq(Messages) /\ Len(pipe') <= MaxPipe
    <2>1. pipe' \in Seq(Messages) /\ Len(pipe') = Len(pipe) - 1 /\ Len(pipe) \in Nat
        BY <1>1, <1>2, TailFacts
    <2>2. Len(pipe) <= MaxPipe
        BY <1>1 DEF TypeOK
    <2>3. QED
        BY <2>1, <2>2
  <1>9. TypeOK'
      BY <1>1, <1>8 DEF TypeOK, counters, ghosts
  <1>10. QED
      BY <1>4, <1>6, <1>7, <1>9 DEF DurabilityInv, DurableInv

LEMMA StartFlushStep ==
    ASSUME DurabilityInv, StartFlush
    PROVE  DurabilityInv'
  <1>1. /\ TypeOK /\ WorkerInv /\ worker' = "wires"
        /\ UNCHANGED <<mem, could, pipe, store_dirty, xact, counters, ghosts>>
        /\ worker = "poll"
        /\ \/ pipe # <<>> /\ Head(pipe).op = "S" /\ opened' = TRUE /\ syncing' = TRUE
           \/ UNCHANGED <<opened, syncing>>
      BY InvFacts DEF StartFlush, Reads, DurabilityInv, DurableInv
  <1>2. BarrierHolds' /\ CouldType' /\ IndexInv' /\ GoodStays
      BY <1>1, FilesSame DEF ghosts
  <1>3. PendingInv'
      BY <1>1, <1>2, PendingSame
  <1>4. WorkerInv'
      BY <1>1 DEF WorkerInv
  <1>5. TypeOK'
      BY <1>1 DEF TypeOK, counters, ghosts
  <1>6. QED
      BY <1>2, <1>3, <1>4, <1>5 DEF DurabilityInv, DurableInv

LEMMA StopStep ==
    ASSUME DurabilityInv, Stop
    PROVE  DurabilityInv'
  <1>1. /\ TypeOK /\ worker = "poll" /\ stops < MaxStops /\ stops' = stops + 1
        /\ opened' = FALSE /\ store_dirty' = FALSE
        /\ exposed' = exposed \cup {t \in Tokens : Mapped(mem, t) /\ ~Settled(t)}
        /\ UNCHANGED <<mem, could, pipe, worker, syncing, xact, xacts, crashes, synced, excused>>
      BY DEF Stop, DurabilityInv, DurableInv
  <1>2. BarrierHolds' /\ CouldType' /\ IndexInv' /\ GoodStays
      BY <1>1, FilesSame
  <1>3. PendingInv'
      BY <1>1, <1>2, PendingSame
  <1>4. WorkerInv'
      BY <1>1, WorkerSame
  <1>5. stops' \in 0..MaxStops /\ exposed' \subseteq Tokens
      BY <1>1 DEF TypeOK
  <1>6. TypeOK'
      BY <1>1, <1>5 DEF TypeOK
  <1>7. QED
      BY <1>2, <1>3, <1>4, <1>6 DEF DurabilityInv, DurableInv

-----------------------------------------------------------------------------
(* Forcing the files out                                                    *)

\* What forcing one file leaves of the words on disk: those of mem, in that file.
LEMMA ForcedFacts ==
    ASSUME CouldType, FilesType(mem)
    PROVE  /\ LET c == ForceWires(could, mem) IN
              /\ c.wires = Only(mem).wires /\ c.nb_wires = {mem.nb_wires}
              /\ c.mapping = could.mapping /\ c.gates = could.gates /\ c.nb_gates = could.nb_gates
           /\ LET c == ForceGates(could, mem) IN
              /\ c.gates = Only(mem).gates /\ c.nb_gates = {mem.nb_gates}
              /\ c.mapping = could.mapping /\ c.wires = could.wires /\ c.nb_wires = could.nb_wires
           /\ LET c == ForceMapping(could, mem) IN
              /\ c.mapping = Only(mem).mapping
              /\ c.gates = could.gates /\ c.nb_gates = could.nb_gates
              /\ c.wires = could.wires /\ c.nb_wires = could.nb_wires
           /\ {ForceWires(could, mem), ForceGates(could, mem), ForceMapping(could, mem)} \subseteq
                 [mapping : [Tokens -> SUBSET (GateIdx \cup {NOTHING})],
                  gates : [GateIdx -> SUBSET Records], nb_gates : SUBSET (0..MaxGates),
                  wires : [WireIdx -> SUBSET (Tokens \cup {NOTHING})],
                  nb_wires : SUBSET (0..MaxWires)]
  <1>1. /\ Only(mem).mapping = [t \in Tokens |-> {mem.mapping[t]}]
        /\ Only(mem).gates = [i \in GateIdx |-> {mem.gates[i]}] /\ Only(mem).nb_gates = {mem.nb_gates}
        /\ Only(mem).wires = [i \in WireIdx |-> {mem.wires[i]}] /\ Only(mem).nb_wires = {mem.nb_wires}
      BY DEF Only
  <1>2. Only(mem).mapping \in [Tokens -> SUBSET (GateIdx \cup {NOTHING})]
      BY <1>1 DEF FilesType
  <1>3. Only(mem).gates \in [GateIdx -> SUBSET Records]
      BY <1>1 DEF FilesType
  <1>4. Only(mem).wires \in [WireIdx -> SUBSET (Tokens \cup {NOTHING})]
      BY <1>1 DEF FilesType
  <1>5. {mem.nb_gates} \in SUBSET (0..MaxGates) /\ {mem.nb_wires} \in SUBSET (0..MaxWires)
      BY DEF FilesType
  <1>6. QED
      BY <1>2, <1>3, <1>4, <1>5 DEF CouldType, ForceWires, ForceGates, ForceMapping

LEMMA ForceStep ==
    ASSUME DurabilityInv, UNCHANGED <<mem, excused, synced>>,
           could' \in {ForceWires(could, mem), ForceGates(could, mem), ForceMapping(could, mem)}
    PROVE  Stays
  <1>1. /\ FilesType(mem) /\ CouldType /\ TypeOK
        /\ mem.nb_gates \in Nat /\ mem.nb_wires \in Nat /\ mem.nb_wires <= MaxWires
      BY InvFacts, FilesFacts DEF DurabilityInv, DurableInv
  <1>2. /\ could'.mapping \in {could.mapping, Only(mem).mapping}
        /\ could'.gates \in {could.gates, Only(mem).gates}
        /\ could'.nb_gates \in {could.nb_gates, {mem.nb_gates}}
        /\ could'.wires \in {could.wires, Only(mem).wires}
        /\ could'.nb_wires \in {could.nb_wires, {mem.nb_wires}}
      BY <1>1, ForcedFacts
  <1>3. CouldType'
      BY <1>1, ForcedFacts DEF CouldType
  <1>4. /\ \A t \in Tokens : could'.mapping[t] \in {could.mapping[t], {mem.mapping[t]}}
        /\ \A i \in GateIdx : could'.gates[i] \in {could.gates[i], {mem.gates[i]}}
        /\ \A i \in WireIdx : could'.wires[i] \in {could.wires[i], {mem.wires[i]}}
      BY <1>2 DEF Only
  <1>5. /\ \A t \in Tokens : mem.mapping[t] \in could'.mapping[t]
        /\ \A i \in GateIdx : mem.gates[i] \in could'.gates[i]
        /\ \A i \in WireIdx : mem.wires[i] \in could'.wires[i]
        /\ mem.nb_gates \in could'.nb_gates /\ mem.nb_wires \in could'.nb_wires
      BY <1>1, <1>2, <1>4 DEF TypeOK
  <1>6. IndexInv'
    <2>1. \A t \in Tokens : could'.mapping[t] \subseteq {NOTHING, mem.mapping[t]}
        BY <1>4, InvFacts DEF IndexInv
    <2>2. \A t \in excused \cup synced : Mapped(mem, t) /\ could'.mapping[t] = {mem.mapping[t]}
        BY <1>4, InvFacts DEF IndexInv
    <2>3. QED
        BY <2>1, <2>2, InvFacts DEF IndexInv, Good, Aliased
  <1>7. BarrierHolds'
    <2>1. ASSUME NEW t \in synced \ excused, ~Aliased(t)
          PROVE  ReadsBack(mem, t) /\ Settled(t)'
      <3> DEFINE k == mem.mapping[t]
                 r == RecordOf(mem, t)
      <3>1. ReadsBack(mem, t) /\ Settled(t) /\ t \in Tokens /\ InFiles(mem, t)
          BY <2>1, InvFacts DEF BarrierHolds, ReadsBack
      <3>2. /\ k \in GateIdx /\ k < mem.nb_gates /\ r.children_idx + r.nb_children <= mem.nb_wires
            /\ r.nb_children \in Nat /\ r.children_idx \in Nat
          BY <1>1, <3>1, FilesFacts DEF InFiles
      <3>3. could.mapping[t] = {k} /\ could'.mapping[t] = {k}
          BY <1>4, <3>1 DEF Settled
      <3>4. could.gates[k] = {r} /\ r = mem.gates[k]
          BY <3>1 DEF Settled, RecordOf
      <3>5. could'.gates[k] = {r}
          BY <1>4, <3>2, <3>4
      <3>6. \A n \in could'.nb_gates : k < n
        <4>1. \A n \in could.nb_gates : k < n
            BY <3>1 DEF Settled
        <4>2. QED
            BY <1>2, <3>2, <4>1
      <3>7. \A n \in could'.nb_wires : r.children_idx + r.nb_children <= n
        <4>1. \A n \in could.nb_wires : r.children_idx + r.nb_children <= n
            BY <3>1 DEF Settled
        <4>2. QED
            BY <1>2, <3>2, <4>1
      <3>8. ASSUME NEW i \in r.children_idx..(r.children_idx + r.nb_children - 1)
            PROVE  could'.wires[i] = {mem.wires[i]}
        <4>1. could.wires[i] = {mem.wires[i]}
            BY <3>1, <3>8 DEF Settled
        <4>2. i \in WireIdx
            BY <1>1, <3>2 DEF WireIdx
        <4>3. QED
            BY <1>4, <4>1, <4>2
      <3>9. mem' = mem
          OBVIOUS
      <3>10. mem'.mapping[t] = k /\ RecordOf(mem', t) = r
          BY <3>9
      <3> HIDE DEF k, r
      <3>11. QED
          BY <3>1, <3>3, <3>5, <3>6, <3>7, <3>8, <3>9, <3>10 DEF Settled
    <2>2. QED
        BY <2>1 DEF BarrierHolds, Aliased
  <1>8. GoodStays
      BY DEF GoodStays, Good, Aliased
  <1>9. QED
      BY <1>1, <1>3, <1>5, <1>6, <1>7, <1>8 DEF Stays

\* With all three files forced, what is in them is settled.
LEMMA AllForced ==
    ASSUME DurabilityInv, worker = "flushed", NEW t \in Tokens, InFiles(mem, t)
    PROVE  Settled(t)
  <1> DEFINE r == RecordOf(mem, t)
  <1>1. /\ could.mapping = Only(mem).mapping /\ could.gates = Only(mem).gates
        /\ could.nb_gates = {mem.nb_gates} /\ could.wires = Only(mem).wires
        /\ could.nb_wires = {mem.nb_wires}
      BY InvFacts DEF WorkerInv
  <1>2. /\ mem.mapping[t] \in GateIdx /\ mem.mapping[t] < mem.nb_gates
        /\ r.children_idx + r.nb_children <= mem.nb_wires /\ mem.nb_wires <= MaxWires
        /\ r.nb_children \in Nat /\ r.children_idx \in Nat /\ mem.nb_wires \in Nat
      BY InvFacts, FilesFacts DEF InFiles
  <1>3. could.mapping[t] = {mem.mapping[t]}
      BY <1>1 DEF Only
  <1>4. could.gates[mem.mapping[t]] = {r}
      BY <1>1, <1>2 DEF Only, RecordOf
  <1>5. \A i \in r.children_idx..(r.children_idx + r.nb_children - 1) : could.wires[i] = {mem.wires[i]}
    <2>1. ASSUME NEW i \in r.children_idx..(r.children_idx + r.nb_children - 1)
          PROVE  i \in WireIdx
        BY <1>2 DEF WireIdx
    <2>2. QED
        BY <1>1, <2>1 DEF Only
  <1>6. QED
      BY <1>1, <1>2, <1>3, <1>4, <1>5 DEF Settled

LEMMA FlushSteps ==
    ASSUME DurabilityInv, FlushWires \/ FlushGates \/ FlushMapping
    PROVE  DurabilityInv'
  <1>1. /\ UNCHANGED <<mem, pipe, syncing, opened, store_dirty, xact, counters, synced, excused>>
        /\ exposed' \in {exposed, {}}
        /\ \/ worker = "wires" /\ could' = ForceWires(could, mem) /\ worker' = "gates"
           \/ worker = "gates" /\ could' = ForceGates(could, mem) /\ worker' = "mapping"
           \/ worker = "mapping" /\ could' = ForceMapping(could, mem) /\ worker' = "flushed"
      BY DEF FlushWires, FlushGates, FlushMapping, FlushFile
  <1>2. TypeOK /\ WorkerInv /\ FilesType(mem) /\ CouldType
      BY InvFacts DEF DurabilityInv, DurableInv
  <1>3. Stays
      BY <1>1, ForceStep
  <1>4. PendingInv'
      BY <1>1, <1>3, PendingSame DEF Stays
  <1>5. WorkerInv'
    <2>1. Only(mem)' = Only(mem)
        BY <1>1
    <2>2. CASE worker = "wires"
        BY <1>1, <1>2, <2>1, <2>2, ForcedFacts DEF WorkerInv
    <2>3. CASE worker = "gates"
        BY <1>1, <1>2, <2>1, <2>3, ForcedFacts DEF WorkerInv
    <2>4. CASE worker = "mapping"
        BY <1>1, <1>2, <2>1, <2>4, ForcedFacts DEF WorkerInv
    <2>5. QED
        BY <1>1, <2>2, <2>3, <2>4
  <1>6. TypeOK'
      BY <1>1, <1>2, <1>3 DEF TypeOK, Stays, counters
  <1>7. QED
      BY <1>3, <1>4, <1>5, <1>6 DEF DurabilityInv, DurableInv, Stays

\* The acknowledgement: what its session created is on disk.
LEMMA EndFlushStep ==
    ASSUME DurabilityInv, EndFlush
    PROVE  DurabilityInv'
  <1>1. /\ TypeOK /\ WorkerInv /\ FilesType(mem) /\ pipe \in Seq(Messages) /\ xact \in [Sessions -> Xacts]
        /\ worker = "flushed" /\ worker' = "poll" /\ store_dirty' = FALSE /\ syncing' = FALSE
        /\ UNCHANGED <<mem, could, opened, counters, excused, exposed>>
      BY InvFacts DEF EndFlush, DurabilityInv, DurableInv
  <1>2. GoodStays
      BY <1>1 DEF GoodStays, Good, Aliased
  <1>3. WorkerInv'
      BY <1>1 DEF WorkerInv
  <1>4. CASE ~syncing
    <2>1. UNCHANGED <<pipe, synced, xact>>
        BY <1>4 DEF EndFlush
    <2>2. BarrierHolds' /\ CouldType' /\ IndexInv'
        BY <1>1, <2>1, FilesSame
    <2>3. PendingInv'
        BY <1>2, <2>1, PendingSame
    <2>4. TypeOK'
        BY <1>1, <2>1 DEF TypeOK, counters
    <2>5. QED
        BY <1>3, <2>2, <2>3, <2>4 DEF DurabilityInv, DurableInv
  <1>5. CASE syncing
    <2>1. pipe # <<>> /\ Head(pipe).op = "S"
        BY <1>1, <1>5 DEF WorkerInv
    <2>2. PICK s \in Sessions : s = Head(pipe).from
      <3>1. Head(pipe) \in Messages
          BY <1>1, <2>1, TailFacts
      <3>2. QED
          BY <2>1, <3>1 DEF Messages
    <2>3. /\ pipe' = Tail(pipe) /\ synced' = synced \cup xact[s].made
          /\ xact' = [xact EXCEPT ![s] = NoXact]
        BY <1>5, <2>2 DEF EndFlush
    <2>4. PendingInv' /\ \A t \in xact[s].made : t \in Tokens /\ Good(t)
        BY <1>2, <2>1, <2>2, <2>3, PendingEnd
    <2>5. IndexInv'
      <3>1. ASSUME NEW t \in xact[s].made
            PROVE  t \in Tokens /\ Mapped(mem, t) /\ could.mapping[t] = {mem.mapping[t]}
        <4>1. t \in Tokens /\ Mapped(mem, t)
            BY <2>4, GoodMapped
        <4>2. could.mapping = Only(mem).mapping
            BY <1>1 DEF WorkerInv
        <4>3. QED
            BY <4>1, <4>2 DEF Only
      <3>2. \A t \in excused \cup synced : Mapped(mem, t) /\ could.mapping[t] = {mem.mapping[t]}
          BY InvFacts DEF IndexInv
      <3>3. \A t \in (excused \cup synced)' : Mapped(mem, t) /\ could.mapping[t] = {mem.mapping[t]}
          BY <1>1, <2>3, <3>1, <3>2
      <3>4. QED
          BY <1>1, <3>3, InvFacts DEF IndexInv, Good, Aliased
    <2>6. BarrierHolds'
      <3>1. ASSUME NEW t \in (synced \ excused)', ~Aliased(t)
            PROVE  ReadsBack(mem, t) /\ Settled(t)
        <4>1. CASE t \in synced
            BY <1>1, <3>1, <4>1, InvFacts DEF BarrierHolds
        <4>2. CASE t \in xact[s].made
          <5>1. t \in Tokens /\ ReadsBack(mem, t)
              BY <1>1, <2>4, <3>1, <4>2 DEF Good
          <5>2. QED
              BY <1>1, <5>1, AllForced DEF ReadsBack
        <4>3. QED
            BY <2>3, <3>1, <4>1, <4>2
      <3>2. QED
          BY <1>1, <3>1 DEF BarrierHolds, Aliased, Settled
    <2>7. CouldType'
        BY <1>1, InvFacts DEF CouldType
    <2>8. pipe' \in Seq(Messages) /\ Len(pipe') <= MaxPipe
      <3>1. pipe' \in Seq(Messages) /\ Len(pipe') = Len(pipe) - 1 /\ Len(pipe) \in Nat
          BY <1>1, <2>1, <2>3, TailFacts
      <3>2. Len(pipe) <= MaxPipe
          BY <1>1 DEF TypeOK
      <3>3. QED
          BY <3>1, <3>2
    <2>9. xact' \in [Sessions -> Xacts] /\ synced' \subseteq Tokens
      <3>1. NoXact \in Xacts
          BY DEF NoXact, Xacts
      <3>2. QED
          BY <1>1, <2>3, <2>4, <3>1 DEF TypeOK
    <2>10. TypeOK'
        BY <1>1, <2>8, <2>9 DEF TypeOK, counters
    <2>11. QED
        BY <1>3, <2>4, <2>5, <2>6, <2>7, <2>10 DEF DurabilityInv, DurableInv
  <1>6. QED
      BY <1>4, <1>5

\* A crash leaves of each word one of the values it could have on disk.
LEMMA OutcomeFacts ==
    ASSUME CouldType, NEW m \in Outcomes(could)
    PROVE  /\ FilesType(m)
           /\ \A t \in Tokens : m.mapping[t] \in could.mapping[t]
           /\ \A i \in GateIdx : m.gates[i] \in could.gates[i]
           /\ \A i \in WireIdx : m.wires[i] \in could.wires[i]
           /\ m.nb_gates \in could.nb_gates /\ m.nb_wires \in could.nb_wires
  <1>1. /\ m.mapping \in Pick(Tokens, could.mapping) /\ m.gates \in Pick(GateIdx, could.gates)
        /\ m.wires \in Pick(WireIdx, could.wires)
        /\ m.nb_gates \in could.nb_gates /\ m.nb_wires \in could.nb_wires
      BY DEF Outcomes
  <1>2. ASSUME NEW S, NEW V, NEW choices \in [S -> SUBSET V], NEW f \in Pick(S, choices)
        PROVE  f \in [S -> V] /\ \A x \in S : f[x] \in choices[x]
      BY <1>2 DEF Pick
  <1>3. /\ could.mapping \in [Tokens -> SUBSET (GateIdx \cup {NOTHING})]
        /\ could.gates \in [GateIdx -> SUBSET Records] /\ could.nb_gates \subseteq 0..MaxGates
        /\ could.wires \in [WireIdx -> SUBSET (Tokens \cup {NOTHING})]
        /\ could.nb_wires \subseteq 0..MaxWires
      BY DEF CouldType
  <1>4. m.mapping \in [Tokens -> GateIdx \cup {NOTHING}] /\ \A t \in Tokens : m.mapping[t] \in could.mapping[t]
      BY <1>1, <1>2, <1>3
  <1>5. m.gates \in [GateIdx -> Records] /\ \A i \in GateIdx : m.gates[i] \in could.gates[i]
      BY <1>1, <1>2, <1>3
  <1>6. m.wires \in [WireIdx -> Tokens \cup {NOTHING}] /\ \A i \in WireIdx : m.wires[i] \in could.wires[i]
      BY <1>1, <1>2, <1>3
  <1>7. QED
      BY <1>1, <1>3, <1>4, <1>5, <1>6 DEF FilesType

LEMMA CrashFacts ==
    ASSUME DurabilityInv, Crash
    PROVE  /\ TypeOK /\ FilesType(mem) /\ CouldType /\ IndexInv /\ BarrierHolds
           /\ FilesType(mem')
           /\ \A t \in Tokens : mem'.mapping[t] \in could.mapping[t]
           /\ \A i \in GateIdx : mem'.gates[i] \in could.gates[i]
           /\ \A i \in WireIdx : mem'.wires[i] \in could.wires[i]
           /\ mem'.nb_gates \in could.nb_gates /\ mem'.nb_wires \in could.nb_wires
           /\ \A t \in Tokens : could'.mapping[t] = {mem'.mapping[t]}
           /\ \A i \in GateIdx : could'.gates[i] = {mem'.gates[i]}
           /\ \A i \in WireIdx : could'.wires[i] = {mem'.wires[i]}
           /\ could'.nb_gates = {mem'.nb_gates} /\ could'.nb_wires = {mem'.nb_wires}
           /\ excused \subseteq Tokens /\ synced \subseteq Tokens
           /\ \A t \in excused \cup synced : Mapped(mem', t) /\ mem'.mapping[t] = mem.mapping[t]
  <1>1. /\ TypeOK /\ FilesType(mem) /\ CouldType /\ IndexInv
        /\ crashes < MaxCrashes /\ crashes' = crashes + 1
        /\ mem' \in Outcomes(could) /\ could' = Only(mem')
        /\ pipe' = <<>> /\ worker' = "poll" /\ syncing' = FALSE /\ opened' = FALSE /\ store_dirty' = FALSE
        /\ xact' = [s \in Sessions |-> NoXact]
        /\ excused' = excused \cup {t \in Tokens : Damaged(mem', t)}
        /\ exposed' = {} /\ UNCHANGED <<xacts, stops, synced>>
      BY InvFacts DEF Crash, DurabilityInv, DurableInv
  <1>2. /\ FilesType(mem')
        /\ \A t \in Tokens : mem'.mapping[t] \in could.mapping[t]
        /\ \A i \in GateIdx : mem'.gates[i] \in could.gates[i]
        /\ \A i \in WireIdx : mem'.wires[i] \in could.wires[i]
        /\ mem'.nb_gates \in could.nb_gates /\ mem'.nb_wires \in could.nb_wires
      BY <1>1, OutcomeFacts
  <1>3. /\ \A t \in Tokens : could'.mapping[t] = {mem'.mapping[t]}
        /\ \A i \in GateIdx : could'.gates[i] = {mem'.gates[i]}
        /\ \A i \in WireIdx : could'.wires[i] = {mem'.wires[i]}
        /\ could'.nb_gates = {mem'.nb_gates} /\ could'.nb_wires = {mem'.nb_wires}
      BY <1>1 DEF Only
  <1>4. /\ excused \subseteq Tokens /\ synced \subseteq Tokens
        /\ \A t \in excused \cup synced : Mapped(mem', t) /\ mem'.mapping[t] = mem.mapping[t]
    <2>1. excused \subseteq Tokens /\ synced \subseteq Tokens
        BY InvFacts
    <2>2. \A t \in excused \cup synced : Mapped(mem, t) /\ could.mapping[t] = {mem.mapping[t]}
        BY <1>1 DEF IndexInv
    <2>3. \A t \in excused \cup synced : mem'.mapping[t] = mem.mapping[t]
        BY <1>2, <2>1, <2>2
    <2>4. QED
        BY <2>1, <2>2, <2>3 DEF Mapped
  <1>5. QED
      BY <1>1, <1>2, <1>3, <1>4, InvFacts

\* A crash takes nothing from a settled token.
LEMMA CrashLeaves ==
    ASSUME DurabilityInv, Crash, NEW t \in synced \ excused, ~Aliased(t)
    PROVE  ReadsBack(mem', t) /\ Settled(t)'
  <1>1. /\ FilesType(mem) /\ BarrierHolds /\ t \in Tokens /\ t \in synced \ excused
        /\ Mapped(mem', t) /\ mem'.mapping[t] = mem.mapping[t]
        /\ \A i \in GateIdx : mem'.gates[i] \in could.gates[i]
        /\ \A i \in WireIdx : mem'.wires[i] \in could.wires[i]
        /\ mem'.nb_gates \in could.nb_gates /\ mem'.nb_wires \in could.nb_wires
        /\ could'.mapping[t] = {mem'.mapping[t]}
        /\ \A i \in GateIdx : could'.gates[i] = {mem'.gates[i]}
        /\ \A i \in WireIdx : could'.wires[i] = {mem'.wires[i]}
        /\ could'.nb_gates = {mem'.nb_gates} /\ could'.nb_wires = {mem'.nb_wires}
      BY CrashFacts
  <1> DEFINE k == mem.mapping[t]
             r == RecordOf(mem, t)
  <1>2. ReadsBack(mem, t) /\ Settled(t)
      BY <1>1 DEF BarrierHolds
  <1>3. /\ k \in GateIdx /\ k < mem.nb_gates /\ r.children_idx + r.nb_children <= mem.nb_wires
        /\ r.nb_children \in Nat /\ r.children_idx \in Nat
        /\ mem.nb_wires \in Nat /\ mem.nb_wires <= MaxWires
      BY <1>1, <1>2, FilesFacts DEF InFiles, ReadsBack
  <1>4. mem'.gates[k] = r
    <2>1. could.gates[k] = {r}
        BY <1>2 DEF Settled
    <2>2. QED
        BY <1>1, <1>3, <2>1
  <1>5. RecordOf(mem', t) = r
      BY <1>1, <1>4 DEF RecordOf
  <1>6. k < mem'.nb_gates
      BY <1>1, <1>2 DEF Settled
  <1>7. r.children_idx + r.nb_children <= mem'.nb_wires
      BY <1>1, <1>2 DEF Settled
  <1>8. ASSUME NEW i \in r.children_idx..(r.children_idx + r.nb_children - 1)
        PROVE  mem'.wires[i] = mem.wires[i] /\ i \in WireIdx
    <2>1. could.wires[i] = {mem.wires[i]}
        BY <1>2, <1>8 DEF Settled
    <2>2. i \in WireIdx
        BY <1>3 DEF WireIdx
    <2>3. QED
        BY <1>1, <2>1, <2>2
  <1>9. InFiles(mem', t)
      BY <1>1, <1>5, <1>6, <1>7 DEF InFiles
  <1>10. ReadsBack(mem', t)
    <2>1. \A i \in 1..r.nb_children : mem'.wires[r.children_idx + i - 1] = mem.wires[r.children_idx + i - 1]
      <3>1. ASSUME NEW i \in 1..r.nb_children
            PROVE  r.children_idx + i - 1 \in r.children_idx..(r.children_idx + r.nb_children - 1)
          BY <1>3
      <3>2. QED
          BY <1>8, <3>1
    <2> HIDE DEF r
    <2>2. getChildren(mem', t) = getChildren(mem, t)
        BY <1>5, <2>1 DEF getChildren, r
    <2>3. QED
        BY <1>2, <1>5, <1>9, <2>2 DEF ReadsBack, ReadsAs, InFiles, r
  <1>11. Settled(t)'
    <2>1. could'.gates[k] = {r}
        BY <1>1, <1>3, <1>4
    <2>2. could'.mapping[t] = {k} /\ mem'.mapping[t] = k
        BY <1>1
    <2>3. \A i \in r.children_idx..(r.children_idx + r.nb_children - 1) : could'.wires[i] = {mem'.wires[i]}
        BY <1>1, <1>8
    <2>4. /\ \A n \in could'.nb_gates : k < n
          /\ \A n \in could'.nb_wires : r.children_idx + r.nb_children <= n
        BY <1>1, <1>6, <1>7
    <2> HIDE DEF k, r
    <2>5. QED
        BY <1>5, <2>1, <2>2, <2>3, <2>4 DEF Settled
  <1>12. QED
      BY <1>10, <1>11

LEMMA CrashStep ==
    ASSUME DurabilityInv, Crash
    PROVE  DurabilityInv'
  <1>1. /\ TypeOK /\ FilesType(mem) /\ CouldType /\ IndexInv
        /\ crashes < MaxCrashes /\ crashes' = crashes + 1
        /\ mem' \in Outcomes(could) /\ could' = Only(mem')
        /\ pipe' = <<>> /\ worker' = "poll" /\ syncing' = FALSE /\ opened' = FALSE /\ store_dirty' = FALSE
        /\ xact' = [s \in Sessions |-> NoXact]
        /\ excused' = excused \cup {t \in Tokens : Damaged(mem', t)}
        /\ exposed' = {} /\ UNCHANGED <<xacts, stops, synced>>
      BY InvFacts DEF Crash, DurabilityInv, DurableInv
  <1>2. /\ FilesType(mem')
        /\ \A t \in Tokens : mem'.mapping[t] \in could.mapping[t]
        /\ \A i \in GateIdx : mem'.gates[i] \in could.gates[i]
        /\ \A i \in WireIdx : mem'.wires[i] \in could.wires[i]
        /\ mem'.nb_gates \in could.nb_gates /\ mem'.nb_wires \in could.nb_wires
        /\ \A t \in Tokens : could'.mapping[t] = {mem'.mapping[t]}
        /\ \A i \in GateIdx : could'.gates[i] = {mem'.gates[i]}
        /\ \A i \in WireIdx : could'.wires[i] = {mem'.wires[i]}
        /\ could'.nb_gates = {mem'.nb_gates} /\ could'.nb_wires = {mem'.nb_wires}
      BY CrashFacts
  <1>3. CouldType'
    <2>1. [t \in Tokens |-> {mem'.mapping[t]}] \in [Tokens -> SUBSET (GateIdx \cup {NOTHING})]
        BY <1>2 DEF FilesType
    <2>2. [i \in GateIdx |-> {mem'.gates[i]}] \in [GateIdx -> SUBSET Records]
        BY <1>2 DEF FilesType
    <2>3. [i \in WireIdx |-> {mem'.wires[i]}] \in [WireIdx -> SUBSET (Tokens \cup {NOTHING})]
        BY <1>2 DEF FilesType
    <2>4. {mem'.nb_gates} \in SUBSET (0..MaxGates) /\ {mem'.nb_wires} \in SUBSET (0..MaxWires)
        BY <1>2 DEF FilesType
    <2>5. QED
        BY <1>1, <2>1, <2>2, <2>3, <2>4 DEF CouldType, Only
  <1>4. /\ excused \subseteq Tokens /\ synced \subseteq Tokens
        /\ \A t \in excused \cup synced : Mapped(mem', t) /\ mem'.mapping[t] = mem.mapping[t]
      BY CrashFacts
  <1>5. \A t \in Tokens : Mapped(mem', t) => Mapped(mem, t) /\ mem'.mapping[t] = mem.mapping[t]
    <2>1. \A t \in Tokens : could.mapping[t] \subseteq {NOTHING, mem.mapping[t]}
        BY <1>1 DEF IndexInv
    <2>2. \A t \in Tokens : mem'.mapping[t] \in {NOTHING, mem.mapping[t]}
        BY <1>2, <2>1
    <2>3. QED
        BY <2>2 DEF Mapped
  <1>6. IndexInv'
    <2>1. \A t \in (excused \cup synced)' : Mapped(mem', t) /\ could'.mapping[t] = {mem'.mapping[t]}
        BY <1>1, <1>2, <1>4 DEF Damaged
    <2>2. ASSUME NEW t \in Tokens, t \notin excused', Mapped(mem', t)
          PROVE  /\ mem'.mapping[t] < mem'.nb_gates
                 /\ (Good(t) \/ (InFiles(mem, t) /\ Placeholder(RecordOf(mem, t))))'
      <3>1. InFiles(mem', t) /\ (ReadsBack(mem', t) \/ Placeholder(RecordOf(mem', t)))
          BY <1>1, <2>2 DEF Damaged
      <3>2. QED
          BY <3>1 DEF InFiles, Good
    <2>3. ASSUME NEW t \in Tokens, NEW u \in Tokens, t # u, Mapped(mem', t), mem'.mapping[t] = mem'.mapping[u]
          PROVE  t \in excused' \/ u \in excused'
      <3>1. Mapped(mem', u)
          BY <2>3 DEF Mapped
      <3>2. Mapped(mem, t) /\ mem.mapping[t] = mem.mapping[u]
          BY <1>5, <2>3, <3>1
      <3>3. t \in excused \/ u \in excused
          BY <1>1, <2>3, <3>2 DEF IndexInv
      <3>4. QED
          BY <1>1, <3>3
    <2>4. \A t \in Tokens : could'.mapping[t] \subseteq {NOTHING, mem'.mapping[t]}
        BY <1>2
    <2>5. QED
        BY <2>1, <2>2, <2>3, <2>4 DEF IndexInv
  <1>7. BarrierHolds'
    <2>1. ASSUME NEW t \in synced, t \notin excused'
          PROVE  (Aliased(t) \/ (ReadsBack(mem, t) /\ Settled(t)))'
      <3>1. t \in synced \ excused /\ t \in Tokens /\ mem'.mapping[t] = mem.mapping[t]
          BY <1>1, <1>4, <2>1
      <3>2. CASE Aliased(t)
        <4>1. PICK u \in excused \ {t} : mem.mapping[u] = mem.mapping[t]
            BY <3>2 DEF Aliased
        <4>2. u \in excused' \ {t} /\ mem'.mapping[u] = mem'.mapping[t]
            BY <1>1, <1>4, <3>1, <4>1
        <4>3. Aliased(t)'
            BY <4>2 DEF Aliased
        <4>4. QED
            BY <4>3
      <3>3. CASE ~Aliased(t)
          BY <1>1, <3>1, <3>3, CrashLeaves
      <3>4. QED
          BY <3>2, <3>3
    <2>2. QED
        BY <1>1, <2>1 DEF BarrierHolds
  <1>8. WorkerInv'
      BY <1>1 DEF WorkerInv
  <1>9. PendingInv'
    <2>1. \A s \in Sessions : xact'[s] = NoXact
        BY <1>1
    <2>2. Len(pipe') = 0 /\ 1..0 = {}
        BY <1>1
    <2>3. NoXact.state = "none" /\ NoXact.made = {}
        BY DEF NoXact
    <2>4. QED
        BY <2>1, <2>2, <2>3 DEF PendingInv
  <1>10. TypeOK'
    <2>1. xact' \in [Sessions -> Xacts]
        BY <1>1 DEF NoXact, Xacts
    <2>2. pipe' \in Seq(Messages) /\ Len(pipe') <= MaxPipe
        BY <1>1
    <2>3. excused' \subseteq Tokens /\ crashes' \in 0..MaxCrashes
        BY <1>1, <1>4 DEF TypeOK
    <2>4. /\ worker' = "poll" /\ syncing' \in BOOLEAN /\ opened' \in BOOLEAN /\ store_dirty' \in BOOLEAN
          /\ xacts' \in 0..MaxXacts /\ stops' \in 0..MaxStops
          /\ synced' \subseteq Tokens /\ exposed' \subseteq Tokens
        BY <1>1 DEF TypeOK
    <2>5. /\ \A t \in Tokens : mem'.mapping[t] \in could'.mapping[t]
          /\ \A i \in GateIdx : mem'.gates[i] \in could'.gates[i]
          /\ \A i \in WireIdx : mem'.wires[i] \in could'.wires[i]
          /\ mem'.nb_gates \in could'.nb_gates /\ mem'.nb_wires \in could'.nb_wires
        BY <1>2
    <2>6. QED
        BY <1>2, <2>1, <2>2, <2>3, <2>4, <2>5 DEF TypeOK
  <1>11. QED
      BY <1>3, <1>6, <1>7, <1>8, <1>9, <1>10 DEF DurabilityInv, DurableInv

-----------------------------------------------------------------------------
(* The theorems                                                             *)

LEMMA InitHolds ==
    ASSUME Init
    PROVE  DurabilityInv
  <1>1. /\ mem = NewFiles /\ could = Only(NewFiles) /\ pipe = <<>> /\ worker = "poll"
        /\ syncing = FALSE /\ opened = FALSE /\ store_dirty = FALSE
        /\ xact = [s \in Sessions |-> NoXact] /\ xacts = 0 /\ stops = 0 /\ crashes = 0
        /\ synced = {} /\ excused = {} /\ exposed = {}
      BY DEF Init
  <1>2. FilesType(mem)
    <2>1. Blank \in Records
        BY DEF Blank, Record, Records, Types
    <2>2. QED
        BY <1>1, <2>1 DEF NewFiles, FilesType
  <1>3. \A t \in Tokens : ~Mapped(mem, t) /\ could.mapping[t] = {NOTHING}
      BY <1>1 DEF NewFiles, Mapped, Only
  <1>4. CouldType
    <2>1. [t \in Tokens |-> {mem.mapping[t]}] \in [Tokens -> SUBSET (GateIdx \cup {NOTHING})]
        BY <1>2 DEF FilesType
    <2>2. [i \in GateIdx |-> {mem.gates[i]}] \in [GateIdx -> SUBSET Records]
        BY <1>2 DEF FilesType
    <2>3. [i \in WireIdx |-> {mem.wires[i]}] \in [WireIdx -> SUBSET (Tokens \cup {NOTHING})]
        BY <1>2 DEF FilesType
    <2>4. {mem.nb_gates} \in SUBSET (0..MaxGates) /\ {mem.nb_wires} \in SUBSET (0..MaxWires)
        BY <1>2 DEF FilesType
    <2>5. could = Only(mem)
        BY <1>1
    <2>6. QED
        BY <2>1, <2>2, <2>3, <2>4, <2>5 DEF CouldType, Only
  <1>5. IndexInv
      BY <1>1, <1>3 DEF IndexInv
  <1>6. WorkerInv
      BY <1>1 DEF WorkerInv
  <1>7. PendingInv
    <2>1. \A s \in Sessions : xact[s] = NoXact
        BY <1>1
    <2>2. Len(pipe) = 0 /\ 1..0 = {}
        BY <1>1
    <2>3. NoXact.state = "none" /\ NoXact.made = {}
        BY DEF NoXact
    <2>4. QED
        BY <2>1, <2>2, <2>3 DEF PendingInv
  <1>8. BarrierHolds
      BY <1>1 DEF BarrierHolds
  <1>9. TypeOK
    <2>1. xact \in [Sessions -> Xacts]
        BY <1>1 DEF NoXact, Xacts
    <2>2. pipe \in Seq(Messages) /\ Len(pipe) <= MaxPipe
        BY <1>1
    <2>3. /\ \A t \in Tokens : mem.mapping[t] \in could.mapping[t]
          /\ \A i \in GateIdx : mem.gates[i] \in could.gates[i]
          /\ \A i \in WireIdx : mem.wires[i] \in could.wires[i]
          /\ mem.nb_gates \in could.nb_gates /\ mem.nb_wires \in could.nb_wires
        BY <1>1 DEF Only
    <2>4. /\ worker = "poll" /\ syncing \in BOOLEAN /\ opened \in BOOLEAN /\ store_dirty \in BOOLEAN
          /\ synced \subseteq Tokens /\ excused \subseteq Tokens /\ exposed \subseteq Tokens
        BY <1>1
    <2>5. 0 \in 0..MaxXacts /\ 0 \in 0..MaxStops /\ 0 \in 0..MaxCrashes
        OBVIOUS
    <2>6. xacts \in 0..MaxXacts /\ stops \in 0..MaxStops /\ crashes \in 0..MaxCrashes
        BY <1>1, <2>5, Zenon
    <2>7. QED
        BY <1>2, <2>1, <2>2, <2>3, <2>4, <2>6 DEF TypeOK
  <1>10. QED
      BY <1>4, <1>5, <1>6, <1>7, <1>8, <1>9 DEF DurabilityInv, DurableInv

LEMMA StutterStep ==
    ASSUME DurabilityInv, UNCHANGED vars
    PROVE  DurabilityInv'
  <1>1. UNCHANGED <<mem, could, pipe, worker, syncing, opened, store_dirty, xact, xacts, stops, crashes,
                    synced, excused, exposed>>
      BY DEF vars, counters, ghosts
  <1>2. BarrierHolds' /\ CouldType' /\ IndexInv' /\ GoodStays
      BY <1>1, FilesSame
  <1>3. PendingInv'
      BY <1>1, <1>2, PendingSame
  <1>4. WorkerInv'
      BY <1>1, WorkerSame
  <1>5. TypeOK'
      BY <1>1 DEF TypeOK, DurabilityInv, DurableInv
  <1>6. QED
      BY <1>2, <1>3, <1>4, <1>5 DEF DurabilityInv, DurableInv

\* The inductive invariant: beside what DurableInv says, an entry of the token
\* table is written once and no two healthy tokens lead to one record, the words
\* a flush has been through are on disk, and everything the sender of a pending
\* 'S' created was applied or comes before it in the pipe.
THEOREM DurabilityInvariant == Spec => []DurabilityInv
  <1>1. Init => DurabilityInv
      BY InitHolds
  <1>2. DurabilityInv /\ [Next]_vars => DurabilityInv'
    <2>1. SUFFICES ASSUME DurabilityInv, [Next]_vars
                   PROVE  DurabilityInv'
        OBVIOUS
    <2>2. CASE \E s \in Sessions : Client(s)
        BY <2>1, <2>2, ClientSteps
    <2>3. CASE ApplyCreate
        BY <2>1, <2>3, ApplyCreateStep
    <2>4. CASE LazyAdd
        BY <2>1, <2>4, LazyAddStep
    <2>5. CASE EndCreate
        BY <2>1, <2>5, EndCreateStep
    <2>6. CASE StartFlush
        BY <2>1, <2>6, StartFlushStep
    <2>7. CASE FlushWires \/ FlushGates \/ FlushMapping
        BY <2>1, <2>7, FlushSteps
    <2>8. CASE EndFlush
        BY <2>1, <2>8, EndFlushStep
    <2>9. CASE Stop
        BY <2>1, <2>9, StopStep
    <2>10. CASE Crash
        BY <2>1, <2>10, CrashStep
    <2>11. CASE UNCHANGED vars
        BY <2>1, <2>11, StutterStep
    <2>12. QED
        BY <2>1, <2>2, <2>3, <2>4, <2>5, <2>6, <2>7, <2>8, <2>9, <2>10, <2>11 DEF Next, Work
  <1>3. QED
      BY <1>1, <1>2, PTL DEF Spec

\* The variables keep their types, and a gate of a transaction that committed after
\* the acknowledgement of its barrier is on disk and reads back as it was created.
THEOREM DurableInvariant == Spec => []DurableInv
  <1>1. DurabilityInv => DurableInv
      BY DEF DurabilityInv
  <1>2. QED
      BY <1>1, DurabilityInvariant, PTL

\* A crash of the machine takes back no commit of provsql.synchronous_commit: a
\* token that was committed behind the barrier, and that no earlier crash had left
\* leading to another record, reads back after the crash, too.
THEOREM CommitsOutliveCrashes ==
    Spec => [][Crash => \A t \in synced \ excused :
                  ~Aliased(t) => t \in synced' /\ ReadsBack(mem', t)]_vars
  <1>1. DurabilityInv /\ Crash => \A t \in synced \ excused : ~Aliased(t) => t \in synced' /\ ReadsBack(mem', t)
      BY CrashLeaves DEF Crash
  <1>2. QED
      BY <1>1, DurabilityInvariant, PTL
=============================================================================
