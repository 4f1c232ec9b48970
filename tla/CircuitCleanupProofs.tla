------------------------ MODULE CircuitCleanupProofs ------------------------
(***************************************************************************)
(* The clean-up has the database to itself, loses nothing it saw and       *)
(* leaves a healthy store: for every number of sessions, every store,      *)
(* healthy or damaged, every content of the tables and every bound.        *)
(*                                                                         *)
(* The lock protocol comes first (Exclusive).  Then lemmas on stores, with *)
(* the loops of the worker as invariants of their turns: mark() marks      *)
(* what the roots reach, sweepInto() copies what is marked, in its order.  *)
(* The inductive invariant, RebuildInv of CircuitCleanup, ties them to the *)
(* phases of a request and to the files that a crash leaves.               *)
(***************************************************************************)
EXTENDS CircuitCleanup, FiniteSetTheorems, WellFoundedInduction, TLAPS

\* What the proof carries: the sessions are well-typed, rows are tokens (so that a
\* snapshot is a set of tokens), and the lock protocol.
ExclusiveInv == SessionType /\ rows \subseteq Tokens /\ Exclusive

LEMMA InitExclusive == Init => ExclusiveInv
  BY ContentAssumption DEF Init, ExclusiveInv, SessionType, SessionRecord, Exclusive, NoSession, Places

\* A snapshot is a set of tokens.
LEMMA SnapshotType ==
    ASSUME ExclusiveInv, NEW s \in Sessions
    PROVE  Snapshot(s) \subseteq Tokens \/ Snapshot(s) = NOTHING
  BY DEF ExclusiveInv, SessionType, SessionRecord, Snapshot

\* A step of one session that leaves it well-typed leaves them all so.
LEMMA OneSession ==
    ASSUME ExclusiveInv, NEW s \in Sessions, session'[s] \in SessionRecord,
           \A o \in Sessions \ {s} : session'[o] = session[o],
           session' = [o \in Sessions |-> session'[o]]
    PROVE  SessionType'
<1>1. \A o \in Sessions : session'[o] \in SessionRecord
  BY DEF ExclusiveInv, SessionType
<1> QED BY <1>1 DEF SessionType

\* A step of a session that is not in a clean-up, and that ends with no lock it did
\* not have, disturbs nobody who is in one.
LEMMA StepOfOther ==
    ASSUME ExclusiveInv, SessionType', rows' \subseteq Tokens, worker' = worker,
           NEW s \in Sessions,
           session[s].at \in {"idle", "xact", "failed"},
           session'[s].at \in {"out", "idle", "xact", "failed", "lock"},
           \A o \in Sessions \ {s} : session'[o] = session[o],
           dblock' \in {dblock, Unlocked(s)}
    PROVE  ExclusiveInv'
<1>1. \A o \in Sessions \ {s} : session[o].at \notin {"collect", "wait"}
  BY DEF ExclusiveInv, Exclusive, Alone
<1>2. \A o \in Sessions : session'[o].at \notin {"collect", "wait"}
  BY <1>1
<1>3. ASSUME NEW o \in Sessions, session'[o].at = "count" PROVE dblock' = o
  <2>1. o # s /\ session[o].at = "count" BY <1>3
  <2>2. dblock = o BY <2>1 DEF ExclusiveInv, Exclusive
  <2> QED BY <2>1, <2>2 DEF Unlocked
<1>4. worker' = "idle"
  BY <1>1 DEF ExclusiveInv, Exclusive
<1> QED BY <1>2, <1>3, <1>4 DEF ExclusiveInv, Exclusive

LEMMA StatementStep ==
    ASSUME ExclusiveInv, NEW s \in Sessions, Statement(s)
    PROVE  ExclusiveInv'
<1>1. CASE Connect(s)
  <2>1. \A o \in Sessions : session[o].at \notin {"count", "collect", "wait"}
    BY <1>1, ConstantAssumption DEF Connect, ExclusiveInv, Exclusive
  <2>2. /\ SessionType'
        /\ \A o \in Sessions : session'[o].at \notin {"count", "collect", "wait"}
    BY <1>1, <2>1 DEF Connect, ExclusiveInv, SessionType, SessionRecord, NoSession, Places
  <2>3. worker' = "idle" /\ rows' \subseteq Tokens
    BY <1>1, <2>1 DEF Connect, ExclusiveInv, Exclusive
  <2> QED BY <2>2, <2>3 DEF ExclusiveInv, Exclusive
<1>2. CASE Disconnect(s)
  <2>1. /\ SessionType' /\ session'[s].at = "out"
        /\ \A o \in Sessions \ {s} : session'[o] = session[o]
    BY <1>2 DEF Disconnect, ExclusiveInv, SessionType, SessionRecord, NoSession, Places
  <2> QED BY <1>2, <2>1, StepOfOther DEF Disconnect, ExclusiveInv
<1>3. CASE Begin(s)
  <2>1. PICK iso \in Isolations :
            session' = [session EXCEPT ![s] = [NoSession EXCEPT !.at = "xact", !.iso = iso]]
    BY <1>3 DEF Begin
  <2>2. /\ SessionType' /\ session'[s].at = "xact"
        /\ \A o \in Sessions \ {s} : session'[o] = session[o]
    BY <2>1, ConstantAssumption DEF ExclusiveInv, SessionType, SessionRecord, NoSession, Places
  <2> QED BY <1>3, <2>2, StepOfOther DEF Begin, ExclusiveInv
<1>4. CASE Commit(s)
  <2>1. /\ SessionType' /\ session'[s].at = "idle"
        /\ \A o \in Sessions \ {s} : session'[o] = session[o]
    BY <1>4 DEF Commit, ExclusiveInv, SessionType, SessionRecord, NoSession, Places
  <2>2. rows' \subseteq Tokens
    BY <1>4 DEF Commit, ExclusiveInv, SessionType, SessionRecord
  <2> QED BY <1>4, <2>1, <2>2, StepOfOther DEF Commit
<1>5. CASE Rollback(s)
  <2>1. /\ SessionType' /\ session'[s].at = "idle"
        /\ \A o \in Sessions \ {s} : session'[o] = session[o]
    BY <1>5 DEF Rollback, ExclusiveInv, SessionType, SessionRecord, NoSession, Places
  <2> QED BY <1>5, <2>1, StepOfOther DEF Rollback, ExclusiveInv
<1>6. ASSUME NEW t \in RowTokens, StoreRow(s, t) \/ DropRow(s, t) PROVE ExclusiveInv'
  <2>1. t \in Tokens BY ContentAssumption
  <2>2. Snapshot(s) \in (SUBSET Tokens) \cup {NOTHING} BY SnapshotType
  <2>3. /\ session'[s] \in SessionRecord /\ session'[s].at = session[s].at
        /\ \A o \in Sessions \ {s} : session'[o] = session[o]
        /\ session' = [o \in Sessions |-> session'[o]]
    <3>1. CASE StoreRow(s, t)
      BY <2>1, <2>2, <3>1 DEF StoreRow, ExclusiveInv, SessionType, SessionRecord
    <3>2. CASE DropRow(s, t)
      BY <2>1, <2>2, <3>2 DEF DropRow, ExclusiveInv, SessionType, SessionRecord
    <3> QED BY <1>6, <3>1, <3>2
  <2>4. SessionType' BY <2>3, OneSession
  <2>5. /\ session[s].at = "xact" /\ rows' = rows /\ dblock' = dblock /\ worker' = worker
    BY <1>6 DEF StoreRow, DropRow
  <2> QED BY <2>3, <2>4, <2>5, StepOfOther DEF ExclusiveInv
<1> QED BY <1>1, <1>2, <1>3, <1>4, <1>5, <1>6 DEF Statement

LEMMA CleanupStep ==
    ASSUME ExclusiveInv, NEW s \in Sessions, Cleanup(s)
    PROVE  ExclusiveInv'
<1>1. CASE CallCleanup(s)
  <2>1. PICK dry \in BOOLEAN :
            session' = [session EXCEPT ![s].at = IF session[s].written THEN "failed" ELSE "lock",
                                       ![s].snap = Snapshot(s), ![s].dry = dry]
    BY <1>1 DEF CallCleanup
  <2>2. Snapshot(s) \in (SUBSET Tokens) \cup {NOTHING} BY SnapshotType
  <2>3. /\ session'[s] \in SessionRecord /\ session'[s].at \in {"failed", "lock"}
        /\ \A o \in Sessions \ {s} : session'[o] = session[o]
        /\ session' = [o \in Sessions |-> session'[o]]
    BY <2>1, <2>2 DEF ExclusiveInv, SessionType, SessionRecord, Places
  <2>4. SessionType' BY <2>3, OneSession
  <2> QED BY <1>1, <2>3, <2>4, StepOfOther DEF CallCleanup, ExclusiveInv
<1>2. CASE LockDatabase(s)
  <2>1. \A o \in Sessions : session[o].at \notin {"count", "collect", "wait"}
    BY <1>2, ConstantAssumption DEF LockDatabase, ExclusiveInv, Exclusive
  <2>2. /\ SessionType' /\ session'[s].at = "count"
        /\ \A o \in Sessions \ {s} : session'[o] = session[o]
    BY <1>2 DEF LockDatabase, Goes, ExclusiveInv, SessionType, SessionRecord, Places
  <2>3. worker' = "idle" /\ rows' \subseteq Tokens /\ dblock' = s
    BY <1>2, <2>1 DEF LockDatabase, ExclusiveInv, Exclusive
  <2> QED BY <2>1, <2>2, <2>3 DEF ExclusiveInv, Exclusive
<1>3. CASE CountOtherDBBackends(s)
  <2>0. \A o \in Sessions \ {s} : session[o].at \notin {"count", "collect", "wait"}
    BY <1>3 DEF CountOtherDBBackends, ExclusiveInv, Exclusive
  <2>1. /\ SessionType' /\ session'[s].at \in {"collect", "failed"}
        /\ \A o \in Sessions \ {s} : session'[o] = session[o]
        /\ session'[s].at = "collect" => Alone(s)
    BY <1>3 DEF CountOtherDBBackends, Goes, ExclusiveInv, SessionType, SessionRecord, Places
  <2>2. /\ worker' = "idle" /\ rows' \subseteq Tokens
        /\ dblock' = s
    BY <1>3, <2>0 DEF CountOtherDBBackends, ExclusiveInv, Exclusive
  <2>3. session'[s].at = "collect" => Alone(s)'
    BY <2>1 DEF Alone
  <2> QED BY <2>0, <2>1, <2>2, <2>3 DEF ExclusiveInv, Exclusive
<1>4. CASE CollectRoots(s)
  <2>1. dblock' = s /\ Alone(s) /\ rows' \subseteq Tokens
    BY <1>4 DEF CollectRoots, ExclusiveInv, Exclusive
  <2>2. /\ SessionType' /\ session'[s].at = "wait"
        /\ \A o \in Sessions \ {s} : session'[o] = session[o]
    BY <1>4 DEF CollectRoots, Goes, ExclusiveInv, SessionType, SessionRecord, Places
  <2>3. \A o \in Sessions \ {s} : session'[o].at = "out"
    BY <2>1, <2>2 DEF Alone
  <2> QED BY <2>1, <2>2, <2>3 DEF ExclusiveInv, Exclusive, Alone
<1> QED BY <1>1, <1>2, <1>3, <1>4 DEF Cleanup

\* The worker's own steps leave the sessions and the lock alone.
LEMMA RebuildStep ==
    ASSUME ExclusiveInv, Rebuild \/ Fail \/ Crash
    PROVE  ExclusiveInv'
<1>1. CASE Reply
  <2>1. PICK s \in Sessions : session[s].at = "wait" /\ Goes(s, "xact")
    BY <1>1 DEF Reply
  <2>2. /\ SessionType' /\ session'[s].at = "xact"
        /\ \A o \in Sessions \ {s} : session'[o] = session[o] /\ session[o].at = "out"
    BY <2>1 DEF Goes, ExclusiveInv, SessionType, SessionRecord, Exclusive, Alone, Places
  <2> QED BY <1>1, <2>2 DEF Reply, ExclusiveInv, Exclusive
<1>2. CASE Mark \/ EndMark \/ StartSweep \/ Sweep \/ EndSweep \/ CreateMarker \/ Rename \/ RemoveMarker
  <2>1. session' = session /\ dblock' = dblock /\ rows' = rows /\ worker # "idle"
    BY <1>2 DEF Mark, EndMark, StartSweep, Sweep, EndSweep, CreateMarker, Rename, RemoveMarker, WorkerGoes
  <2> QED BY <2>1 DEF ExclusiveInv, SessionType, Exclusive, Alone
<1>3. CASE Fail
  BY <1>3 DEF Fail, ExclusiveInv, SessionType, Exclusive, Alone
<1>4. CASE Crash
  BY <1>4 DEF Crash, ExclusiveInv, SessionType, SessionRecord, Exclusive, NoSession, Places
<1> QED BY <1>1, <1>2, <1>3, <1>4 DEF Rebuild

\* The lock protocol is an invariant: who has got past the lock of circuit_cleanup()
\* holds it, and who has got past the count of the other sessions is alone.
THEOREM CleanupExclusive == Spec => []Exclusive
<1>1. Init => ExclusiveInv BY InitExclusive
<1>2. ExclusiveInv /\ [Next]_vars => ExclusiveInv'
  <2> SUFFICES ASSUME ExclusiveInv, [Next]_vars PROVE ExclusiveInv' OBVIOUS
  <2>1. CASE Next
    BY <2>1, StatementStep, CleanupStep, RebuildStep DEF Next
  <2>2. CASE UNCHANGED vars
    BY <2>2 DEF vars, ExclusiveInv, SessionType, Exclusive, Alone
  <2> QED BY <2>1, <2>2
<1>3. ExclusiveInv => Exclusive BY DEF ExclusiveInv
<1> QED BY <1>1, <1>2, <1>3, PTL DEF Spec

\* While the worker rebuilds the store, no session but the one that asked for it is
\* connected to the database.
THEOREM CleanupTakesDatabase == Spec => []TakenAlone
<1>1. Exclusive => TakenAlone
  BY DEF Exclusive, TakenAlone, Asker
<1> QED BY <1>1, CleanupExclusive, PTL

-----------------------------------------------------------------------------
(* Stores *)

\* What the store is for a given state of the files.
Opened(s, f, m) ==
    LET opened(n) == IF m /\ f[n] # NOTHING THEN f[n] ELSE s[n]
    IN [mapping |-> opened("mapping"), gates |-> opened("gates"),
        wires |-> opened("wires"), extra |-> opened("extra")]

LEMMA EffectiveIsOpened ==
    Effective = Opened(store, fresh, marker) /\ Effective' = Opened(store', fresh', marker')
  BY DEF Effective, finishInterruptedCleanup, Opened

LEMMA StoreParts ==
    ASSUME NEW c \in StoreFiles
    PROVE  /\ c.mapping \in MappingFile /\ c.gates \in GatesFile
           /\ c.wires \in Seq(Tokens) /\ c.extra \in Seq(Bytes)
           /\ c.gates.recs \in Seq(GateInformation) /\ c.gates.version \in {1, 2}
           /\ Nb(c) \in Nat /\ Len(c.wires) \in Nat /\ Len(c.extra) \in Nat
           /\ \A t \in Tokens : c.mapping[t] \in Nat \cup {NOTHING}
           /\ \A t \in Tokens : Mapped(c, t) => c.mapping[t] \in Nat
  BY DEF StoreFiles, MappingFile, GatesFile, Nb, Mapped

\* A store opens as itself unless the marker is there with new files.
LEMMA OpenedFacts ==
    ASSUME NEW s \in StoreFiles, NEW f \in FreshFiles, NEW m \in BOOLEAN
    PROVE  /\ Opened(s, f, m) \in StoreFiles
           /\ ~m => Opened(s, f, m) = s
           /\ f = NoFresh => Opened(s, f, m) = s
           /\ m /\ f \in StoreFiles => Opened(s, f, m) = f
<1>1. Opened(s, f, m) \in StoreFiles
  BY DEF Opened, StoreFiles, FreshFiles
<1>2. ~m => Opened(s, f, m) = s
  BY DEF Opened, StoreFiles
<1>3. f = NoFresh => Opened(s, f, m) = s
  BY DEF Opened, StoreFiles, NoFresh
<1>4. m /\ f \in StoreFiles => Opened(s, f, m) = f
  BY StoresAssumption DEF Opened, StoreFiles
<1> QED BY <1>1, <1>2, <1>3, <1>4

LEMMA RecordParts ==
    ASSUME NEW c \in StoreFiles, NEW i \in 0..(Nb(c) - 1)
    PROVE  /\ RecordAt(c, i) \in GateInformation
           /\ RecordAt(c, i).nb_children \in Nat /\ RecordAt(c, i).children_idx \in Nat
           /\ RecordAt(c, i).extra_idx \in Nat /\ RecordAt(c, i).extra_len \in Nat
<1>1. i + 1 \in 1..Len(c.gates.recs)
  BY StoreParts DEF Nb
<1>2. RecordAt(c, i) \in GateInformation
  BY <1>1, StoreParts DEF RecordAt
<1> QED BY <1>2 DEF GateInformation

LEMMA SeqItems ==
    ASSUME NEW S, NEW q \in Seq(S)
    PROVE  /\ ToSet(q) \subseteq S
           /\ \A k \in 1..Len(q) : q[k] \in ToSet(q)
           /\ \A x \in ToSet(q) : \E k \in 1..Len(q) : q[k] = x
  BY DEF ToSet

\* The children of a record that is not torn.
LEMMA ChildrenParts ==
    ASSUME NEW c \in StoreFiles, NEW r \in GateInformation, ~BadWires(c, r)
    PROVE  /\ ChildrenOf(c, r) \in Seq(Tokens) /\ Len(ChildrenOf(c, r)) = r.nb_children
           /\ \A k \in 1..r.nb_children : ChildrenOf(c, r)[k] = c.wires[r.children_idx + k]
           /\ ToSet(ChildrenOf(c, r)) \subseteq Tokens
<1> DEFINE a == r.children_idx
           n == r.nb_children
<1>1. a \in Nat /\ n \in Nat /\ c.wires \in Seq(Tokens) /\ a + n <= Len(c.wires)
  BY StoreParts DEF GateInformation, BadWires
<1>2. /\ SubSeq(c.wires, a + 1, a + n) \in Seq(Tokens)
      /\ Len(SubSeq(c.wires, a + 1, a + n)) = n
      /\ \A k \in 1..n : SubSeq(c.wires, a + 1, a + n)[k] = c.wires[a + k]
  <2> HIDE DEF a, n
  <2> QED BY <1>1
<1>3. ChildrenOf(c, r) = SubSeq(c.wires, a + 1, a + n)
  BY DEF ChildrenOf
<1>4. ToSet(ChildrenOf(c, r)) \subseteq Tokens
  BY <1>2, <1>3, SeqItems
<1> QED BY <1>2, <1>3, <1>4

LEMMA ExtraParts ==
    ASSUME NEW c \in StoreFiles, NEW r \in GateInformation, ~BadExtra(c, r)
    PROVE  /\ ExtraOf(c, r) \in Seq(Bytes) /\ Len(ExtraOf(c, r)) = r.extra_len
           /\ \A k \in 1..r.extra_len : ExtraOf(c, r)[k] = c.extra[r.extra_idx + k]
<1> DEFINE a == r.extra_idx
           n == r.extra_len
<1>1. a \in Nat /\ n \in Nat /\ c.extra \in Seq(Bytes) /\ a + n <= Len(c.extra)
  BY StoreParts DEF GateInformation, BadExtra
<1>2. /\ SubSeq(c.extra, a + 1, a + n) \in Seq(Bytes)
      /\ Len(SubSeq(c.extra, a + 1, a + n)) = n
      /\ \A k \in 1..n : SubSeq(c.extra, a + 1, a + n)[k] = c.extra[a + k]
  <2> HIDE DEF a, n
  <2> QED BY <1>1
<1> QED BY <1>2 DEF ExtraOf

\* The records of a set of tokens are records of the store.
LEMMA IndicesFacts ==
    ASSUME NEW c \in StoreFiles, NEW ts \in SUBSET Tokens
    PROVE  /\ indices(c, ts) \subseteq 0..(Nb(c) - 1)
           /\ \A u \in ts : Mapped(c, u) /\ c.mapping[u] < Nb(c) => c.mapping[u] \in indices(c, ts)
           /\ \A i \in indices(c, ts) :
                 \E u \in ts : Mapped(c, u) /\ c.mapping[u] < Nb(c) /\ c.mapping[u] = i
  BY StoreParts DEF indices

LEMMA FollowFacts ==
    ASSUME NEW c \in StoreFiles, NEW i \in 0..(Nb(c) - 1)
    PROVE  follow(c, i) \subseteq 0..(Nb(c) - 1)
<1>1. CASE BadWires(c, RecordAt(c, i))
  BY <1>1 DEF follow
<1>2. CASE ~BadWires(c, RecordAt(c, i))
  <2>1. ToSet(ChildrenOf(c, RecordAt(c, i))) \subseteq Tokens
    BY <1>2, RecordParts, ChildrenParts
  <2> QED BY <1>2, <2>1, IndicesFacts DEF follow
<1> QED BY <1>1, <1>2

-----------------------------------------------------------------------------
(* Reach *)

\* The children that can be read of a token.
Kids(c, t) ==
    IF Mapped(c, t) /\ c.mapping[t] < Nb(c) /\ ~BadWires(c, RecordAt(c, c.mapping[t]))
    THEN ToSet(ChildrenOf(c, RecordAt(c, c.mapping[t]))) ELSE {}

LEMMA KidsFacts ==
    ASSUME NEW c \in StoreFiles, NEW t \in Tokens
    PROVE  /\ Kids(c, t) \subseteq Tokens
           /\ Mapped(c, t) /\ c.mapping[t] < Nb(c) => indices(c, Kids(c, t)) = follow(c, c.mapping[t])
<1>1. CASE Mapped(c, t) /\ c.mapping[t] < Nb(c)
  <2>1. c.mapping[t] \in 0..(Nb(c) - 1)
    BY <1>1, StoreParts
  <2>2. CASE BadWires(c, RecordAt(c, c.mapping[t]))
    BY <2>2 DEF Kids, follow, indices
  <2>3. CASE ~BadWires(c, RecordAt(c, c.mapping[t]))
    <3>1. ToSet(ChildrenOf(c, RecordAt(c, c.mapping[t]))) \subseteq Tokens
      BY <2>1, <2>3, RecordParts, ChildrenParts
    <3> QED BY <1>1, <2>3, <3>1 DEF Kids, follow
  <2> QED BY <2>2, <2>3
<1>2. CASE ~(Mapped(c, t) /\ c.mapping[t] < Nb(c))
  BY <1>2 DEF Kids
<1> QED BY <1>1, <1>2

\* Reach is the least set with the roots that is closed under Kids.
LEMMA ReachFacts ==
    ASSUME NEW c, NEW ts
    PROVE  /\ Reach(c, ts) \subseteq Tokens
           /\ ts \subseteq Tokens => ts \subseteq Reach(c, ts)
           /\ \A S \in SUBSET Tokens :
                 ts \subseteq S /\ (\A t \in S : Kids(c, t) \subseteq S) => Reach(c, ts) \subseteq S
  BY DEF Reach, Kids

LEMMA ReachClosed ==
    ASSUME NEW c \in StoreFiles, NEW ts \in SUBSET Tokens, NEW t \in Reach(c, ts)
    PROVE  Kids(c, t) \subseteq Reach(c, ts)
<1>1. t \in Tokens /\ Kids(c, t) \subseteq Tokens
  BY ReachFacts, KidsFacts
<1>2. \A S \in SUBSET Tokens :
         ts \subseteq S /\ (\A u \in S : Kids(c, u) \subseteq S) => Kids(c, t) \subseteq S
  BY ReachFacts
<1>3. Reach(c, ts) = {u \in Tokens : \A S \in SUBSET Tokens :
                        ts \subseteq S /\ (\A v \in S : Kids(c, v) \subseteq S) => u \in S}
  BY DEF Reach, Kids
<1> QED BY <1>1, <1>2, <1>3

-----------------------------------------------------------------------------
(* Appending to a store *)

LEMMA SeqSame ==
    ASSUME NEW S, NEW p \in Seq(S), NEW q \in Seq(S), Len(p) = Len(q),
           \A k \in 1..Len(p) : p[k] = q[k]
    PROVE  p = q
  OBVIOUS

IsPrefixOf(p, q) == Len(p) <= Len(q) /\ \A k \in 1..Len(p) : q[k] = p[k]

LEMMA ConcatLength ==
    ASSUME NEW S, NEW p \in Seq(S), NEW q \in Seq(S)
    PROVE  Len(p \o q) = Len(p) + Len(q)
  OBVIOUS

LEMMA ConcatExtends ==
    ASSUME NEW S, NEW p \in Seq(S), NEW q \in Seq(S)
    PROVE  IsPrefixOf(p, p \o q) /\ IsPrefixOf(p, p)
<1>1. /\ Len(p \o q) = Len(p) + Len(q) /\ Len(p) \in Nat /\ Len(q) \in Nat
      /\ \A k \in 1..Len(p) : (p \o q)[k] = p[k]
  OBVIOUS
<1> QED BY <1>1 DEF IsPrefixOf

LEMMA RangeParts ==
    ASSUME NEW S, NEW p \in Seq(S), NEW a \in Nat, NEW n \in Nat, a + n <= Len(p)
    PROVE  /\ SubSeq(p, a + 1, a + n) \in Seq(S) /\ Len(SubSeq(p, a + 1, a + n)) = n
           /\ \A k \in 1..n : SubSeq(p, a + 1, a + n)[k] = p[a + k]
  OBVIOUS

LEMMA RangeOfPrefix ==
    ASSUME NEW S, NEW p \in Seq(S), NEW q \in Seq(S), IsPrefixOf(p, q),
           NEW a \in Nat, NEW n \in Nat, a + n <= Len(p)
    PROVE  SubSeq(q, a + 1, a + n) = SubSeq(p, a + 1, a + n)
<1>1. /\ SubSeq(p, a + 1, a + n) \in Seq(S) /\ Len(SubSeq(p, a + 1, a + n)) = n
      /\ \A k \in 1..n : SubSeq(p, a + 1, a + n)[k] = p[a + k]
  BY RangeParts
<1>2. a + n <= Len(q) /\ \A k \in 1..n : q[a + k] = p[a + k]
  BY DEF IsPrefixOf
<1>3. /\ SubSeq(q, a + 1, a + n) \in Seq(S) /\ Len(SubSeq(q, a + 1, a + n)) = n
      /\ \A k \in 1..n : SubSeq(q, a + 1, a + n)[k] = q[a + k]
  BY <1>2, RangeParts
<1> QED BY <1>1, <1>2, <1>3, SeqSame

LEMMA RangeOfSuffix ==
    ASSUME NEW S, NEW p \in Seq(S), NEW q \in Seq(S)
    PROVE  SubSeq(p \o q, Len(p) + 1, Len(p) + Len(q)) = q
<1> DEFINE r == SubSeq(p \o q, Len(p) + 1, Len(p) + Len(q))
<1>1. p \o q \in Seq(S) /\ Len(p \o q) = Len(p) + Len(q) /\ Len(p) \in Nat /\ Len(q) \in Nat
  OBVIOUS
<1>2. /\ r \in Seq(S) /\ Len(r) = Len(q)
      /\ \A k \in 1..Len(q) : r[k] = (p \o q)[Len(p) + k]
  BY <1>1
<1>3. \A k \in 1..Len(q) : (p \o q)[Len(p) + k] = q[k]
  BY <1>1
<1>4. \A k \in 1..Len(r) : r[k] = q[k]
  BY <1>2, <1>3
<1> HIDE DEF r
<1>5. r = q
  BY <1>2, <1>4, SeqSame
<1> QED BY <1>5 DEF r

\* Wires and bytes that are appended change nothing that a record says.
LEMMA AppendedKeeps ==
    ASSUME NEW d \in StoreFiles, NEW e \in StoreFiles, NEW q \in GateInformation,
           IsPrefixOf(d.wires, e.wires), IsPrefixOf(d.extra, e.extra)
    PROVE  /\ ~BadWires(d, q) => ~BadWires(e, q) /\ ChildrenOf(e, q) = ChildrenOf(d, q)
           /\ ~BadExtra(d, q) => ~BadExtra(e, q) /\ ExtraOf(e, q) = ExtraOf(d, q)
<1>1. /\ q.children_idx \in Nat /\ q.nb_children \in Nat
      /\ q.extra_idx \in Nat /\ q.extra_len \in Nat
  BY DEF GateInformation
<1>2. /\ d.wires \in Seq(Tokens) /\ d.extra \in Seq(Bytes)
      /\ e.wires \in Seq(Tokens) /\ e.extra \in Seq(Bytes)
  BY StoreParts
<1>3. Len(d.wires) <= Len(e.wires) /\ Len(d.extra) <= Len(e.extra)
  BY DEF IsPrefixOf
<1>4. ASSUME ~BadWires(d, q) PROVE ~BadWires(e, q) /\ ChildrenOf(e, q) = ChildrenOf(d, q)
  <2> DEFINE a == q.children_idx
             n == q.nb_children
  <2>1. a \in Nat /\ n \in Nat /\ a + n <= Len(d.wires)
    BY <1>1, <1>2, <1>4 DEF BadWires
  <2> HIDE DEF a, n
  <2>2. SubSeq(e.wires, a + 1, a + n) = SubSeq(d.wires, a + 1, a + n)
    BY <1>2, <2>1, RangeOfPrefix
  <2>3. ~(a + n > Len(e.wires))
    BY <1>2, <1>3, <2>1
  <2> QED BY <2>2, <2>3 DEF ChildrenOf, BadWires, a, n
<1>5. ASSUME ~BadExtra(d, q) PROVE ~BadExtra(e, q) /\ ExtraOf(e, q) = ExtraOf(d, q)
  <2> DEFINE a == q.extra_idx
             n == q.extra_len
  <2>1. a \in Nat /\ n \in Nat /\ a + n <= Len(d.extra)
    BY <1>1, <1>2, <1>5 DEF BadExtra
  <2> HIDE DEF a, n
  <2>2. SubSeq(e.extra, a + 1, a + n) = SubSeq(d.extra, a + 1, a + n)
    BY <1>2, <2>1, RangeOfPrefix
  <2>3. ~(a + n > Len(e.extra))
    BY <1>2, <1>3, <2>1
  <2> QED BY <2>2, <2>3 DEF ExtraOf, BadExtra, a, n
<1> QED BY <1>4, <1>5

\* A turn of the sweep: one record more, a copy; those already there are kept.
LEMMA CopiedFacts ==
    ASSUME NEW c \in StoreFiles, NEW d \in StoreFiles, NEW i \in 0..(Nb(c) - 1),
           d.gates.version = 2
    PROVE  LET e == Copied(c, d, i)
           IN /\ e \in StoreFiles /\ e.gates.version = 2 /\ e.mapping = d.mapping
              /\ Nb(e) = Nb(d) + 1
              /\ CopyOf(c, i, e, Nb(d))
              /\ \A j \in 0..(Nb(c) - 1) : \A k \in 0..(Nb(d) - 1) :
                    CopyOf(c, j, d, k) => CopyOf(c, j, e, k)
<1> DEFINE r == RecordAt(c, i)
           children == IF BadWires(c, r) THEN <<>> ELSE ChildrenOf(c, r)
           str == IF BadExtra(c, r) THEN <<>> ELSE ExtraOf(c, r)
           legacy == c.gates.version < 2 /\ r.prob = One /\ carriesProb(r.type)
           q == [r EXCEPT !.children_idx = Len(d.wires), !.nb_children = Len(children),
                          !.extra_idx = IF str = <<>> THEN 0 ELSE Len(d.extra),
                          !.extra_len = Len(str), !.prob = IF legacy THEN NaN ELSE @]
           e == Copied(c, d, i)
<1>1. r \in GateInformation
  BY RecordParts
<1>2. children \in Seq(Tokens)
  BY <1>1, ChildrenParts
<1>3. str \in Seq(Bytes)
  BY <1>1, ExtraParts
<1>4. /\ d.gates.recs \in Seq(GateInformation) /\ d.wires \in Seq(Tokens) /\ d.extra \in Seq(Bytes)
      /\ d.mapping \in MappingFile /\ Len(d.wires) \in Nat /\ Len(d.extra) \in Nat
  BY StoreParts
<1>5. e = [d EXCEPT !.gates.recs = Append(@, q), !.wires = @ \o children, !.extra = @ \o str]
  BY DEF Copied
<1>6. /\ q \in GateInformation /\ q.type = r.type
      /\ q.children_idx = Len(d.wires) /\ q.nb_children = Len(children)
      /\ q.extra_idx = (IF str = <<>> THEN 0 ELSE Len(d.extra)) /\ q.extra_len = Len(str)
      /\ q.prob = IF legacy THEN NaN ELSE r.prob
  <2> HIDE DEF r, children, str, legacy
  <2>1. Len(children) \in Nat /\ Len(str) \in Nat
    BY <1>2, <1>3
  <2> QED BY <1>1, <1>4, <2>1, ConstantAssumption DEF GateInformation
<1> HIDE DEF q, children, str, r, legacy, e
<1>7. /\ e \in StoreFiles /\ e.gates.version = 2 /\ e.mapping = d.mapping
      /\ e.gates.recs = Append(d.gates.recs, q)
      /\ e.wires = d.wires \o children /\ e.extra = d.extra \o str
  <2>1. /\ Append(d.gates.recs, q) \in Seq(GateInformation)
        /\ d.wires \o children \in Seq(Tokens) /\ d.extra \o str \in Seq(Bytes)
    BY <1>2, <1>3, <1>4, <1>6
  <2>2. e = [mapping |-> d.mapping,
             gates |-> [version |-> d.gates.version, recs |-> Append(d.gates.recs, q)],
             wires |-> d.wires \o children, extra |-> d.extra \o str]
    BY <1>5 DEF StoreFiles, GatesFile
  <2> QED BY <1>4, <2>1, <2>2 DEF StoreFiles, GatesFile
<1>8. /\ Nb(e) = Nb(d) + 1 /\ RecordAt(e, Nb(d)) = q
      /\ \A k \in 0..(Nb(d) - 1) : RecordAt(e, k) = RecordAt(d, k)
  BY <1>4, <1>6, <1>7 DEF Nb, RecordAt
<1>9. ~BadWires(e, q) /\ ChildrenOf(e, q) = children
  <2>1. Len(e.wires) = Len(d.wires) + Len(children) /\ Len(children) \in Nat
    BY <1>2, <1>4, <1>7
  <2>2. SubSeq(d.wires \o children, Len(d.wires) + 1, Len(d.wires) + Len(children)) = children
    BY <1>2, <1>4, RangeOfSuffix
  <2>3. ~BadWires(e, q)
    BY <1>4, <1>6, <2>1 DEF BadWires
  <2> QED BY <1>6, <1>7, <2>2, <2>3 DEF ChildrenOf
<1>10. ~BadExtra(e, q) /\ ExtraOf(e, q) = str
  <2>1. Len(e.extra) = Len(d.extra) + Len(str) /\ Len(str) \in Nat
    BY <1>3, <1>4, <1>7
  <2>2. CASE str = <<>>
    <3>1. q.extra_idx = 0 /\ q.extra_len = 0
      BY <1>6, <2>2
    <3>2. SubSeq(e.extra, 1, 0) = <<>>
      BY <1>7, StoreParts
    <3> QED BY <1>4, <2>1, <2>2, <3>1, <3>2 DEF BadExtra, ExtraOf
  <2>3. CASE str # <<>>
    <3>1. q.extra_idx = Len(d.extra) /\ q.extra_len = Len(str)
      BY <1>6, <2>3
    <3>2. SubSeq(d.extra \o str, Len(d.extra) + 1, Len(d.extra) + Len(str)) = str
      BY <1>3, <1>4, RangeOfSuffix
    <3>3. ~BadExtra(e, q)
      BY <1>4, <2>1, <3>1 DEF BadExtra
    <3> QED BY <1>7, <3>1, <3>2, <3>3 DEF ExtraOf
  <2> QED BY <2>2, <2>3
<1>11. hasProbOf(e, q) = hasProbOf(c, r)
  <2>1. c.gates.version \in {1, 2}
    BY StoreParts
  <2> QED BY <1>6, <1>7, <2>1 DEF hasProbOf, legacy
<1>12. CopyOf(c, i, e, Nb(d))
  BY <1>6, <1>8, <1>9, <1>10, <1>11 DEF CopyOf, r, children, str
<1>13. ASSUME NEW j \in 0..(Nb(c) - 1), NEW k \in 0..(Nb(d) - 1), CopyOf(c, j, d, k)
       PROVE  CopyOf(c, j, e, k)
  <2>1. RecordAt(d, k) \in GateInformation
    BY RecordParts
  <2>2. /\ ~BadWires(d, RecordAt(d, k)) /\ ~BadExtra(d, RecordAt(d, k))
    BY <1>13 DEF CopyOf
  <2> DEFINE g == RecordAt(d, k)
  <2> HIDE DEF g
  <2>3. g \in GateInformation /\ ~BadWires(d, g) /\ ~BadExtra(d, g)
    BY <2>1, <2>2 DEF g
  <2>4. /\ ~BadWires(e, g) /\ ChildrenOf(e, g) = ChildrenOf(d, g)
        /\ ~BadExtra(e, g) /\ ExtraOf(e, g) = ExtraOf(d, g)
    <3>1. IsPrefixOf(d.wires, e.wires) /\ IsPrefixOf(d.extra, e.extra)
      BY <1>2, <1>3, <1>4, <1>7, ConcatExtends
    <3> QED BY <1>7, <2>3, <3>1, AppendedKeeps
  <2>5. hasProbOf(e, g) = hasProbOf(d, g)
    BY <1>7 DEF hasProbOf
  <2> QED BY <1>8, <1>13, <2>4, <2>5 DEF CopyOf, g
<1>14. QED
  BY <1>7, <1>8, <1>12, <1>13 DEF e

-----------------------------------------------------------------------------
(* New indices *)

LEMMA PartsFinite ==
    ASSUME NEW n \in Nat, NEW S \in SUBSET (0..n)
    PROVE  IsFiniteSet(S) /\ Cardinality(S) \in Nat
<1>1. IsFiniteSet(0..n)
  BY FS_Interval
<1> QED BY <1>1, FS_Subset, FS_CardinalityType

LEMMA NewidxFacts ==
    ASSUME NEW n \in Nat, NEW S \in SUBSET (0..n), NEW i \in S
    PROVE  newidx(S, i) \in Nat /\ newidx(S, i) < Cardinality(S)
<1> DEFINE T == {j \in S : j < i}
<1>1. IsFiniteSet(S)
  BY PartsFinite
<1>2. IsFiniteSet(T) /\ Cardinality(T) <= Cardinality(S) /\ (Cardinality(S) = Cardinality(T) => S = T)
  BY <1>1, FS_Subset
<1>3. i \notin T
  BY DEF T
<1>4. Cardinality(T) \in Nat /\ Cardinality(S) \in Nat
  BY <1>1, <1>2, FS_CardinalityType
<1> HIDE DEF T
<1>5. Cardinality(T) # Cardinality(S)
  BY <1>2, <1>3
<1> QED BY <1>2, <1>4, <1>5 DEF newidx, T

\* The record at hand goes to the end of what was copied.
LEMMA NewidxOfNext ==
    ASSUME NEW n \in Nat, NEW S \in SUBSET (0..n), NEW T \in SUBSET S, NEW i \in T,
           \A j \in T : i <= j, \A j \in S \ T, k \in T : j < k
    PROVE  /\ newidx(S, i) = Cardinality(S \ T)
           /\ Cardinality(S \ (T \ {i})) = Cardinality(S \ T) + 1
           /\ \A j \in S \ T : newidx(S, j) \in Nat /\ newidx(S, j) < Cardinality(S \ T)
           /\ Cardinality(S \ T) \in Nat
<1>0. \A j \in S : j \in Int
  OBVIOUS
<1>1. {j \in S : j < i} = S \ T
  <2>1. ASSUME NEW j \in S, j < i PROVE j \notin T
    BY <1>0, <2>1
  <2>2. \A j \in S \ T : j < i
    OBVIOUS
  <2> QED BY <2>1, <2>2
<1>2. IsFiniteSet(S \ T)
  <2>1. S \ T \in SUBSET (0..n)
    OBVIOUS
  <2> QED BY <2>1, PartsFinite
<1>3. S \ (T \ {i}) = (S \ T) \cup {i} /\ i \notin S \ T
  OBVIOUS
<1>4. Cardinality((S \ T) \cup {i}) = Cardinality(S \ T) + 1
  BY <1>2, <1>3, FS_AddElement
<1>5. ASSUME NEW j \in S \ T PROVE newidx(S, j) \in Nat /\ newidx(S, j) < Cardinality(S \ T)
  <2>1. {k \in S : k < j} = {k \in S \ T : k < j}
    <3>1. ASSUME NEW k \in T PROVE ~(k < j)
      <4>1. j < k
        OBVIOUS
      <4> QED BY <1>0, <4>1
    <3> QED BY <3>1
  <2>2. newidx(S, j) = newidx(S \ T, j)
    BY <2>1 DEF newidx
  <2>3. S \ T \in SUBSET (0..n)
    OBVIOUS
  <2> QED BY <2>2, <2>3, NewidxFacts
<1> QED BY <1>1, <1>2, <1>3, <1>4, <1>5, FS_CardinalityType DEF newidx

-----------------------------------------------------------------------------
(* Creations *)

\* A set of numbers has a least one.
LEMMA SmallestOf ==
    ASSUME NEW T \in SUBSET Nat, T # {}
    PROVE  \E m \in T : \A k \in T : m <= k
<1> DEFINE R == OpToRel(<, Nat)
<1>1. IsWellFoundedOn(R, Nat)
  BY NatLessThanWellFounded
<1>2. \A x, y \in Nat : x < y => <<x, y>> \in R
  BY DEF OpToRel
<1> HIDE DEF R
<1>3. PICK m \in T : \A k \in T : ~(<<k, m>> \in R)
  BY <1>1, WFMin
<1>4. \A k \in T : ~(k < m)
  BY <1>2, <1>3
<1> QED BY <1>4

LEMMA NewRecordFacts ==
    ASSUME NEW c \in StoreFiles, NEW ty \in GateTypes, NEW nb \in Nat
    PROVE  LET r == newRecord(c, ty, nb)
           IN /\ r \in GateInformation /\ r.nb_children = nb /\ r.children_idx = Len(c.wires)
              /\ r.extra_idx = 0 /\ r.extra_len = 0
<1>1. NaN \in Probs
  BY ConstantAssumption
<1>2. Len(c.wires) \in Nat
  BY StoreParts
<1> QED BY <1>1, <1>2 DEF newRecord, GateInformation

LEMMA SameItems ==
    ASSUME NEW S, NEW x \in S, NEW n \in Nat
    PROVE  /\ [k \in 1..n |-> x] \in Seq(S) /\ Len([k \in 1..n |-> x]) = n
           /\ \A k \in 1..n : [j \in 1..n |-> x][k] = x
  OBVIOUS

\* An item of a sequence has a first occurrence.
LEMMA FirstOccurrence ==
    ASSUME NEW S, NEW q \in Seq(S), NEW x \in ToSet(q)
    PROVE  \E k \in 1..Len(q) : q[k] = x /\ \A j \in 1..(k - 1) : q[j] # x
<1> DEFINE K == {k \in 1..Len(q) : q[k] = x}
<1>1. K \in SUBSET Nat /\ K # {}
  BY SeqItems
<1>2. PICK k \in K : \A j \in K : k <= j
  BY <1>1, SmallestOf
<1>3. \A j \in 1..(k - 1) : q[j] # x
  <2> SUFFICES ASSUME NEW j \in 1..(k - 1), q[j] = x PROVE FALSE
    OBVIOUS
  <2>1. j \in 1..Len(q) /\ ~(k <= j)
    OBVIOUS
  <2> QED BY <1>2, <2>1
<1> QED BY <1>2, <1>3

\* A store with records and wires added reads as before, and more.
LEMMA GrownSound ==
    ASSUME NEW d \in StoreFiles, NEW e \in StoreFiles, NEW u \in Tokens, Sound(d, u),
           e.mapping[u] = d.mapping[u], IsPrefixOf(d.gates.recs, e.gates.recs),
           e.wires = d.wires, e.extra = d.extra
    PROVE  Sound(e, u)
<1>1. /\ d.mapping[u] \in Nat /\ d.mapping[u] < Len(d.gates.recs)
      /\ Len(d.gates.recs) \in Nat /\ Len(e.gates.recs) \in Nat
  BY StoreParts DEF Sound, Nb
<1>2. d.mapping[u] < Len(e.gates.recs) /\ e.gates.recs[d.mapping[u] + 1] = d.gates.recs[d.mapping[u] + 1]
  <2>1. d.mapping[u] + 1 \in 1..Len(d.gates.recs)
    BY <1>1
  <2>2. e.gates.recs[d.mapping[u] + 1] = d.gates.recs[d.mapping[u] + 1]
    BY <2>1 DEF IsPrefixOf
  <2>3. Len(d.gates.recs) <= Len(e.gates.recs)
    BY DEF IsPrefixOf
  <2> QED BY <1>1, <2>2, <2>3
<1> QED BY <1>1, <1>2 DEF Sound, Mapped, Nb, RecordAt, BadWires, BadExtra

LEMMA AddedFacts ==
    ASSUME NEW d \in StoreFiles, NEW ch \in Seq(Tokens)
    PROVE  LET e == addMissing(d, ch)
           IN /\ e \in StoreFiles
              /\ \A u \in Tokens : Mapped(d, u) => Mapped(e, u)
              /\ \A u \in Tokens : Mapped(e, u) /\ ~Mapped(d, u) => Sound(e, u)
              /\ \A u \in Tokens : Sound(d, u) => Sound(e, u)
<1> DEFINE missing == {k \in DOMAIN ch : /\ ~Mapped(d, ch[k])
                                         /\ \A j \in 1..(k - 1) : ch[j] # ch[k]}
           place(k) == Nb(d) + newidx(missing, k)
           m == [u \in Tokens |-> IF Mapped(d, u) \/ u \notin ToSet(ch) THEN d.mapping[u]
                                  ELSE place(CHOOSE k \in missing : ch[k] = u)]
           blank == newRecord(d, "input", 0)
           added == [k \in 1..Cardinality(missing) |-> blank]
           e == addMissing(d, ch)
<1>1. /\ d.mapping \in MappingFile /\ d.gates \in GatesFile /\ d.gates.recs \in Seq(GateInformation)
      /\ Nb(d) \in Nat /\ Len(d.wires) \in Nat
  BY StoreParts
<1>2. missing \in SUBSET (0..Len(ch)) /\ Len(ch) \in Nat
  OBVIOUS
<1>3. Cardinality(missing) \in Nat
  BY <1>2, PartsFinite
<1>4. /\ blank \in GateInformation /\ blank.nb_children = 0 /\ blank.children_idx = Len(d.wires)
      /\ blank.extra_idx = 0 /\ blank.extra_len = 0
  <2> HIDE DEF missing
  <2>1. "input" \in GateTypes
    BY DEF GateTypes
  <2> QED BY <2>1, NewRecordFacts
<1> HIDE DEF blank
<1>5. added \in Seq(GateInformation) /\ Len(added) = Cardinality(missing)
      /\ \A k \in 1..Cardinality(missing) : added[k] = blank
  <2> HIDE DEF missing
  <2> QED BY <1>3, <1>4, SameItems
<1>6. ASSUME NEW u \in Tokens, ~Mapped(d, u), u \in ToSet(ch)
      PROVE  m[u] \in Nat /\ m[u] >= Nb(d) /\ m[u] < Nb(d) + Cardinality(missing)
  <2>1. PICK k \in 1..Len(ch) : ch[k] = u /\ \A j \in 1..(k - 1) : ch[j] # u
    BY <1>6, FirstOccurrence
  <2>2. k \in missing
    BY <1>6, <2>1
  <2> DEFINE h == CHOOSE j \in missing : ch[j] = u
  <2>3. h \in missing
    BY <2>1, <2>2
  <2> HIDE DEF h, missing
  <2>4. newidx(missing, h) \in Nat /\ newidx(missing, h) < Cardinality(missing)
    BY <1>2, <2>3, NewidxFacts
  <2>5. m[u] = Nb(d) + newidx(missing, h)
    BY <1>6 DEF h
  <2> QED BY <1>1, <1>3, <2>4, <2>5
<1>7. m \in MappingFile
  <2>1. \A u \in Tokens : m[u] \in Nat \cup {NOTHING}
    BY <1>1, <1>6 DEF MappingFile
  <2> QED BY <2>1 DEF MappingFile
<1>8. e = [d EXCEPT !.mapping = m, !.gates.recs = @ \o added]
  BY DEF addMissing, blank
<1> HIDE DEF m, added, missing, e
<1>9. /\ e = [mapping |-> m, gates |-> [version |-> d.gates.version, recs |-> d.gates.recs \o added],
              wires |-> d.wires, extra |-> d.extra]
  BY <1>8 DEF StoreFiles, GatesFile
<1>10. /\ e \in StoreFiles /\ e.mapping = m /\ e.wires = d.wires /\ e.extra = d.extra
       /\ e.gates.recs = d.gates.recs \o added
  <2>1. d.gates.recs \o added \in Seq(GateInformation)
    BY <1>1, <1>5
  <2> QED BY <1>1, <1>7, <1>9, <2>1, StoreParts DEF StoreFiles, GatesFile
<1>11. \A u \in Tokens : Mapped(d, u) => e.mapping[u] = d.mapping[u] /\ Mapped(e, u)
  BY <1>10 DEF m, Mapped
<1>12. ASSUME NEW u \in Tokens, Mapped(e, u), ~Mapped(d, u) PROVE Sound(e, u)
  <2>1. u \in ToSet(ch)
    BY <1>10, <1>12 DEF m, Mapped
  <2>2. e.mapping[u] \in Nat /\ e.mapping[u] >= Nb(d) /\ e.mapping[u] < Nb(d) + Cardinality(missing)
    BY <1>6, <1>10, <1>12, <2>1
  <2>3. Nb(e) = Nb(d) + Cardinality(missing)
    <3>1. Len(d.gates.recs \o added) = Len(d.gates.recs) + Len(added)
      BY <1>1, <1>5, ConcatLength
    <3> QED BY <1>5, <1>10, <3>1 DEF Nb
  <2>4. RecordAt(e, e.mapping[u]) = blank
    <3> DEFINE i == e.mapping[u] - Nb(d) + 1
    <3>1. i \in 1..Len(added) /\ e.mapping[u] + 1 = Nb(d) + i
      BY <1>1, <1>3, <1>5, <2>2
    <3> HIDE DEF i
    <3>2. (d.gates.recs \o added)[Len(d.gates.recs) + i] = added[i]
      BY <1>1, <1>5, <3>1
    <3> QED BY <1>5, <1>10, <3>1, <3>2 DEF RecordAt, Nb
  <2> QED BY <1>1, <1>4, <1>10, <1>12, <2>2, <2>3, <2>4, StoreParts DEF Sound, BadWires, BadExtra
<1>13. ASSUME NEW u \in Tokens, Sound(d, u) PROVE Sound(e, u)
  <2>1. Mapped(d, u) BY <1>13 DEF Sound
  <2>2. IsPrefixOf(d.gates.recs, e.gates.recs)
    BY <1>1, <1>5, <1>10, ConcatExtends
  <2> QED BY <1>10, <1>11, <1>13, <2>1, <2>2, GrownSound
<1> QED BY <1>10, <1>11, <1>12, <1>13 DEF e

\* What a creation leaves: a store, in which every gate that was there still is,
\* and every gate that was not can be read.
LEMMA CreateFacts ==
    ASSUME NEW c \in StoreFiles, NEW t \in Tokens, Mapped(c, t) => c.mapping[t] < Nb(c)
    PROVE  LET d == createGate(c, t)
           IN /\ d \in StoreFiles
              /\ \A u \in Tokens : Mapped(c, u) => Mapped(d, u)
              /\ \A u \in Tokens : Mapped(d, u) /\ ~Mapped(c, u) => Sound(d, u)
<1> DEFINE type == Content[t].type
           ch == Content[t].children
           new == newRecord(c, type, Len(ch))
           appended == [c EXCEPT !.mapping[t] = Nb(c), !.wires = @ \o ch,
                                 !.gates.recs = Append(@, new)]
           upgraded == [c EXCEPT !.wires = @ \o ch,
                                 !.gates.recs[c.mapping[t] + 1] =
                                     [@ EXCEPT !.type = type, !.nb_children = Len(ch),
                                               !.children_idx = Len(c.wires)]]
           old == RecordAt(c, c.mapping[t])
           d == createGate(c, t)
<1>1. type \in GateTypes /\ ch \in Seq(Tokens) /\ Len(ch) \in Nat
  BY ContentAssumption DEF GateTypes
<1>2. /\ c.mapping \in MappingFile /\ c.gates \in GatesFile /\ c.gates.recs \in Seq(GateInformation)
      /\ c.wires \in Seq(Tokens) /\ c.extra \in Seq(Bytes)
      /\ Nb(c) \in Nat /\ Len(c.wires) \in Nat /\ Len(c.extra) \in Nat
  BY StoreParts
<1>3. /\ new \in GateInformation /\ new.nb_children = Len(ch) /\ new.children_idx = Len(c.wires)
      /\ new.extra_idx = 0 /\ new.extra_len = 0
  BY <1>1, NewRecordFacts
<1>4. CASE ~Mapped(c, t)
  <2>1. d = addMissing(appended, ch)
    BY <1>4 DEF createGate
  <2>a. appended = [c EXCEPT !.mapping[t] = Nb(c), !.wires = @ \o ch,
                             !.gates.recs = Append(@, new)]
    OBVIOUS
  <2> HIDE DEF appended, new, ch, d, old, upgraded, type
  <2>2. appended = [mapping |-> [c.mapping EXCEPT ![t] = Nb(c)],
                    gates |-> [version |-> c.gates.version, recs |-> Append(c.gates.recs, new)],
                    wires |-> c.wires \o ch, extra |-> c.extra]
    BY <2>a DEF StoreFiles, GatesFile
  <2>3. /\ appended \in StoreFiles
        /\ appended.mapping = [c.mapping EXCEPT ![t] = Nb(c)]
        /\ appended.gates.recs = Append(c.gates.recs, new)
        /\ appended.wires = c.wires \o ch /\ appended.extra = c.extra
    <3>1. /\ [c.mapping EXCEPT ![t] = Nb(c)] \in MappingFile
          /\ Append(c.gates.recs, new) \in Seq(GateInformation)
          /\ c.wires \o ch \in Seq(Tokens)
      BY <1>1, <1>2, <1>3 DEF MappingFile
    <3> QED BY <1>2, <2>2, <3>1 DEF StoreFiles, GatesFile
  <2>4. \A u \in Tokens : Mapped(appended, u) <=> (Mapped(c, u) \/ u = t)
    BY <1>2, <2>3, ConstantAssumption DEF Mapped, MappingFile
  <2>5. Sound(appended, t)
    <3>1. appended.mapping[t] = Nb(c)
      BY <1>2, <2>3 DEF MappingFile
    <3>2. Nb(appended) = Nb(c) + 1 /\ RecordAt(appended, Nb(c)) = new
      BY <1>2, <1>3, <2>3 DEF Nb, RecordAt
    <3>3. Len(appended.wires) = Len(c.wires) + Len(ch)
      BY <1>1, <1>2, <2>3, ConcatLength
    <3>4. ~BadWires(appended, new)
      BY <1>1, <1>2, <1>3, <3>3 DEF BadWires
    <3>5. ~BadExtra(appended, new)
      BY <1>2, <1>3, <2>3 DEF BadExtra
    <3>6. Mapped(appended, t) /\ Nb(c) < Nb(c) + 1
      BY <1>2, <2>4
    <3> QED BY <3>1, <3>2, <3>4, <3>5, <3>6 DEF Sound
  <2>6. /\ d \in StoreFiles
        /\ \A u \in Tokens : Mapped(appended, u) => Mapped(d, u)
        /\ \A u \in Tokens : Mapped(d, u) /\ ~Mapped(appended, u) => Sound(d, u)
        /\ \A u \in Tokens : Sound(appended, u) => Sound(d, u)
    BY <1>1, <2>1, <2>3, AddedFacts
  <2> QED BY <2>4, <2>5, <2>6 DEF d
<1>5. CASE Mapped(c, t) /\ old.type = "input" /\ old.nb_children = 0 /\ (type # "input" \/ ch # <<>>)
  <2>1. d = addMissing(upgraded, ch)
    BY <1>5 DEF createGate
  <2> DEFINE i == c.mapping[t] + 1
             r == [c.gates.recs[i] EXCEPT !.type = type, !.nb_children = Len(ch),
                                          !.children_idx = Len(c.wires)]
  <2>2. i \in 1..Len(c.gates.recs)
    BY <1>2, <1>5, StoreParts DEF Nb
  <2>3. c.gates.recs[i] \in GateInformation
    BY <1>2, <2>2
  <2>4. r \in GateInformation
    <3> HIDE DEF i, type, ch
    <3> QED BY <1>1, <1>2, <2>3 DEF GateInformation
  <2>a. upgraded = [c EXCEPT !.wires = @ \o ch, !.gates.recs[i] = r]
    OBVIOUS
  <2> HIDE DEF upgraded, i, r, ch, d, type, old, new, appended
  <2>5. upgraded = [mapping |-> c.mapping,
                    gates |-> [version |-> c.gates.version, recs |-> [c.gates.recs EXCEPT ![i] = r]],
                    wires |-> c.wires \o ch, extra |-> c.extra]
    BY <2>a DEF StoreFiles, GatesFile
  <2>6. upgraded \in StoreFiles /\ upgraded.mapping = c.mapping
    <3>1. /\ [c.gates.recs EXCEPT ![i] = r] \in Seq(GateInformation)
          /\ c.wires \o ch \in Seq(Tokens)
      BY <1>1, <1>2, <2>2, <2>4
    <3> QED BY <1>2, <2>5, <3>1 DEF StoreFiles, GatesFile
  <2>7. /\ d \in StoreFiles
        /\ \A u \in Tokens : Mapped(upgraded, u) => Mapped(d, u)
        /\ \A u \in Tokens : Mapped(d, u) /\ ~Mapped(upgraded, u) => Sound(d, u)
    BY <1>1, <2>1, <2>6, AddedFacts
  <2> QED BY <2>6, <2>7 DEF Mapped, d
<1>6. CASE Mapped(c, t) /\ ~(old.type = "input" /\ old.nb_children = 0 /\ (type # "input" \/ ch # <<>>))
  <2>1. d = c
    BY <1>6 DEF createGate
  <2> QED BY <2>1
<1> QED BY <1>4, <1>5, <1>6

-----------------------------------------------------------------------------
(* Marking *)

LEMMA IndicesGrow ==
    ASSUME NEW c, NEW ts, NEW us, ts \subseteq us
    PROVE  indices(c, ts) \subseteq indices(c, us)
  BY DEF indices

\* The stack starts with the records of the roots.
LEMMA MarkStarts ==
    ASSUME NEW c \in StoreFiles, NEW R \in SUBSET Tokens
    PROVE  MarkedFrom(c, R, indices(c, R), indices(c, R))
<1>1. R \subseteq Reach(c, R)
  BY ReachFacts
<1> QED BY <1>1, IndicesGrow DEF MarkedFrom

\* A turn of the loop keeps it so.
LEMMA MarkTurns ==
    ASSUME NEW c \in StoreFiles, NEW R \in SUBSET Tokens, NEW L, NEW T \in SUBSET L,
           MarkedFrom(c, R, L, T), NEW i \in T
    PROVE  LET found == follow(c, i) \ L
           IN MarkedFrom(c, R, L \cup found, (T \ {i}) \cup found)
<1> DEFINE found == follow(c, i) \ L
<1>1. /\ indices(c, R) \subseteq L /\ L \subseteq indices(c, Reach(c, R))
      /\ \A j \in L \ T : follow(c, j) \subseteq L
  BY DEF MarkedFrom
<1>2. Reach(c, R) \in SUBSET Tokens
  BY ReachFacts
<1>3. PICK u \in Reach(c, R) : Mapped(c, u) /\ c.mapping[u] < Nb(c) /\ c.mapping[u] = i
  BY <1>1, <1>2, IndicesFacts
<1>4. Kids(c, u) \subseteq Reach(c, R) /\ indices(c, Kids(c, u)) = follow(c, i)
  BY <1>2, <1>3, ReachClosed, KidsFacts
<1>5. follow(c, i) \subseteq indices(c, Reach(c, R))
  BY <1>4, IndicesGrow
<1>6. ASSUME NEW j \in (L \cup found) \ ((T \ {i}) \cup found)
      PROVE  follow(c, j) \subseteq L \cup found
  <2>1. CASE j = i
    BY <2>1
  <2>2. CASE j # i
    <3>1. j \in L \ T
      BY <1>6, <2>2
    <3> QED BY <1>1, <3>1
  <2> QED BY <2>1, <2>2
<1> HIDE DEF found
<1>7. indices(c, R) \subseteq L \cup found
  BY <1>1
<1>8. L \cup found \subseteq indices(c, Reach(c, R))
  BY <1>1, <1>5 DEF found
<1> QED BY <1>6, <1>7, <1>8 DEF MarkedFrom, found

\* When the stack is empty, what the roots reach is marked.
LEMMA MarkEnds ==
    ASSUME NEW c \in StoreFiles, NEW R \in SUBSET Tokens, NEW L, MarkedFrom(c, R, L, {})
    PROVE  /\ \A u \in Reach(c, R) : Mapped(c, u) /\ c.mapping[u] < Nb(c) => c.mapping[u] \in L
           /\ \A i \in L : \E u \in Reach(c, R) :
                 Mapped(c, u) /\ c.mapping[u] < Nb(c) /\ c.mapping[u] = i
           /\ L \subseteq 0..(Nb(c) - 1)
<1> DEFINE S == {u \in Tokens : Mapped(c, u) /\ c.mapping[u] < Nb(c) => c.mapping[u] \in L}
<1>1. /\ indices(c, R) \subseteq L /\ L \subseteq indices(c, Reach(c, R))
      /\ \A j \in L : follow(c, j) \subseteq L
  BY DEF MarkedFrom
<1>2. Reach(c, R) \in SUBSET Tokens
  BY ReachFacts
<1>3. R \subseteq S
  BY <1>1, IndicesFacts
<1>4. ASSUME NEW t \in S PROVE Kids(c, t) \subseteq S
  <2>1. CASE Mapped(c, t) /\ c.mapping[t] < Nb(c)
    <3>1. indices(c, Kids(c, t)) \subseteq L /\ Kids(c, t) \in SUBSET Tokens
      BY <1>1, <2>1, KidsFacts
    <3> QED BY <3>1, IndicesFacts
  <2>2. CASE ~(Mapped(c, t) /\ c.mapping[t] < Nb(c))
    BY <2>2 DEF Kids
  <2> QED BY <2>1, <2>2
<1>5. Reach(c, R) \subseteq S
  BY <1>3, <1>4, ReachFacts
<1>6. \A i \in L : \E u \in Reach(c, R) : Mapped(c, u) /\ c.mapping[u] < Nb(c) /\ c.mapping[u] = i
  BY <1>1, <1>2, IndicesFacts
<1>7. L \subseteq 0..(Nb(c) - 1)
  BY <1>1, <1>2, IndicesFacts
<1> QED BY <1>5, <1>6, <1>7

-----------------------------------------------------------------------------
(* Sweeping *)

LEMMA SweepStarts ==
    ASSUME NEW c, NEW L
    PROVE  SweptFrom(c, EmptyStore, L, L)
<1>1. /\ EmptyStore \in StoreFiles /\ EmptyStore.gates.version = 2 /\ Nb(EmptyStore) = 0
  BY DEF EmptyStore, StoreFiles, MappingFile, GatesFile, Nb
<1>2. L \ L = {}
  OBVIOUS
<1> QED BY <1>1, <1>2, FS_EmptySet DEF SweptFrom

LEMMA SweepTurns ==
    ASSUME NEW c \in StoreFiles, NEW d, NEW L \in SUBSET (0..(Nb(c) - 1)), NEW T \in SUBSET L,
           SweptFrom(c, d, L, T), NEW i \in T, \A j \in T : i <= j
    PROVE  SweptFrom(c, Copied(c, d, i), L, T \ {i})
<1> DEFINE e == Copied(c, d, i)
           n == Cardinality(L \ T)
<1>1. /\ d \in StoreFiles /\ d.gates.version = 2
      /\ \A j \in L \ T, k \in T : j < k
      /\ Nb(d) = n
      /\ \A j \in L \ T : CopyOf(c, j, d, newidx(L, j))
      /\ \A k \in 0..(Nb(d) - 1) : \E j \in L \ T : k = newidx(L, j)
  BY DEF SweptFrom
<1>2. Nb(c) \in Nat /\ L \in SUBSET (0..Nb(c)) /\ i \in 0..(Nb(c) - 1)
  BY StoreParts
<1>3. /\ newidx(L, i) = n /\ Cardinality(L \ (T \ {i})) = n + 1 /\ n \in Nat
      /\ \A j \in L \ T : newidx(L, j) \in Nat /\ newidx(L, j) < n
  BY <1>1, <1>2, NewidxOfNext
<1> HIDE DEF e, n
<1>4. /\ e \in StoreFiles /\ e.gates.version = 2
      /\ Nb(e) = n + 1
      /\ CopyOf(c, i, e, n)
      /\ \A j \in 0..(Nb(c) - 1) : \A k \in 0..(n - 1) : CopyOf(c, j, d, k) => CopyOf(c, j, e, k)
  BY <1>1, <1>2, CopiedFacts DEF e
<1>5. L \ (T \ {i}) = (L \ T) \cup {i}
  OBVIOUS
<1>6. ASSUME NEW j \in (L \ T) \cup {i}, NEW k \in T \ {i} PROVE j < k
  <2>1. CASE j \in L \ T
    BY <1>1, <2>1
  <2>2. CASE j = i
    <3>1. j \in Int /\ k \in Int /\ i <= k /\ k # i
      OBVIOUS
    <3> QED BY <2>2, <3>1
  <2> QED BY <2>1, <2>2
<1>7. ASSUME NEW j \in (L \ T) \cup {i} PROVE CopyOf(c, j, e, newidx(L, j))
  <2>1. CASE j \in L \ T
    <3>1. newidx(L, j) \in 0..(n - 1)
      BY <1>3, <2>1
    <3> QED BY <1>1, <1>4, <2>1, <3>1
  <2>2. CASE j = i
    BY <1>3, <1>4, <2>2
  <2> QED BY <2>1, <2>2
<1>8. ASSUME NEW k \in 0..(Nb(e) - 1) PROVE \E j \in (L \ T) \cup {i} : k = newidx(L, j)
  <2>1. CASE k = n
    BY <1>3, <2>1
  <2>2. CASE k # n
    <3>1. k \in 0..(Nb(d) - 1)
      BY <1>1, <1>3, <1>4, <2>2
    <3> QED BY <1>1, <3>1
  <2> QED BY <2>1, <2>2
<1>9. SweptFrom(c, e, L, T \ {i})
  BY <1>3, <1>4, <1>5, <1>6, <1>7, <1>8 DEF SweptFrom
<1> QED BY <1>9 DEF e

LEMMA NewmappingFacts ==
    ASSUME NEW c \in StoreFiles, NEW L \in SUBSET (0..(Nb(c) - 1))
    PROVE  LET m == newmapping(c, L)
           IN /\ m \in MappingFile
              /\ \A t \in Tokens : m[t] # NOTHING <=> Mapped(c, t) /\ c.mapping[t] \in L
              /\ \A t \in Tokens : m[t] # NOTHING => m[t] = newidx(L, c.mapping[t])
<1>1. Nb(c) \in Nat /\ L \in SUBSET (0..Nb(c))
  BY StoreParts
<1>2. \A i \in L : newidx(L, i) \in Nat
  BY <1>1, NewidxFacts
<1> QED BY <1>2, ConstantAssumption DEF newmapping, MappingFile

\* Writing the token table leaves the copies as they are.
LEMMA TableWritten ==
    ASSUME NEW c \in StoreFiles, NEW d \in FreshFiles, NEW L \in SUBSET (0..(Nb(c) - 1)),
           SweptFrom(c, d, L, {})
    PROVE  LET e == [d EXCEPT !.mapping = newmapping(c, L)]
           IN SweptFrom(c, e, L, {}) /\ e.mapping = newmapping(c, L)
<1> DEFINE m == newmapping(c, L)
           e == [d EXCEPT !.mapping = m]
<1>1. d \in StoreFiles
  BY DEF SweptFrom
<1>2. m \in MappingFile
  BY NewmappingFacts
<1> HIDE DEF m
<1>3. /\ e \in StoreFiles /\ e.mapping = m
      /\ e.gates = d.gates /\ e.wires = d.wires /\ e.extra = d.extra
  BY <1>1, <1>2 DEF StoreFiles
<1> HIDE DEF e
<1>4. SweptFrom(c, e, L, {})
  BY <1>3 DEF SweptFrom, CopyOf, Nb, RecordAt, BadWires, BadExtra, hasProbOf, ChildrenOf, ExtraOf
<1> QED BY <1>3, <1>4 DEF e, m

\* The rebuilt store: what it has, what it does not, and how it reads.
LEMMA SweepEnds ==
    ASSUME NEW c \in StoreFiles, NEW d, NEW L \in SUBSET (0..(Nb(c) - 1)),
           SweptFrom(c, d, L, {}), d.mapping = newmapping(c, L)
    PROVE  /\ d \in StoreFiles
           /\ \A t \in Tokens : Mapped(d, t) <=> Mapped(c, t) /\ c.mapping[t] \in L
           /\ \A t \in Tokens : Mapped(d, t) =>
                 /\ Sound(d, t) /\ d.mapping[t] = newidx(L, c.mapping[t])
                 /\ CopyOf(c, c.mapping[t], d, d.mapping[t])
           /\ \A t \in Tokens : Mapped(d, t) /\ Sound(c, t) => Reading(d, t) = Reading(c, t)
<1>1. d \in StoreFiles /\ Nb(d) = Cardinality(L)
      /\ \A i \in L : CopyOf(c, i, d, newidx(L, i))
  <2>1. L \ {} = L
    OBVIOUS
  <2> QED BY <2>1 DEF SweptFrom
<1>2. Nb(c) \in Nat /\ L \in SUBSET (0..Nb(c))
  BY StoreParts
<1>3. \A t \in Tokens : Mapped(d, t) <=> Mapped(c, t) /\ c.mapping[t] \in L
  BY NewmappingFacts DEF Mapped
<1>4. ASSUME NEW t \in Tokens, Mapped(d, t)
      PROVE  /\ Sound(d, t) /\ d.mapping[t] = newidx(L, c.mapping[t])
             /\ CopyOf(c, c.mapping[t], d, d.mapping[t])
  <2>1. c.mapping[t] \in L /\ d.mapping[t] = newidx(L, c.mapping[t])
    BY <1>3, <1>4, NewmappingFacts DEF Mapped
  <2>2. d.mapping[t] < Nb(d)
    BY <1>1, <1>2, <2>1, NewidxFacts
  <2>3. CopyOf(c, c.mapping[t], d, d.mapping[t])
    BY <1>1, <2>1
  <2>4. ~BadWires(d, RecordAt(d, d.mapping[t])) /\ ~BadExtra(d, RecordAt(d, d.mapping[t]))
    BY <2>3 DEF CopyOf
  <2> QED BY <1>4, <2>1, <2>2, <2>3, <2>4 DEF Sound
<1>5. ASSUME NEW t \in Tokens, Mapped(d, t), Sound(c, t) PROVE Reading(d, t) = Reading(c, t)
  <2>1. CopyOf(c, c.mapping[t], d, d.mapping[t])
    BY <1>4, <1>5
  <2>2. ~BadWires(c, RecordAt(c, c.mapping[t])) /\ ~BadExtra(c, RecordAt(c, c.mapping[t]))
    BY <1>5 DEF Sound
  <2> QED BY <2>1, <2>2 DEF CopyOf, Reading
<1> QED BY <1>1, <1>3, <1>4, <1>5

\* It is healthy, and has only what the roots reach.
LEMMA RebuiltFacts ==
    ASSUME NEW c \in StoreFiles, NEW d, NEW R \in SUBSET Tokens, NEW L,
           MarkedFrom(c, R, L, {}), SweptFrom(c, d, L, {}), d.mapping = newmapping(c, L)
    PROVE  Healthy(d) /\ OnlyReached(d, R)
<1>1. /\ \A u \in Reach(c, R) : Mapped(c, u) /\ c.mapping[u] < Nb(c) => c.mapping[u] \in L
      /\ \A i \in L : \E u \in Reach(c, R) : Mapped(c, u) /\ c.mapping[u] < Nb(c) /\ c.mapping[u] = i
      /\ L \in SUBSET (0..(Nb(c) - 1))
  BY MarkEnds
<1>2. /\ d \in StoreFiles
      /\ \A t \in Tokens : Mapped(d, t) <=> Mapped(c, t) /\ c.mapping[t] \in L
      /\ \A t \in Tokens : Mapped(d, t) =>
            /\ Sound(d, t) /\ d.mapping[t] = newidx(L, c.mapping[t])
            /\ CopyOf(c, c.mapping[t], d, d.mapping[t])
  BY <1>1, SweepEnds
<1>3. Reach(c, R) \in SUBSET Tokens /\ Reach(d, R) \in SUBSET Tokens
  BY ReachFacts
<1>4. Healthy(d)
  <2>1. ASSUME NEW k \in 0..(Nb(d) - 1) PROVE \E t \in Tokens : d.mapping[t] = k
    <3>1. PICK i \in L : k = newidx(L, i)
      BY DEF SweptFrom
    <3>2. PICK u \in Reach(c, R) : Mapped(c, u) /\ c.mapping[u] = i
      BY <1>1
    <3> QED BY <1>2, <1>3, <3>1, <3>2
  <2> QED BY <1>2, <2>1 DEF Healthy
<1>5. ASSUME NEW v \in Reach(c, R) PROVE Kids(c, v) \subseteq Kids(d, v)
  <2>1. CASE Mapped(c, v) /\ c.mapping[v] < Nb(c) /\ ~BadWires(c, RecordAt(c, c.mapping[v]))
    <3>1. Sound(d, v) /\ CopyOf(c, c.mapping[v], d, d.mapping[v])
      BY <1>1, <1>2, <1>3, <2>1
    <3>2. ChildrenOf(d, RecordAt(d, d.mapping[v])) = ChildrenOf(c, RecordAt(c, c.mapping[v]))
      BY <2>1, <3>1 DEF CopyOf
    <3> QED BY <2>1, <3>1, <3>2 DEF Kids, Sound
  <2>2. CASE ~(Mapped(c, v) /\ c.mapping[v] < Nb(c) /\ ~BadWires(c, RecordAt(c, c.mapping[v])))
    BY <2>2 DEF Kids
  <2> QED BY <2>1, <2>2
<1>6. Reach(c, R) \subseteq Reach(d, R)
  <2> DEFINE S == Reach(c, R) \cap Reach(d, R)
  <2>1. R \subseteq S
    BY ReachFacts
  <2>2. ASSUME NEW v \in S PROVE Kids(c, v) \subseteq S
    <3>1. Kids(c, v) \subseteq Reach(c, R)
      BY ReachClosed
    <3>2. Kids(d, v) \subseteq Reach(d, R)
      BY <1>2, ReachClosed
    <3> QED BY <1>5, <3>1, <3>2
  <2> HIDE DEF S
  <2>3. S \in SUBSET Tokens
    BY <1>3 DEF S
  <2>4. Reach(c, R) \subseteq S
    BY <2>1, <2>2, <2>3, ReachFacts
  <2> QED BY <2>4 DEF S
<1>7. ASSUME NEW t \in Tokens, Mapped(d, t)
      PROVE  \E u \in Reach(d, R) : d.mapping[u] = d.mapping[t]
  <2>1. PICK u \in Reach(c, R) : Mapped(c, u) /\ c.mapping[u] = c.mapping[t]
    BY <1>1, <1>2, <1>7
  <2>2. d.mapping[u] = d.mapping[t]
    BY <1>2, <1>3, <1>7, <2>1
  <2> QED BY <1>6, <2>2
<1> QED BY <1>4, <1>7 DEF OnlyReached

LEMMA CardinalityOfParts ==
    ASSUME NEW n \in Nat, NEW S \in SUBSET (0..(n - 1))
    PROVE  Cardinality(S) <= n
<1>1. IsFiniteSet(0..(n - 1)) /\ Cardinality(0..(n - 1)) = n
  BY FS_Interval
<1> QED BY <1>1, FS_Subset

\* What a gate that can be read reads as.
LEMMA ReadingType ==
    ASSUME NEW c \in StoreFiles, NEW t \in Tokens, Sound(c, t)
    PROVE  Reading(c, t) # NOTHING
<1> DEFINE r == RecordAt(c, c.mapping[t])
<1>1. c.mapping[t] \in 0..(Nb(c) - 1) /\ ~BadWires(c, r) /\ ~BadExtra(c, r)
  BY StoreParts DEF Sound
<1>2. r \in GateInformation
  BY <1>1, RecordParts
<1> HIDE DEF r
<1>3. ChildrenOf(c, r) \in Seq(Tokens) /\ ExtraOf(c, r) \in Seq(Bytes)
  BY <1>1, <1>2, ChildrenParts, ExtraParts
<1>4. r.type \in GateTypes /\ r.prob \in Probs
  BY <1>2 DEF GateInformation
<1>5. hasProbOf(c, r) \in Probs
  BY <1>4, ConstantAssumption DEF hasProbOf
<1>6. Reading(c, t) \in GateReadings
  BY <1>3, <1>4, <1>5 DEF Reading, GateReadings, r
<1> QED BY <1>6, StoresAssumption

-----------------------------------------------------------------------------
(* What is remembered *)

\* Remembered, of a given store and given histories.
RememberedIn(c, tr, un) ==
    \A t \in Tokens : tr[t] # NOTHING =>
        \/ Sound(c, t) /\ Reading(c, t) = tr[t]
        \/ t \in un /\ ~Mapped(c, t)

LEMMA RememberedIs ==
    /\ Remembered <=> RememberedIn(Effective, truth, unseen)
    /\ Remembered' <=> RememberedIn(Effective', truth', unseen')
  BY DEF Remembered, RememberedIn

\* Rebuilt, of a given store and given roots.
RebuiltTo(c, R) == Healthy(c) /\ OnlyReached(c, R)

LEMMA RebuiltIs ==
    /\ Rebuilt <=> (worker \in {"rename", "reply"} /\ ~session[Asker].dry =>
                       RebuiltTo(Effective, Roots(Asker)))
    /\ Rebuilt' <=> (worker' \in {"rename", "reply"} /\ ~session'[Asker'].dry =>
                       RebuiltTo(Effective', Roots(Asker)'))
  BY DEF Rebuilt, RebuiltTo

\* A creation: what reads otherwise than before is remembered as it reads now.
LEMMA CreationRemembered ==
    ASSUME NEW c \in StoreFiles, NEW d \in StoreFiles, NEW tr, NEW un \in SUBSET Tokens,
           RememberedIn(c, tr, un),
           \A u \in Tokens : Mapped(d, u) /\ ~Mapped(c, u) => Sound(d, u)
    PROVE  RememberedIn(d, [u \in Tokens |->
                              IF Readings(d)[u] # Readings(c)[u] THEN Readings(d)[u] ELSE tr[u]],
                        {u \in un : ~Mapped(d, u)})
<1> DEFINE now == [u \in Tokens |->
                     IF Readings(d)[u] # Readings(c)[u] THEN Readings(d)[u] ELSE tr[u]]
           out == {u \in un : ~Mapped(d, u)}
<1> SUFFICES ASSUME NEW u \in Tokens, now[u] # NOTHING
             PROVE  \/ Sound(d, u) /\ Reading(d, u) = now[u]
                    \/ u \in out /\ ~Mapped(d, u)
  BY DEF RememberedIn
<1>1. /\ Readings(c)[u] = IF Sound(c, u) THEN Reading(c, u) ELSE NOTHING
      /\ Readings(d)[u] = IF Sound(d, u) THEN Reading(d, u) ELSE NOTHING
  BY DEF Readings
<1>2. CASE Readings(d)[u] # Readings(c)[u]
  BY <1>1, <1>2
<1>3. CASE Readings(d)[u] = Readings(c)[u]
  <2>1. now[u] = tr[u] /\ tr[u] # NOTHING
    BY <1>3
  <2>2. CASE Sound(c, u) /\ Reading(c, u) = tr[u]
    BY <1>1, <1>3, <2>1, <2>2
  <2>3. CASE u \in un /\ ~Mapped(c, u)
    <3>1. CASE ~Mapped(d, u)
      BY <2>3, <3>1
    <3>2. CASE Mapped(d, u)
      <4>1. Sound(d, u) /\ ~Sound(c, u)
        BY <2>3, <3>2 DEF Sound
      <4>2. Readings(d)[u] # NOTHING /\ Readings(c)[u] = NOTHING
        BY <1>1, <4>1, ReadingType
      <4> QED BY <1>3, <4>2
    <3> QED BY <3>1, <3>2
  <2> QED BY <2>1, <2>2, <2>3 DEF RememberedIn
<1> QED BY <1>2, <1>3

\* The rebuilt store: what was seen is kept, and what was not is not there.
LEMMA RebuildRemembered ==
    ASSUME NEW c \in StoreFiles, NEW d, NEW R \in SUBSET Tokens, NEW L,
           MarkedFrom(c, R, L, {}), SweptFrom(c, d, L, {}), d.mapping = newmapping(c, L),
           NEW tr, NEW un \in SUBSET Tokens, NEW stored, RememberedIn(c, tr, un)
    PROVE  RememberedIn(d, [t \in Tokens |-> IF t \in Reach(c, R) \cup stored THEN tr[t] ELSE NOTHING],
                        un \cup {t \in stored \ Reach(c, R) : tr[t] # NOTHING})
<1> DEFINE now == [t \in Tokens |-> IF t \in Reach(c, R) \cup stored THEN tr[t] ELSE NOTHING]
           out == un \cup {t \in stored \ Reach(c, R) : tr[t] # NOTHING}
<1> SUFFICES ASSUME NEW t \in Tokens, now[t] # NOTHING
             PROVE  \/ Sound(d, t) /\ Reading(d, t) = now[t]
                    \/ t \in out /\ ~Mapped(d, t)
  BY DEF RememberedIn
<1>1. now[t] = tr[t] /\ tr[t] # NOTHING /\ t \in Reach(c, R) \cup stored
  OBVIOUS
<1>2. /\ \A u \in Reach(c, R) : Mapped(c, u) /\ c.mapping[u] < Nb(c) => c.mapping[u] \in L
      /\ L \in SUBSET (0..(Nb(c) - 1))
  BY MarkEnds
<1>3. /\ Mapped(d, t) <=> Mapped(c, t) /\ c.mapping[t] \in L
      /\ Mapped(d, t) => Sound(d, t)
      /\ Mapped(d, t) /\ Sound(c, t) => Reading(d, t) = Reading(c, t)
  BY <1>2, SweepEnds
<1>4. CASE Sound(c, t) /\ Reading(c, t) = tr[t]
  <2>1. CASE Mapped(d, t)
    BY <1>1, <1>3, <1>4, <2>1
  <2>2. CASE ~Mapped(d, t)
    <3>1. t \notin Reach(c, R)
      BY <1>2, <1>3, <1>4, <2>2 DEF Sound
    <3> QED BY <1>1, <2>2, <3>1
  <2> QED BY <2>1, <2>2
<1>5. CASE t \in un /\ ~Mapped(c, t)
  BY <1>3, <1>5
<1> QED BY <1>1, <1>4, <1>5 DEF RememberedIn

-----------------------------------------------------------------------------
(* The one who asked *)

LEMMA ExclusiveOfRebuild == RebuildInv => ExclusiveInv
  BY DEF RebuildInv, TypeOK, ExclusiveInv

\* While the worker is busy, one session waits, and its roots are tokens.
LEMMA AskerFacts ==
    ASSUME RebuildInv, worker # "idle"
    PROVE  /\ Asker \in Sessions /\ session[Asker].at = "wait"
           /\ \A o \in Sessions \ {Asker} : session[o].at = "out"
           /\ Roots(Asker) \in SUBSET Tokens
<1>1. \E s \in Sessions : session[s].at = "wait"
  BY DEF RebuildInv, Exclusive
<1>2. Asker \in Sessions /\ session[Asker].at = "wait"
  BY <1>1 DEF Asker
<1>3. \A o \in Sessions \ {Asker} : session[o].at = "out"
  BY <1>2 DEF RebuildInv, Exclusive, Alone
<1>4. session[Asker] \in SessionRecord /\ session[Asker].snap \subseteq Tokens
  BY <1>2 DEF RebuildInv, TypeOK, SessionType, Snapped
<1>5. Roots(Asker) \in SUBSET Tokens
  BY <1>4, ContentAssumption DEF Roots, SessionRecord
<1> QED BY <1>2, <1>3, <1>5

LEMMA SameAsker ==
    ASSUME session' = session
    PROVE  Asker' = Asker /\ Roots(Asker)' = Roots(Asker) /\ session'[Asker'] = session[Asker]
<1>1. Asker' = Asker
  BY DEF Asker
<1> QED BY <1>1 DEF Roots

\* No session does anything while the worker is busy.
LEMMA BusySessions ==
    ASSUME RebuildInv, worker # "idle", NEW s \in Sessions
    PROVE  ~Statement(s) /\ ~Cleanup(s)
<1>1. session[s].at \in {"out", "wait"}
  BY AskerFacts
<1>2. dblock # NOTHING
  BY AskerFacts, ConstantAssumption DEF RebuildInv, Exclusive
<1> QED BY <1>1, <1>2 DEF Statement, Cleanup, Connect, Disconnect, Begin, Commit, Rollback,
              StoreRow, DropRow, CallCleanup, LockDatabase, CountOtherDBBackends, CollectRoots

-----------------------------------------------------------------------------
(* The invariant of the clean-up *)

LEMMA InitRebuild == Init => RebuildInv
<1> SUFFICES ASSUME Init PROVE RebuildInv
  OBVIOUS
<1>1. store \in StoreFiles /\ Len(store.gates.recs) <= MaxGates
  BY StoresAssumption DEF Init
<1>2. fresh = NoFresh /\ fresh \in FreshFiles /\ marker = FALSE
  BY DEF Init, NoFresh, FreshFiles
<1>3. Effective = store
  BY <1>1, <1>2, EffectiveIsOpened, OpenedFacts
<1>4. TypeOK
  <2>1. SessionType /\ rows \subseteq Tokens
    BY InitExclusive DEF ExclusiveInv
  <2>2. Nb(Effective) <= MaxGates
    BY <1>1, <1>3 DEF Nb
  <2>3. xacts \in 0..MaxXacts /\ cleanups \in 0..MaxCleanups /\ faults \in 0..MaxFaults
    BY BoundAssumption DEF Init
  <2>4. /\ dblock \in Sessions \cup {NOTHING} /\ worker = "idle" /\ live = {} /\ todo = {}
        /\ unseen = {}
    BY DEF Init
  <2> QED BY <1>1, <1>2, <2>1, <2>2, <2>3, <2>4 DEF TypeOK
<1>5. Exclusive
  BY InitExclusive DEF ExclusiveInv
<1>6. Snapped /\ Phases /\ Marked /\ Swept /\ Rebuilt
  BY DEF Init, NoSession, Snapped, Phases, Marked, Swept, Rebuilt
<1>7. Remembered
  <2>1. RememberedIn(store, truth, unseen)
    BY DEF Init, RememberedIn, Readings
  <2> QED BY <1>3, <2>1, RememberedIs
<1> QED BY <1>4, <1>5, <1>6, <1>7 DEF RebuildInv

\* With the worker idle there is nothing to say of the new files.
LEMMA IdleInv ==
    ASSUME worker' = "idle", TypeOK', Exclusive', Snapped', Remembered'
    PROVE  RebuildInv'
  BY DEF RebuildInv, Phases, Marked, Swept, Rebuilt

LEMMA SameEffective ==
    ASSUME store' = store, fresh' = fresh, marker' = marker
    PROVE  Effective' = Effective
  BY EffectiveIsOpened

\* Steps that change no file and no history, and end with the worker idle.
LEMMA QuietStep ==
    ASSUME RebuildInv, ExclusiveInv', Snapped', worker' = "idle",
           UNCHANGED <<files, ghosts>>, live' \subseteq 0..MaxGates, todo' \subseteq live',
           dblock' \in Sessions \cup {NOTHING},
           xacts' \in 0..MaxXacts, cleanups' \in 0..MaxCleanups, faults' \in 0..MaxFaults
    PROVE  RebuildInv'
<1>1. Effective' = Effective
  BY SameEffective DEF files
<1>2. TypeOK'
  BY <1>1 DEF RebuildInv, TypeOK, ExclusiveInv, files, ghosts, Nb
<1>3. Remembered'
  <2>1. RememberedIn(Effective, truth, unseen)
    BY RememberedIs DEF RebuildInv
  <2> QED BY <1>1, <2>1, RememberedIs DEF ghosts
<1> QED BY <1>2, <1>3, IdleInv DEF ExclusiveInv

LEMMA SnapshotIsTokens ==
    ASSUME RebuildInv, NEW s \in Sessions
    PROVE  Snapshot(s) \subseteq Tokens
  BY DEF RebuildInv, TypeOK, SessionType, SessionRecord, Snapshot

LEMMA StatementKeeps ==
    ASSUME RebuildInv, NEW s \in Sessions, Statement(s)
    PROVE  RebuildInv'
<1>1. ExclusiveInv'
  BY ExclusiveOfRebuild, StatementStep
<1>2. worker = "idle"
  BY BusySessions
<1>3. /\ live \subseteq 0..MaxGates /\ todo \subseteq live /\ dblock \in Sessions \cup {NOTHING}
      /\ xacts \in 0..MaxXacts /\ cleanups \in 0..MaxCleanups /\ faults \in 0..MaxFaults
  BY DEF RebuildInv, TypeOK
<1>4. session \in [Sessions -> SessionRecord]
  BY DEF RebuildInv, TypeOK, SessionType
<1>5. Snapped
  BY DEF RebuildInv
<1>6. Unlocked(s) \in Sessions \cup {NOTHING}
  BY <1>3 DEF Unlocked
<1>7. CASE Connect(s) \/ Disconnect(s) \/ Commit(s) \/ Rollback(s)
  <2>1. /\ session'[s].at \in {"out", "idle"}
        /\ \A o \in Sessions \ {s} : session'[o] = session[o]
    BY <1>4, <1>7 DEF Connect, Disconnect, Commit, Rollback, NoSession
  <2>2. Snapped'
    BY <1>5, <2>1 DEF Snapped
  <2>3. /\ UNCHANGED <<files, ghosts>> /\ UNCHANGED <<worker, locals, counters>>
        /\ dblock' \in {dblock, Unlocked(s)}
    BY <1>7 DEF Connect, Disconnect, Commit, Rollback
  <2> QED BY <1>1, <1>2, <1>3, <1>6, <2>2, <2>3, QuietStep DEF locals, counters
<1>8. CASE Begin(s)
  <2>1. /\ session'[s].at = "xact"
        /\ \A o \in Sessions \ {s} : session'[o] = session[o]
    BY <1>4, <1>8 DEF Begin, NoSession
  <2>2. Snapped'
    BY <1>5, <2>1 DEF Snapped
  <2>3. /\ UNCHANGED <<files, ghosts>> /\ UNCHANGED <<dblock, worker, locals, cleanups, faults>>
        /\ xacts' = xacts + 1 /\ xacts < MaxXacts
    BY <1>8 DEF Begin
  <2>4. xacts' \in 0..MaxXacts
    BY <1>3, <2>3, BoundAssumption
  <2> QED BY <1>1, <1>2, <1>3, <2>2, <2>3, <2>4, QuietStep DEF locals
<1>9. ASSUME NEW t \in RowTokens, DropRow(s, t) PROVE RebuildInv'
  <2>1. /\ session'[s].at = "xact"
        /\ \A o \in Sessions \ {s} : session'[o] = session[o]
    BY <1>4, <1>9 DEF DropRow, SessionRecord
  <2>2. Snapped'
    BY <1>5, <2>1 DEF Snapped
  <2>3. UNCHANGED <<files, ghosts>> /\ UNCHANGED <<dblock, worker, locals, counters>>
    BY <1>9 DEF DropRow
  <2> QED BY <1>1, <1>2, <1>3, <2>2, <2>3, QuietStep DEF locals, counters
<1>10. ASSUME NEW t \in RowTokens, StoreRow(s, t) PROVE RebuildInv'
  <2> DEFINE new == createGate(Effective, t)
  <2>1. /\ session'[s].at = "xact"
        /\ \A o \in Sessions \ {s} : session'[o] = session[o]
    BY <1>4, <1>10 DEF StoreRow, SessionRecord
  <2>2. Snapped'
    BY <1>5, <2>1 DEF Snapped
  <2>3. /\ Mapped(Effective, t) => Effective.mapping[t] < Nb(Effective)
        /\ Nb(new) <= MaxGates
        /\ store' = new /\ fresh' = NoFresh /\ marker' = FALSE
        /\ truth' = [u \in Tokens |-> IF Readings(new)[u] # Readings(Effective)[u]
                                      THEN Readings(new)[u] ELSE truth[u]]
        /\ unseen' = {u \in unseen : ~Mapped(new, u)}
        /\ UNCHANGED <<rows, dblock, worker, locals, counters>>
    BY <1>10 DEF StoreRow, Effective
  <2>4. Effective \in StoreFiles /\ unseen \in SUBSET Tokens /\ t \in Tokens
    BY ContentAssumption, EffectiveIsOpened, OpenedFacts DEF RebuildInv, TypeOK
  <2> HIDE DEF new
  <2>5. new \in StoreFiles /\ \A u \in Tokens : Mapped(new, u) /\ ~Mapped(Effective, u) => Sound(new, u)
    BY <2>3, <2>4, CreateFacts DEF new
  <2>6. Effective' = new
    <3>1. NoFresh \in FreshFiles
      BY DEF NoFresh, FreshFiles
    <3> QED BY <2>3, <2>5, <3>1, EffectiveIsOpened, OpenedFacts
  <2>7. Remembered'
    <3>1. RememberedIn(Effective, truth, unseen)
      BY RememberedIs DEF RebuildInv
    <3>2. RememberedIn(new, truth', unseen')
      BY <2>3, <2>4, <2>5, <3>1, CreationRemembered
    <3> QED BY <2>6, <3>2, RememberedIs
  <2>8. TypeOK'
    <3>1. store' \in StoreFiles /\ fresh' \in FreshFiles /\ marker' \in BOOLEAN
      BY <2>3, <2>5 DEF NoFresh, FreshFiles
    <3>2. (Nb(Effective) <= MaxGates)'
      BY <2>3, <2>6 DEF Nb
    <3>3. unseen' \subseteq Tokens
      BY <2>3, <2>4
    <3> QED BY <1>1, <1>2, <1>3, <2>3, <3>1, <3>2, <3>3 DEF TypeOK, ExclusiveInv, locals, counters
  <2> QED BY <1>1, <1>2, <2>2, <2>3, <2>7, <2>8, IdleInv DEF ExclusiveInv
<1> QED BY <1>7, <1>8, <1>9, <1>10 DEF Statement

\* The roots are collected from the store as it opens, and marked.
LEMMA CollectKeeps ==
    ASSUME RebuildInv, NEW s \in Sessions, CollectRoots(s), ExclusiveInv'
    PROVE  RebuildInv'
<1> DEFINE R == Roots(s)
<1>1. /\ session \in [Sessions -> SessionRecord] /\ session[s].at = "collect"
      /\ session' = [session EXCEPT ![s].at = "wait"]
  BY DEF RebuildInv, TypeOK, SessionType, CollectRoots, Goes
<1>2. /\ store' = Effective /\ fresh' = NoFresh /\ marker' = FALSE
      /\ live' = indices(Effective, R) /\ todo' = live' /\ worker' = "mark"
      /\ UNCHANGED <<rows, dblock, counters, ghosts>>
  BY DEF CollectRoots, getCircuit, Effective
<1>3. R \in SUBSET Tokens
  <2>1. session[s] \in SessionRecord /\ session[s].snap \subseteq Tokens
    BY <1>1 DEF RebuildInv, Snapped
  <2> QED BY <2>1, ContentAssumption DEF Roots, SessionRecord
<1>4. Effective \in StoreFiles /\ Nb(Effective) <= MaxGates
  BY EffectiveIsOpened, OpenedFacts DEF RebuildInv, TypeOK
<1>5. NoFresh \in FreshFiles /\ Effective' = Effective
  <2>1. NoFresh \in FreshFiles
    BY DEF NoFresh, FreshFiles
  <2> QED BY <1>2, <1>4, <2>1, EffectiveIsOpened, OpenedFacts
<1>6. /\ session'[s] \in SessionRecord /\ session'[s].at = "wait"
      /\ session'[s].snap = session[s].snap /\ session'[s].ins = session[s].ins
      /\ session'[s].del = session[s].del
      /\ \A o \in Sessions \ {s} : session'[o] = session[o]
  BY <1>1 DEF SessionRecord, Places
<1>7. Asker' = s
  <2>1. \A o \in Sessions \ {s} : session'[o].at = "out"
    BY <1>1, <1>6 DEF RebuildInv, Exclusive, Alone
  <2> QED BY <1>6, <2>1 DEF Asker
<1>8. Roots(Asker)' = R
  BY <1>6, <1>7 DEF Roots
<1>9. live' \subseteq 0..MaxGates
  <2>1. live' \subseteq 0..(Nb(Effective) - 1)
    BY <1>2, <1>3, <1>4, IndicesFacts
  <2>2. Nb(Effective) \in Nat /\ MaxGates \in Nat
    BY <1>4, StoreParts, BoundAssumption
  <2> QED BY <1>4, <2>1, <2>2
<1>10. TypeOK'
  <2>1. (Nb(Effective) <= MaxGates)'
    BY <1>4, <1>5 DEF Nb
  <2>2. UNCHANGED <<xacts, cleanups, faults, unseen, dblock>>
    BY <1>2 DEF counters, ghosts
  <2> QED BY <1>2, <1>4, <1>5, <1>9, <2>1, <2>2 DEF TypeOK, ExclusiveInv, RebuildInv
<1>11. Snapped'
  BY <1>1, <1>6 DEF RebuildInv, Snapped
<1>12. Phases' /\ Swept' /\ Rebuilt'
  BY <1>2 DEF Phases, Swept, Rebuilt
<1>13. Marked'
  <2>1. MarkedFrom(Effective, R, live', todo')
    BY <1>2, <1>3, <1>4, MarkStarts
  <2> QED BY <1>2, <1>8, <2>1 DEF Marked
<1>14. Remembered'
  BY <1>2, <1>5, RememberedIs DEF RebuildInv, ghosts
<1> QED BY <1>10, <1>11, <1>12, <1>13, <1>14 DEF RebuildInv, ExclusiveInv

LEMMA CleanupKeeps ==
    ASSUME RebuildInv, NEW s \in Sessions, Cleanup(s)
    PROVE  RebuildInv'
<1>1. ExclusiveInv'
  BY ExclusiveOfRebuild, CleanupStep
<1>2. worker = "idle"
  BY BusySessions
<1>3. /\ live \subseteq 0..MaxGates /\ todo \subseteq live /\ dblock \in Sessions \cup {NOTHING}
      /\ xacts \in 0..MaxXacts /\ cleanups \in 0..MaxCleanups /\ faults \in 0..MaxFaults
  BY DEF RebuildInv, TypeOK
<1>4. session \in [Sessions -> SessionRecord] /\ Snapped
  BY DEF RebuildInv, TypeOK, SessionType
<1>5. CASE CallCleanup(s)
  <2>1. PICK dry \in BOOLEAN :
            session' = [session EXCEPT ![s].at = IF session[s].written THEN "failed" ELSE "lock",
                                       ![s].snap = Snapshot(s), ![s].dry = dry]
    BY <1>5 DEF CallCleanup
  <2>2. session'[s].snap = Snapshot(s) /\ \A o \in Sessions \ {s} : session'[o] = session[o]
    BY <1>4, <2>1 DEF SessionRecord
  <2>3. Snapped'
    BY <1>4, <2>2, SnapshotIsTokens DEF Snapped
  <2>4. /\ UNCHANGED <<files, ghosts>> /\ UNCHANGED <<dblock, worker, locals, xacts, faults>>
        /\ cleanups' = cleanups + 1 /\ cleanups < MaxCleanups
    BY <1>5 DEF CallCleanup
  <2>5. cleanups' \in 0..MaxCleanups
    BY <1>3, <2>4, BoundAssumption
  <2> QED BY <1>1, <1>2, <1>3, <2>3, <2>4, <2>5, QuietStep DEF locals
<1>6. CASE LockDatabase(s) \/ CountOtherDBBackends(s)
  <2>1. /\ session[s].at \in {"lock", "count"} /\ session'[s].snap = session[s].snap
        /\ \A o \in Sessions \ {s} : session'[o] = session[o]
    BY <1>4, <1>6 DEF LockDatabase, CountOtherDBBackends, Goes, SessionRecord
  <2>2. Snapped'
    BY <1>4, <2>1 DEF Snapped
  <2>3. /\ UNCHANGED <<files, ghosts>> /\ UNCHANGED <<worker, locals, counters>>
        /\ dblock' \in {dblock, s}
    BY <1>6 DEF LockDatabase, CountOtherDBBackends
  <2> QED BY <1>1, <1>2, <1>3, <2>2, <2>3, QuietStep DEF locals, counters
<1>7. CASE CollectRoots(s)
  BY <1>1, <1>7, CollectKeeps
<1> QED BY <1>5, <1>6, <1>7 DEF Cleanup

-----------------------------------------------------------------------------
(* The steps of the worker *)

\* What a step of the worker leaves alone.
LEMMA WorkerFrame ==
    ASSUME RebuildInv, NEW from, NEW to, WorkerGoes(from, to)
    PROVE  /\ Asker' = Asker /\ Roots(Asker)' = Roots(Asker)
           /\ session'[Asker'] = session[Asker]
           /\ SessionType' /\ Snapped' /\ rows' \subseteq Tokens
           /\ dblock' \in Sessions \cup {NOTHING}
           /\ xacts' \in 0..MaxXacts /\ cleanups' \in 0..MaxCleanups /\ faults' \in 0..MaxFaults
<1>1. session' = session /\ UNCHANGED <<rows, dblock, xacts, cleanups, faults>>
  BY DEF WorkerGoes, counters
<1> QED BY <1>1, SameAsker DEF RebuildInv, TypeOK, SessionType, Snapped

\* The types, with the files and the history as they were.
LEMMA WorkerTypes ==
    ASSUME RebuildInv, NEW from, NEW to, WorkerGoes(from, to), UNCHANGED <<files, ghosts>>,
           to \in {"mark", "unlink", "sweep", "marker", "rename", "reply"},
           live' \subseteq 0..MaxGates, todo' \subseteq live'
    PROVE  TypeOK' /\ Effective' = Effective /\ Remembered'
<1>1. Effective' = Effective
  BY SameEffective DEF files
<1>2. worker' = to
  BY DEF WorkerGoes
<1>3. Remembered'
  BY <1>1, RememberedIs DEF RebuildInv, ghosts
<1>4. (Nb(Effective) <= MaxGates)'
  BY <1>1 DEF RebuildInv, TypeOK, Nb
<1> QED BY <1>1, <1>2, <1>3, <1>4, WorkerFrame DEF RebuildInv, TypeOK, files, ghosts

\* While there is no marker, the store opens as it is.
LEMMA UnmarkedFacts ==
    ASSUME RebuildInv, ~marker
    PROVE  Effective = store /\ store \in StoreFiles /\ Nb(store) <= MaxGates
  BY EffectiveIsOpened, OpenedFacts DEF RebuildInv, TypeOK

LEMMA MarkKeeps ==
    ASSUME RebuildInv, Mark
    PROVE  RebuildInv'
<1>1. PICK i \in todo :
          /\ live' = live \cup (follow(store, i) \ live)
          /\ todo' = (todo \ {i}) \cup (follow(store, i) \ live)
  BY DEF Mark
<1>2. worker = "mark" /\ worker' = "mark" /\ WorkerGoes("mark", "mark") /\ UNCHANGED <<files, ghosts>>
  BY DEF Mark, WorkerGoes
<1>3. Exclusive'
  BY ExclusiveOfRebuild, RebuildStep DEF ExclusiveInv, Rebuild
<1>4. /\ ~marker /\ fresh = NoFresh /\ MarkedFrom(store, Roots(Asker), live, todo)
      /\ todo \in SUBSET live /\ live \subseteq 0..MaxGates
  BY <1>2 DEF RebuildInv, TypeOK, Phases, Marked
<1>5. store \in StoreFiles /\ Nb(store) <= MaxGates /\ Roots(Asker) \in SUBSET Tokens
  BY <1>2, <1>4, UnmarkedFacts, AskerFacts
<1>6. MarkedFrom(store, Roots(Asker), live', todo')
  BY <1>1, <1>4, <1>5, MarkTurns
<1>7. live' \subseteq 0..MaxGates /\ todo' \subseteq live'
  <2>1. live' \subseteq indices(store, Reach(store, Roots(Asker)))
    BY <1>6 DEF MarkedFrom
  <2>2. indices(store, Reach(store, Roots(Asker))) \subseteq 0..(Nb(store) - 1)
    BY <1>5, ReachFacts, IndicesFacts
  <2>3. Nb(store) \in Nat /\ MaxGates \in Nat
    BY <1>5, StoreParts, BoundAssumption
  <2>4. live' \subseteq 0..MaxGates
    BY <1>5, <2>1, <2>2, <2>3
  <2> QED BY <1>1, <1>4, <2>4
<1>8. TypeOK' /\ Remembered'
  BY <1>2, <1>7, WorkerTypes
<1>9. Snapped' /\ Roots(Asker)' = Roots(Asker)
  BY <1>2, WorkerFrame
<1>10. Marked'
  BY <1>2, <1>6, <1>9 DEF Marked, files
<1>11. Phases' /\ Swept' /\ Rebuilt'
  BY <1>2, <1>4 DEF Phases, Swept, Rebuilt, files
<1> QED BY <1>3, <1>8, <1>9, <1>10, <1>11 DEF RebuildInv

LEMMA EndMarkKeeps ==
    ASSUME RebuildInv, EndMark
    PROVE  RebuildInv'
<1> DEFINE to == IF session[Asker].dry THEN "reply" ELSE "unlink"
<1>1. /\ todo = {} /\ WorkerGoes("mark", to)
      /\ worker = "mark" /\ worker' = to /\ UNCHANGED <<files, locals, ghosts>>
  BY DEF EndMark, WorkerGoes
<1>2. Exclusive'
  BY ExclusiveOfRebuild, RebuildStep DEF ExclusiveInv, Rebuild
<1>3. /\ ~marker /\ fresh = NoFresh /\ MarkedFrom(store, Roots(Asker), live, {})
      /\ todo \subseteq live /\ live \subseteq 0..MaxGates
  BY <1>1 DEF RebuildInv, TypeOK, Phases, Marked
<1>4. TypeOK' /\ Remembered'
  BY <1>1, <1>3, WorkerTypes DEF locals
<1>5. Snapped' /\ Roots(Asker)' = Roots(Asker) /\ session'[Asker'] = session[Asker]
  BY <1>1, WorkerFrame
<1>6. Marked'
  BY <1>1, <1>3, <1>5 DEF Marked, files, locals
<1>7. Phases' /\ Swept' /\ Rebuilt'
  BY <1>1, <1>3, <1>5 DEF Phases, Swept, Rebuilt, files, locals
<1> QED BY <1>2, <1>4, <1>5, <1>6, <1>7 DEF RebuildInv

\* The three steps of the sweep change the new files, which nobody opens yet.
LEMMA SweepTypes ==
    ASSUME RebuildInv, NEW from, NEW to, WorkerGoes(from, to), ~marker,
           UNCHANGED <<store, marker, live, ghosts>>, fresh' \in FreshFiles, todo' \subseteq live,
           to \in {"sweep", "marker"}
    PROVE  TypeOK' /\ Remembered'
<1>1. Effective = store /\ store \in StoreFiles
  BY UnmarkedFacts
<1>2. Effective' = Effective
  <2>1. store' = store /\ marker' = FALSE
    BY DEF RebuildInv, TypeOK
  <2> QED BY <1>1, <2>1, EffectiveIsOpened, OpenedFacts
<1>3. worker' = to
  BY DEF WorkerGoes
<1>4. Remembered'
  BY <1>2, RememberedIs DEF RebuildInv, ghosts
<1>5. (Nb(Effective) <= MaxGates)'
  BY <1>2 DEF RebuildInv, TypeOK, Nb
<1> QED BY <1>3, <1>4, <1>5, WorkerFrame DEF RebuildInv, TypeOK, ghosts

LEMMA FilesAreFresh == StoreFiles \subseteq FreshFiles
  BY DEF StoreFiles, FreshFiles

LEMMA StartSweepKeeps ==
    ASSUME RebuildInv, StartSweep
    PROVE  RebuildInv'
<1>1. /\ WorkerGoes("unlink", "sweep") /\ worker = "unlink" /\ worker' = "sweep"
      /\ fresh' = EmptyStore /\ todo' = live /\ UNCHANGED <<store, marker, live, ghosts>>
  BY DEF StartSweep, WorkerGoes
<1>2. Exclusive'
  BY ExclusiveOfRebuild, RebuildStep DEF ExclusiveInv, Rebuild
<1>3. ~marker /\ ~session[Asker].dry /\ MarkedFrom(store, Roots(Asker), live, {})
  BY <1>1 DEF RebuildInv, Phases, Marked
<1>4. SweptFrom(store, fresh', live, live)
  BY <1>1, SweepStarts
<1>5. fresh' \in FreshFiles
  BY <1>4, FilesAreFresh DEF SweptFrom
<1>6. TypeOK' /\ Remembered'
  BY <1>1, <1>3, <1>5, SweepTypes
<1>7. Snapped' /\ Roots(Asker)' = Roots(Asker) /\ session'[Asker'] = session[Asker]
  BY <1>1, WorkerFrame
<1>8. Marked' /\ Swept' /\ Phases' /\ Rebuilt'
  BY <1>1, <1>3, <1>4, <1>7 DEF Marked, Swept, Phases, Rebuilt
<1> QED BY <1>2, <1>6, <1>7, <1>8 DEF RebuildInv

LEMMA SweepKeeps ==
    ASSUME RebuildInv, Sweep
    PROVE  RebuildInv'
<1>1. PICK i \in todo :
          /\ \A j \in todo : i <= j
          /\ fresh' = Copied(store, fresh, i) /\ todo' = todo \ {i}
  BY DEF Sweep
<1>2. /\ WorkerGoes("sweep", "sweep") /\ worker = "sweep" /\ worker' = "sweep"
      /\ UNCHANGED <<store, marker, live, ghosts>>
  BY DEF Sweep, WorkerGoes
<1>3. Exclusive'
  BY ExclusiveOfRebuild, RebuildStep DEF ExclusiveInv, Rebuild
<1>4. /\ ~marker /\ ~session[Asker].dry /\ MarkedFrom(store, Roots(Asker), live, {})
      /\ SweptFrom(store, fresh, live, todo) /\ todo \in SUBSET live
  BY <1>2 DEF RebuildInv, TypeOK, Phases, Marked, Swept
<1>5. store \in StoreFiles /\ Roots(Asker) \in SUBSET Tokens
  BY <1>2, <1>4, UnmarkedFacts, AskerFacts
<1>6. live \in SUBSET (0..(Nb(store) - 1))
  BY <1>4, <1>5, MarkEnds
<1>7. SweptFrom(store, fresh', live, todo')
  BY <1>1, <1>4, <1>5, <1>6, SweepTurns
<1>8. fresh' \in FreshFiles /\ todo' \subseteq live
  BY <1>1, <1>4, <1>7, FilesAreFresh DEF SweptFrom
<1>9. TypeOK' /\ Remembered'
  BY <1>2, <1>4, <1>8, SweepTypes
<1>10. Snapped' /\ Roots(Asker)' = Roots(Asker) /\ session'[Asker'] = session[Asker]
  BY <1>2, WorkerFrame
<1>11. Marked' /\ Swept' /\ Phases' /\ Rebuilt'
  BY <1>2, <1>4, <1>7, <1>10 DEF Marked, Swept, Phases, Rebuilt
<1> QED BY <1>3, <1>9, <1>10, <1>11 DEF RebuildInv

LEMMA EndSweepKeeps ==
    ASSUME RebuildInv, EndSweep
    PROVE  RebuildInv'
<1>1. /\ WorkerGoes("sweep", "marker") /\ worker = "sweep" /\ worker' = "marker" /\ todo = {}
      /\ fresh' = [fresh EXCEPT !.mapping = newmapping(store, live)]
      /\ UNCHANGED <<store, marker, live, todo, ghosts>>
  BY DEF EndSweep, WorkerGoes, locals
<1>2. Exclusive'
  BY ExclusiveOfRebuild, RebuildStep DEF ExclusiveInv, Rebuild
<1>3. /\ ~marker /\ ~session[Asker].dry /\ MarkedFrom(store, Roots(Asker), live, {})
      /\ SweptFrom(store, fresh, live, {}) /\ fresh \in FreshFiles
  BY <1>1 DEF RebuildInv, TypeOK, Phases, Marked, Swept
<1>4. store \in StoreFiles /\ Roots(Asker) \in SUBSET Tokens
  BY <1>1, <1>3, UnmarkedFacts, AskerFacts
<1>5. live \in SUBSET (0..(Nb(store) - 1))
  BY <1>3, <1>4, MarkEnds
<1>6. SweptFrom(store, fresh', live, {}) /\ fresh'.mapping = newmapping(store, live)
  BY <1>1, <1>3, <1>4, <1>5, TableWritten
<1>7. fresh' \in FreshFiles /\ todo' \subseteq live
  BY <1>1, <1>6, FilesAreFresh DEF SweptFrom
<1>8. TypeOK' /\ Remembered'
  BY <1>1, <1>3, <1>7, SweepTypes
<1>9. Snapped' /\ Roots(Asker)' = Roots(Asker) /\ session'[Asker'] = session[Asker]
  BY <1>1, WorkerFrame
<1>10. Marked' /\ Swept' /\ Phases' /\ Rebuilt'
  BY <1>1, <1>3, <1>6, <1>9 DEF Marked, Swept, Phases, Rebuilt
<1> QED BY <1>2, <1>8, <1>9, <1>10 DEF RebuildInv

\* With the marker the rebuilt store takes over; its history is what was seen.
LEMMA CreateMarkerKeeps ==
    ASSUME RebuildInv, CreateMarker
    PROVE  RebuildInv'
<1> DEFINE R == Roots(Asker)
           stored == Reach(store, rows)
<1>1. /\ WorkerGoes("marker", "rename") /\ worker = "marker" /\ worker' = "rename"
      /\ marker' = TRUE /\ UNCHANGED <<store, fresh, live, todo>>
      /\ truth' = [t \in Tokens |-> IF t \in Reach(store, R) \cup stored THEN truth[t] ELSE NOTHING]
      /\ unseen' = unseen \cup {t \in stored \ Reach(store, R) : truth[t] # NOTHING}
  BY DEF CreateMarker, WorkerGoes, locals
<1>2. Exclusive'
  BY ExclusiveOfRebuild, RebuildStep DEF ExclusiveInv, Rebuild
<1>3. /\ ~marker /\ ~session[Asker].dry /\ todo = {} /\ MarkedFrom(store, R, live, {})
      /\ SweptFrom(store, fresh, live, {}) /\ fresh.mapping = newmapping(store, live)
  BY <1>1 DEF RebuildInv, Phases, Marked, Swept
<1>4. /\ store \in StoreFiles /\ Effective = store /\ Nb(store) <= MaxGates
      /\ R \in SUBSET Tokens /\ stored \in SUBSET Tokens /\ unseen \in SUBSET Tokens
      /\ live \subseteq 0..MaxGates
  BY <1>1, <1>3, UnmarkedFacts, AskerFacts, ReachFacts DEF RebuildInv, TypeOK
<1> HIDE DEF R, stored
<1>5. live \in SUBSET (0..(Nb(store) - 1))
  BY <1>3, <1>4, MarkEnds
<1>6. fresh \in StoreFiles /\ Nb(fresh) <= Nb(store)
  <2>1. fresh \in StoreFiles /\ Nb(fresh) = Cardinality(live)
    <3>1. live \ {} = live
      OBVIOUS
    <3> QED BY <1>3, <3>1 DEF SweptFrom
  <2>2. Nb(store) \in Nat
    BY <1>4, StoreParts
  <2> QED BY <1>5, <2>1, <2>2, CardinalityOfParts
<1>7. Effective' = fresh
  <2>1. fresh \in FreshFiles
    BY <1>6, FilesAreFresh
  <2> QED BY <1>1, <1>4, <1>6, <2>1, EffectiveIsOpened, OpenedFacts
<1>8. Remembered'
  <2>1. RememberedIn(store, truth, unseen)
    BY <1>4, RememberedIs DEF RebuildInv
  <2>2. RememberedIn(fresh, truth', unseen')
    BY <1>1, <1>3, <1>4, <2>1, RebuildRemembered
  <2> QED BY <1>7, <2>2, RememberedIs
<1>9. /\ SessionType' /\ Snapped' /\ rows' \subseteq Tokens /\ dblock' \in Sessions \cup {NOTHING}
      /\ xacts' \in 0..MaxXacts /\ cleanups' \in 0..MaxCleanups /\ faults' \in 0..MaxFaults
      /\ Roots(Asker)' = R /\ session'[Asker'] = session[Asker]
  BY <1>1, WorkerFrame DEF R
<1>10. TypeOK'
  <2>1. (Nb(Effective) <= MaxGates)'
    <3>1. Nb(fresh) \in Nat /\ Nb(store) \in Nat /\ MaxGates \in Nat
      BY <1>4, <1>6, StoreParts, BoundAssumption
    <3>2. Nb(fresh) <= MaxGates
      BY <1>4, <1>6, <3>1
    <3> QED BY <1>7, <3>2 DEF Nb
  <2>2. store' \in StoreFiles /\ fresh' \in FreshFiles /\ marker' \in BOOLEAN
    BY <1>1, <1>4, <1>6, FilesAreFresh
  <2>3. live' \subseteq 0..MaxGates /\ todo' \subseteq live' /\ unseen' \subseteq Tokens
    BY <1>1, <1>3, <1>4
  <2> QED BY <1>1, <1>9, <2>1, <2>2, <2>3 DEF TypeOK
<1>11. Rebuilt'
  <2>1. Healthy(fresh) /\ OnlyReached(fresh, R)
    BY <1>3, <1>4, RebuiltFacts
  <2> QED BY <1>7, <1>9, <2>1, RebuiltIs DEF RebuiltTo
<1>12. Phases' /\ Marked' /\ Swept'
  BY <1>1, <1>3, <1>9 DEF Phases, Marked, Swept
<1> QED BY <1>2, <1>8, <1>9, <1>10, <1>11, <1>12 DEF RebuildInv

\* A file that takes its place is the one that would be opened.
LEMMA RenamedFile ==
    ASSUME NEW s \in StoreFiles, NEW f \in FreshFiles, NEW k \in 1..4, f[Names[k]] # NOTHING
    PROVE  LET s1 == [s EXCEPT ![Names[k]] = f[Names[k]]]
               f1 == [f EXCEPT ![Names[k]] = NOTHING]
           IN s1 \in StoreFiles /\ f1 \in FreshFiles /\ Opened(s1, f1, TRUE) = Opened(s, f, TRUE)
<1>1. CASE k = 1
  <2>1. Names[k] = "mapping" BY <1>1 DEF Names
  <2> QED BY <2>1 DEF StoreFiles, FreshFiles, Opened
<1>2. CASE k = 2
  <2>1. Names[k] = "gates" BY <1>2 DEF Names
  <2> QED BY <2>1 DEF StoreFiles, FreshFiles, Opened
<1>3. CASE k = 3
  <2>1. Names[k] = "wires" BY <1>3 DEF Names
  <2> QED BY <2>1 DEF StoreFiles, FreshFiles, Opened
<1>4. CASE k = 4
  <2>1. Names[k] = "extra" BY <1>4 DEF Names
  <2> QED BY <2>1 DEF StoreFiles, FreshFiles, Opened
<1>5. k = 1 \/ k = 2 \/ k = 3 \/ k = 4
  OBVIOUS
<1> QED BY <1>1, <1>2, <1>3, <1>4, <1>5, Zenon


LEMMA RenameKeeps ==
    ASSUME RebuildInv, Rename
    PROVE  RebuildInv'
<1>1. PICK k \in Left :
          /\ store' = [store EXCEPT ![Names[k]] = fresh[Names[k]]]
          /\ fresh' = [fresh EXCEPT ![Names[k]] = NOTHING]
  BY DEF Rename
<1>2. /\ WorkerGoes("rename", "rename") /\ worker = "rename" /\ worker' = "rename"
      /\ UNCHANGED <<marker, live, todo, truth, unseen>>
  BY DEF Rename, WorkerGoes, locals, ghosts
<1>3. Exclusive'
  BY ExclusiveOfRebuild, RebuildStep DEF ExclusiveInv, Rebuild
<1>4. /\ marker = TRUE /\ ~session[Asker].dry /\ store \in StoreFiles /\ fresh \in FreshFiles
  BY <1>2 DEF RebuildInv, TypeOK, Phases
<1>5. k \in 1..4 /\ fresh[Names[k]] # NOTHING
  BY DEF Left, Names
<1>6. store' \in StoreFiles /\ fresh' \in FreshFiles /\ Effective' = Effective
  BY <1>1, <1>2, <1>4, <1>5, RenamedFile, EffectiveIsOpened
<1>7. /\ SessionType' /\ Snapped' /\ rows' \subseteq Tokens /\ dblock' \in Sessions \cup {NOTHING}
      /\ xacts' \in 0..MaxXacts /\ cleanups' \in 0..MaxCleanups /\ faults' \in 0..MaxFaults
      /\ Roots(Asker)' = Roots(Asker) /\ session'[Asker'] = session[Asker]
  BY <1>2, WorkerFrame
<1>8. TypeOK'
  BY <1>2, <1>6, <1>7 DEF RebuildInv, TypeOK, Nb
<1>9. Remembered'
  BY <1>2, <1>6, RememberedIs DEF RebuildInv
<1>10. Rebuilt'
  BY <1>2, <1>4, <1>6, <1>7, RebuiltIs DEF RebuildInv
<1>11. Phases' /\ Marked' /\ Swept'
  BY <1>2, <1>4, <1>7 DEF Phases, Marked, Swept
<1> QED BY <1>3, <1>7, <1>8, <1>9, <1>10, <1>11 DEF RebuildInv

LEMMA RemoveMarkerKeeps ==
    ASSUME RebuildInv, RemoveMarker
    PROVE  RebuildInv'
<1>1. /\ Left = {} /\ WorkerGoes("rename", "reply") /\ worker = "rename" /\ worker' = "reply"
      /\ marker' = FALSE /\ UNCHANGED <<store, fresh, live, todo, truth, unseen>>
  BY DEF RemoveMarker, WorkerGoes, locals, ghosts
<1>2. Exclusive'
  BY ExclusiveOfRebuild, RebuildStep DEF ExclusiveInv, Rebuild
<1>3. /\ marker = TRUE /\ ~session[Asker].dry /\ store \in StoreFiles /\ fresh \in FreshFiles
  BY <1>1 DEF RebuildInv, TypeOK, Phases
<1>4. fresh = NoFresh
  <2>1. \A k \in 1..4 : fresh[Names[k]] = NOTHING
    BY <1>1 DEF Left, Names
  <2>2. Names[1] = "mapping" /\ Names[2] = "gates" /\ Names[3] = "wires" /\ Names[4] = "extra"
    BY DEF Names
  <2>3. /\ fresh["mapping"] = NOTHING /\ fresh["gates"] = NOTHING
        /\ fresh["wires"] = NOTHING /\ fresh["extra"] = NOTHING
    BY <2>1, <2>2
  <2> QED BY <1>3, <2>3 DEF FreshFiles, NoFresh
<1>5. Effective' = Effective
  <2>1. Opened(store, fresh, marker) = store
    BY <1>3, <1>4, OpenedFacts
  <2>2. Opened(store', fresh', marker') = store
    BY <1>1, <1>3, <1>4, OpenedFacts
  <2> QED BY <2>1, <2>2, EffectiveIsOpened
<1>6. /\ SessionType' /\ Snapped' /\ rows' \subseteq Tokens /\ dblock' \in Sessions \cup {NOTHING}
      /\ xacts' \in 0..MaxXacts /\ cleanups' \in 0..MaxCleanups /\ faults' \in 0..MaxFaults
      /\ Roots(Asker)' = Roots(Asker) /\ session'[Asker'] = session[Asker]
  BY <1>1, WorkerFrame
<1>7. TypeOK'
  BY <1>1, <1>5, <1>6 DEF RebuildInv, TypeOK, Nb
<1>8. Remembered'
  BY <1>1, <1>5, RememberedIs DEF RebuildInv
<1>9. Rebuilt'
  BY <1>1, <1>3, <1>5, <1>6, RebuiltIs DEF RebuildInv
<1>10. Phases' /\ Marked' /\ Swept'
  BY <1>1, <1>4, <1>6 DEF Phases, Marked, Swept
<1> QED BY <1>2, <1>6, <1>7, <1>8, <1>9, <1>10 DEF RebuildInv

\* The steps that end a request, with an answer or without.
LEMMA EndKeeps ==
    ASSUME RebuildInv, Reply \/ Fail \/ Crash
    PROVE  RebuildInv'
<1>1. ExclusiveInv'
  BY ExclusiveOfRebuild, RebuildStep DEF Rebuild
<1>2. /\ worker' = "idle" /\ live' = {} /\ todo' = {} /\ UNCHANGED <<files, ghosts, xacts, cleanups>>
      /\ faults' \in {faults, faults + 1} /\ (faults' = faults \/ faults < MaxFaults)
      /\ dblock' \in {dblock, NOTHING}
  BY DEF Reply, Fail, Crash, counters
<1>3. /\ dblock \in Sessions \cup {NOTHING}
      /\ xacts \in 0..MaxXacts /\ cleanups \in 0..MaxCleanups /\ faults \in 0..MaxFaults
  BY DEF RebuildInv, TypeOK
<1>4. faults' \in 0..MaxFaults
  BY <1>2, <1>3, BoundAssumption
<1>5. Snapped /\ session \in [Sessions -> SessionRecord]
  BY DEF RebuildInv, TypeOK, SessionType
<1>6. Snapped'
  <2>1. CASE Reply
    <3>1. PICK s \in Sessions : Goes(s, "xact")
      BY <2>1 DEF Reply
    <3>2. session'[s].at = "xact" /\ \A o \in Sessions \ {s} : session'[o] = session[o]
      BY <1>5, <3>1 DEF Goes, SessionRecord
    <3> QED BY <1>5, <3>2 DEF Snapped
  <2>2. CASE Fail
    BY <1>5, <2>2 DEF Fail, Snapped
  <2>3. CASE Crash
    BY <2>3 DEF Crash, Snapped, NoSession
  <2> QED BY <2>1, <2>2, <2>3
<1> QED BY <1>1, <1>2, <1>3, <1>4, <1>6, QuietStep

LEMMA RebuildKeeps ==
    ASSUME RebuildInv, Rebuild \/ Fail \/ Crash
    PROVE  RebuildInv'
  BY MarkKeeps, EndMarkKeeps, StartSweepKeeps, SweepKeeps, EndSweepKeeps, CreateMarkerKeeps,
     RenameKeeps, RemoveMarkerKeeps, EndKeeps DEF Rebuild

LEMMA StutterKeeps ==
    ASSUME RebuildInv, UNCHANGED vars
    PROVE  RebuildInv'
<1>1. UNCHANGED <<store, fresh, marker, rows, session, dblock, worker, live, todo, xacts, cleanups,
                  faults, truth, unseen>>
  BY DEF vars, files, locals, counters, ghosts
<1>2. Effective' = Effective /\ Asker' = Asker /\ Roots(Asker)' = Roots(Asker)
      /\ session'[Asker'] = session[Asker]
  BY <1>1, SameEffective, SameAsker
<1>3. TypeOK'
  BY <1>1, <1>2 DEF RebuildInv, TypeOK, SessionType, Nb
<1>4. Exclusive' /\ Snapped' /\ Phases'
  BY <1>1, <1>2 DEF RebuildInv, Exclusive, Alone, Snapped, Phases
<1>5. Marked' /\ Swept'
  BY <1>1, <1>2 DEF RebuildInv, Marked, Swept
<1>6. Rebuilt' /\ Remembered'
  BY <1>1, <1>2, RebuiltIs, RememberedIs DEF RebuildInv
<1> QED BY <1>3, <1>4, <1>5, <1>6 DEF RebuildInv

\* What the rebuild rests on is an invariant: where the worker is in the request,
\* what mark() has marked, what sweepInto has copied, and what the marker makes the
\* store, wherever a crash or a failure cuts the rebuild short.
THEOREM RebuildInvariant == Spec => []RebuildInv
<1>1. Init => RebuildInv BY InitRebuild
<1>2. RebuildInv /\ [Next]_vars => RebuildInv'
  BY StatementKeeps, CleanupKeeps, RebuildKeeps, StutterKeeps DEF Next
<1> QED BY <1>1, <1>2, PTL DEF Spec

\* The clean-up loses nothing it saw: from its first step to its last, and through
\* any crash or failure, every gate that the collected tokens are made of reads as
\* it did.
THEOREM CleanupKeepsSeen == Spec => []CleanupInv
<1>1. RebuildInv => CleanupInv
  BY DEF RebuildInv, CleanupInv, KeepsSeen, Remembered
<1> QED BY <1>1, RebuildInvariant, PTL

\* When the worker answers a clean-up that was not a dry run, check() finds nothing
\* wrong with the store, damaged as it may have been, and every record in it is one
\* that a collected token is made of.
THEOREM RebuiltAlwaysHealthy == Spec => []RebuiltIsHealthy
<1>1. ASSUME RebuildInv, worker = "reply", ~session[Asker].dry
      PROVE  Healthy(store) /\ OnlyReached(store, Roots(Asker))
  <2>1. ~marker
    BY <1>1 DEF RebuildInv, Phases
  <2>2. Effective = store
    BY <1>1, <2>1, UnmarkedFacts
  <2> QED BY <1>1, <2>2 DEF RebuildInv, Rebuilt
<1>2. RebuildInv => RebuiltIsHealthy
  BY <1>1 DEF RebuiltIsHealthy
<1> QED BY <1>2, RebuildInvariant, PTL
=============================================================================
