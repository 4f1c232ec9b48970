-------------------------- MODULE StoreDurability ---------------------------
(***************************************************************************)
(* What a crash of the machine leaves of the circuit store.                *)
(*                                                                         *)
(* Sessions create gates and commit, with or without the barrier of        *)
(* provsql.synchronous_commit (provsql_mmap.c).  The worker applies the    *)
(* creations to its mappings of the files, forces the files out when it is *)
(* asked to or when it has been idle (MMappedCircuit.cpp), and may be      *)
(* stopped and restarted.  A machine crash leaves of each word of the      *)
(* files any value it had since the file was last forced: the kernel may   *)
(* write back any page at any time.  `could' holds those values.           *)
(*                                                                         *)
(* Left out: annotations (the extra file is forced like the wires), the    *)
(* text of messages (PipeProtocol) and stores half-way through a message   *)
(* (MMappedCircuit; a crash of the machine there leaves nothing that one   *)
(* after the message does not).                                            *)
(***************************************************************************)
EXTENDS Integers, Sequences, FiniteSets

CONSTANTS
    Sessions,
    Tokens,
    Content,     \* [Tokens -> [type, children]]: what a token is derived from
    NOTHING,     \* an empty slot of the token table
    GrowAt,      \* the numbers of entries at which the token table is rebuilt
    MaxGates,    \* bound on the records of the gates file
    MaxWires,    \* bound on the elements of the wires file
    MaxPipe,     \* bound on the messages in the pipe
    MaxXacts,    \* bound on the number of transactions
    MaxStops,    \* bound on the restarts of the worker
    MaxCrashes   \* bound on the crashes of the machine

ASSUME ContentAssumption ==
    /\ Content \in [Tokens -> [type : STRING, children : Seq(Tokens)]]
    /\ IsFiniteSet(Tokens)
ASSUME ConstantAssumption ==
    /\ NOTHING \notin Nat /\ GrowAt \subseteq Nat
ASSUME BoundAssumption ==
    /\ MaxGates \in Nat /\ MaxWires \in Nat /\ MaxPipe \in Nat /\ MaxXacts \in Nat
    /\ MaxStops \in Nat /\ MaxCrashes \in Nat

(* An instance of Content: a leaf and a gate over it.                      *)
LeafAndGate ==
    [t \in {"leaf", "gate"} |-> IF t = "gate" THEN [type |-> "times", children |-> <<"leaf">>]
                                ELSE [type |-> "input", children |-> <<>>]]

VARIABLES
    mem,         \* the files as the worker and the page cache have them
    could,       \* for each word of the files, the values a crash may leave
    pipe,        \* the messages the worker has not read
    worker,      \* where the worker is
    syncing,     \* the flush in progress is the answer to an 'S'
    opened,      \* circuits[db_oid] exists in the worker
    store_dirty, \* the worker's store_dirty
    xact,        \* the transaction of each session
    xacts, stops, crashes,
    synced,      \* history: tokens created in a transaction that committed
                 \*   after its barrier was acknowledged
    excused,     \* history: tokens a crash left mapped to something else
    exposed      \* history: tokens a stopped worker had applied and not forced

counters == <<xacts, stops, crashes>>
ghosts   == <<synced, excused, exposed>>
vars     == <<mem, could, pipe, worker, syncing, opened, store_dirty, xact, counters, ghosts>>

-----------------------------------------------------------------------------
(* The files *)

GateIdx == 0..(MaxGates - 1)
WireIdx == 0..(MaxWires - 1)

Record(type, nb, idx) == [type |-> type, nb_children |-> nb, children_idx |-> idx]
\* A slot nothing was stored in: zero bytes, which read as an input gate.
Blank == Record("input", 0, 0)

Types == {Content[t].type : t \in Tokens} \cup {"input"}
Records == [type : Types, nb_children : 0..MaxWires, children_idx : 0..MaxWires]

FilesType(m) ==
    /\ m.mapping \in [Tokens -> GateIdx \cup {NOTHING}]
    /\ m.gates \in [GateIdx -> Records] /\ m.nb_gates \in 0..MaxGates
    /\ m.wires \in [WireIdx -> Tokens \cup {NOTHING}] /\ m.nb_wires \in 0..MaxWires

NewFiles ==
    [mapping |-> [t \in Tokens |-> NOTHING], gates |-> [i \in GateIdx |-> Blank],
     nb_gates |-> 0, wires |-> [i \in WireIdx |-> NOTHING], nb_wires |-> 0]

Mapped(m, t) == m.mapping[t] # NOTHING
RecordOf(m, t) == m.gates[m.mapping[t]]
Placeholder(r) == r.type = "input" /\ r.nb_children = 0

\* The token leads to a record, and the record to children, that are in the files.
InFiles(m, t) ==
    /\ Mapped(m, t) /\ m.mapping[t] < m.nb_gates
    /\ RecordOf(m, t).children_idx + RecordOf(m, t).nb_children <= m.nb_wires

getChildren(m, t) ==
    LET r == RecordOf(m, t) IN [i \in 1..r.nb_children |-> m.wires[r.children_idx + i - 1]]

\* What the readers report, which compare the index and the range with no count.
ReadsAs(m, t) ==
    /\ Mapped(m, t)
    /\ RecordOf(m, t).type = Content[t].type /\ getChildren(m, t) = Content[t].children

ReadsBack(m, t) == InFiles(m, t) /\ ReadsAs(m, t)

-----------------------------------------------------------------------------
(* What a crash may leave *)

Only(m) ==
    [mapping |-> [t \in Tokens |-> {m.mapping[t]}], gates |-> [i \in GateIdx |-> {m.gates[i]}],
     nb_gates |-> {m.nb_gates}, wires |-> [i \in WireIdx |-> {m.wires[i]}],
     nb_wires |-> {m.nb_wires}]

\* The words of m were stored to the mappings; they may or may not reach the disk.
Stored(c, m) ==
    [mapping |-> [t \in Tokens |-> c.mapping[t] \cup {m.mapping[t]}],
     gates |-> [i \in GateIdx |-> c.gates[i] \cup {m.gates[i]}],
     nb_gates |-> c.nb_gates \cup {m.nb_gates},
     wires |-> [i \in WireIdx |-> c.wires[i] \cup {m.wires[i]}],
     nb_wires |-> c.nb_wires \cup {m.nb_wires}]

\* MappedRegion::flush of one file.
ForceMapping(c, m) == [c EXCEPT !.mapping = Only(m).mapping]
ForceGates(c, m) == [c EXCEPT !.gates = Only(m).gates, !.nb_gates = {m.nb_gates}]
ForceWires(c, m) == [c EXCEPT !.wires = Only(m).wires, !.nb_wires = {m.nb_wires}]

Pick(S, choices) == {f \in [S -> UNION {choices[x] : x \in S}] : \A x \in S : f[x] \in choices[x]}
Outcomes(c) ==
    [mapping : Pick(Tokens, c.mapping), gates : Pick(GateIdx, c.gates), nb_gates : c.nb_gates,
     wires : Pick(WireIdx, c.wires), nb_wires : c.nb_wires]

\* No crash can take the token away: every word that leads to it is on disk.
Settled(t) ==
    LET r == RecordOf(mem, t) IN
    /\ could.mapping[t] = {mem.mapping[t]} /\ could.gates[mem.mapping[t]] = {r}
    /\ \A n \in could.nb_gates : mem.mapping[t] < n
    /\ \A n \in could.nb_wires : r.children_idx + r.nb_children <= n
    /\ \A i \in r.children_idx..(r.children_idx + r.nb_children - 1) :
          could.wires[i] = {mem.wires[i]}

-----------------------------------------------------------------------------
(* appendGate and the upgrade of createGate, on the files *)

\* wires.add, once for each child.
WithWires(m, children) ==
    [i \in WireIdx |-> IF i \in m.nb_wires..(m.nb_wires + Len(children) - 1)
                       THEN children[i - m.nb_wires + 1] ELSE m.wires[i]]

appendGate(m, t, type, children) ==
    [mapping |-> [m.mapping EXCEPT ![t] = m.nb_gates],
     gates |-> [m.gates EXCEPT ![m.nb_gates] = Record(type, Len(children), m.nb_wires)],
     nb_gates |-> m.nb_gates + 1,
     wires |-> WithWires(m, children), nb_wires |-> m.nb_wires + Len(children)]

\* An upgrade writes the record in place, wherever the index leads.
upgrade(m, t, type, children) ==
    [mapping |-> m.mapping,
     gates |-> [m.gates EXCEPT ![m.mapping[t]] = Record(type, Len(children), m.nb_wires)],
     nb_gates |-> m.nb_gates,
     wires |-> WithWires(m, children), nb_wires |-> m.nb_wires + Len(children)]

\* Before it publishes an entry that would overload the table, publish() calls
\* grow(), which writes the whole table to a new file, forces it and renames it.
Grown(c, m) ==
    IF Cardinality({t \in Tokens : Mapped(m, t)}) \in GrowAt THEN ForceMapping(c, m) ELSE c

-----------------------------------------------------------------------------
(* Sessions *)

NoXact == [state |-> "none", made |-> {}]
Xacts == [state : {"none", "open", "barrier"}, made : SUBSET Tokens]
Messages == [op : {"C"}, token : Tokens, from : Sessions] \cup [op : {"S"}, from : Sessions]

Init ==
    /\ mem = NewFiles /\ could = Only(NewFiles)
    /\ pipe = <<>> /\ worker = "poll" /\ syncing = FALSE /\ opened = FALSE /\ store_dirty = FALSE
    /\ xact = [s \in Sessions |-> NoXact]
    /\ xacts = 0 /\ stops = 0 /\ crashes = 0
    /\ synced = {} /\ excused = {} /\ exposed = {}

Begin(s) ==
    /\ xact[s].state = "none" /\ xacts < MaxXacts
    /\ xact' = [xact EXCEPT ![s].state = "open"]
    /\ xacts' = xacts + 1
    /\ UNCHANGED <<mem, could, pipe, worker, syncing, opened, store_dirty, stops, crashes, ghosts>>

\* provsql_internal_create_gate: notes the write and does not wait.
CreateGate(s, t) ==
    /\ xact[s].state = "open" /\ Len(pipe) < MaxPipe
    /\ t \notin xact[s].made
    /\ xact' = [xact EXCEPT ![s].made = @ \cup {t}]
    /\ pipe' = Append(pipe, [op |-> "C", token |-> t, from |-> s])
    /\ UNCHANGED <<mem, could, worker, syncing, opened, store_dirty, counters, ghosts>>

\* The barrier of provsql_store_xact_callback at PRE_COMMIT.
Barrier(s) ==
    /\ xact[s].state = "open" /\ xact[s].made # {} /\ Len(pipe) < MaxPipe
    /\ xact' = [xact EXCEPT ![s].state = "barrier"]
    /\ pipe' = Append(pipe, [op |-> "S", from |-> s])
    /\ UNCHANGED <<mem, could, worker, syncing, opened, store_dirty, counters, ghosts>>

\* A commit without the barrier, and a rollback, leave the gates where they are.
EndNow(s) ==
    /\ xact[s].state = "open"
    /\ xact' = [xact EXCEPT ![s] = NoXact]
    /\ UNCHANGED <<mem, could, pipe, worker, syncing, opened, store_dirty, counters, ghosts>>

-----------------------------------------------------------------------------
(* The worker *)

Room(t) ==
    LET children == Content[t].children
        new == {u \in {t} \cup {children[i] : i \in 1..Len(children)} : ~Mapped(mem, u)}
    IN /\ mem.nb_gates + Cardinality(new) <= MaxGates
       /\ mem.nb_wires + Len(children) <= MaxWires

Reads(op) == worker = "poll" /\ pipe # <<>> /\ Head(pipe).op = op

StoreGate(t, type, children) ==
    /\ mem' = appendGate(mem, t, type, children)
    /\ could' = Stored(Grown(could, mem), mem')

\* createGate, up to its loop over the children.
createGate(t, type, children) ==
    LET real_create == type # "input" \/ children # <<>> IN
    \/ /\ ~Mapped(mem, t) /\ Room(t)
       /\ StoreGate(t, type, children)
       /\ worker' = "kids" /\ UNCHANGED pipe
    \/ /\ Mapped(mem, t) /\ Placeholder(RecordOf(mem, t)) /\ real_create /\ Room(t)
       /\ mem' = upgrade(mem, t, type, children)
       /\ could' = Stored(could, mem')
       /\ worker' = "kids" /\ UNCHANGED pipe
    \/ /\ Mapped(mem, t) /\ ~(Placeholder(RecordOf(mem, t)) /\ real_create)
       /\ pipe' = Tail(pipe) /\ UNCHANGED <<mem, could, worker>>

\* Mutant: creations do not count as something to force out.
ApplyCreate_NotDirty ==
    /\ Reads("C")
    /\ LET t == Head(pipe).token IN createGate(t, Content[t].type, Content[t].children)
    /\ opened' = TRUE
    /\ UNCHANGED <<syncing, store_dirty, xact, counters, ghosts>>

\* The case 'C' of provsql_mmap_dispatch, which opens the store if need be.
ApplyCreate ==
    /\ Reads("C")
    /\ LET t == Head(pipe).token IN createGate(t, Content[t].type, Content[t].children)
    /\ opened' = TRUE /\ store_dirty' = TRUE
    /\ UNCHANGED <<syncing, xact, counters, ghosts>>

UnmappedKids ==
    LET children == Content[Head(pipe).token].children
    IN {i \in 1..Len(children) : ~Mapped(mem, children[i])}

\* The loop over the children of a gate that was appended or upgraded.
LazyAdd ==
    /\ worker = "kids" /\ UnmappedKids # {}
    /\ \E i \in UnmappedKids :
          /\ \A j \in UnmappedKids : i <= j
          /\ StoreGate(Content[Head(pipe).token].children[i], "input", <<>>)
    /\ UNCHANGED <<pipe, worker, syncing, opened, store_dirty, xact, counters, ghosts>>

EndCreate ==
    /\ worker = "kids" /\ UnmappedKids = {}
    /\ worker' = "poll" /\ pipe' = Tail(pipe)
    /\ UNCHANGED <<mem, could, syncing, opened, store_dirty, xact, counters, ghosts>>

\* The worker starts to flush: the case 'S', which like every message opens the
\* store if need be, or the time-out of the poll while there is something to force.
StartFlush ==
    /\ \/ Reads("S") /\ opened' = TRUE /\ syncing' = TRUE
       \/ worker = "poll" /\ pipe = <<>> /\ store_dirty /\ UNCHANGED <<opened, syncing>>
    /\ worker' = "wires"
    /\ UNCHANGED <<mem, could, pipe, store_dirty, xact, counters, ghosts>>

FlushFile(at, forced, next) ==
    /\ worker = at
    /\ could' = forced /\ worker' = next
    /\ UNCHANGED <<mem, pipe, syncing, opened, store_dirty, xact, counters, synced, excused>>

FlushWires == FlushFile("wires", ForceWires(could, mem), "gates") /\ UNCHANGED exposed
\* Mutant: the gates file is left to the kernel.
FlushGates_Skipped == FlushFile("gates", could, "mapping") /\ UNCHANGED exposed

FlushGates == FlushFile("gates", ForceGates(could, mem), "mapping") /\ UNCHANGED exposed
FlushMapping == FlushFile("mapping", ForceMapping(could, mem), "flushed") /\ exposed' = {}

\* store_dirty is reset; if it was for an 'S', its sender reads the reply and commits.
EndFlush ==
    /\ worker = "flushed"
    /\ worker' = "poll" /\ store_dirty' = FALSE
    /\ syncing' = FALSE
    /\ IF syncing
       THEN LET s == Head(pipe).from IN
            /\ pipe' = Tail(pipe)
            /\ synced' = synced \cup xact[s].made
            /\ xact' = [xact EXCEPT ![s] = NoXact]
       ELSE UNCHANGED <<pipe, synced, xact>>
    /\ UNCHANGED <<mem, could, opened, counters, excused, exposed>>

\* The worker is terminated while it waits for a message, and restarted.  Its
\* objects are not destroyed; the pipe and the page cache outlive it.
Stop ==
    /\ worker = "poll" /\ stops < MaxStops
    /\ stops' = stops + 1
    /\ opened' = FALSE /\ store_dirty' = FALSE
    /\ exposed' = exposed \cup {t \in Tokens : Mapped(mem, t) /\ ~Settled(t)}
    /\ UNCHANGED <<mem, could, pipe, worker, syncing, xact, xacts, crashes, synced, excused>>

-----------------------------------------------------------------------------
(* The machine *)

\* A token that a crash left mapped, to a record that is not there, is torn or
\* belongs to another, and that creating it again will not mend.
Damaged(m, t) ==
    /\ Mapped(m, t)
    /\ ~InFiles(m, t) \/ ~(ReadsBack(m, t) \/ Placeholder(RecordOf(m, t)))

Crash ==
    /\ crashes < MaxCrashes
    /\ crashes' = crashes + 1
    /\ mem' \in Outcomes(could) /\ could' = Only(mem')
    /\ pipe' = <<>> /\ worker' = "poll" /\ syncing' = FALSE /\ opened' = FALSE /\ store_dirty' = FALSE
    /\ xact' = [s \in Sessions |-> NoXact]
    /\ excused' = excused \cup {t \in Tokens : Damaged(mem', t)}
    /\ exposed' = {}
    /\ UNCHANGED <<xacts, stops, synced>>

Client(s) == Begin(s) \/ (\E t \in Tokens : CreateGate(s, t)) \/ Barrier(s) \/ EndNow(s)
Work == ApplyCreate \/ LazyAdd \/ EndCreate \/ StartFlush \/ FlushWires \/ FlushGates \/ FlushMapping \/ EndFlush

Next == (\E s \in Sessions : Client(s)) \/ Work \/ Stop \/ Crash

Spec == Init /\ [][Next]_vars

\* The worker is a running process: it takes each step it can.
FairSpec == Spec /\ WF_vars(Work)

-----------------------------------------------------------------------------
(* Properties *)

\* The variables have their types, at most one flush is in progress, and what the
\* worker sees of a file is always among what a crash may leave of it.
TypeOK ==
    /\ FilesType(mem)
    /\ \A t \in Tokens : mem.mapping[t] \in could.mapping[t]
    /\ \A i \in GateIdx : mem.gates[i] \in could.gates[i]
    /\ \A i \in WireIdx : mem.wires[i] \in could.wires[i]
    /\ mem.nb_gates \in could.nb_gates /\ mem.nb_wires \in could.nb_wires
    /\ pipe \in Seq(Messages) /\ Len(pipe) <= MaxPipe
    /\ worker \in {"poll", "kids", "wires", "gates", "mapping", "flushed"}
    /\ syncing \in BOOLEAN /\ opened \in BOOLEAN /\ store_dirty \in BOOLEAN
    /\ xact \in [Sessions -> Xacts]
    /\ xacts \in 0..MaxXacts /\ stops \in 0..MaxStops /\ crashes \in 0..MaxCrashes
    /\ synced \subseteq Tokens /\ excused \subseteq Tokens /\ exposed \subseteq Tokens

Aliased(t) == \E u \in excused \ {t} : mem.mapping[u] = mem.mapping[t]

\* The barrier of provsql.synchronous_commit: a gate of a transaction that
\* committed after its acknowledgement is on disk, all of it, and reads back as
\* it was created, across crashes of the machine and restarts of the worker.
\* Excepted are the tokens an earlier crash left mapped to another record.
BarrierHolds ==
    \A t \in synced \ excused :
        Aliased(t) \/ (ReadsBack(mem, t) /\ Settled(t))

\* With the types of the variables: what was forced before a commit is on disk.
DurableInv == TypeOK /\ BarrierHolds

\* "A fraction of a second after the last write": what is applied gets forced out
\* (or a crash of the machine takes it first), unless the worker was stopped.
EventuallyForced ==
    \A t \in Tokens :
        Mapped(mem, t) ~> (~Mapped(mem, t) \/ Settled(t) \/ t \in excused \cup exposed)
-----------------------------------------------------------------------------
(* The strengthening of DurableInv that is inductive.                       *)

CouldType ==
    could \in [mapping : [Tokens -> SUBSET (GateIdx \cup {NOTHING})],
               gates : [GateIdx -> SUBSET Records], nb_gates : SUBSET (0..MaxGates),
               wires : [WireIdx -> SUBSET (Tokens \cup {NOTHING})],
               nb_wires : SUBSET (0..MaxWires)]

\* What a token that was created must keep to, whatever crashes came before.
Good(t) == t \in excused \/ Aliased(t) \/ ReadsBack(mem, t)

\* An entry of the table is only written where there was none, so that a crash
\* takes it back or leaves it; and only a token an earlier crash damaged can
\* lead to a record that is given out again.
IndexInv ==
    /\ \A t \in Tokens : could.mapping[t] \subseteq {NOTHING, mem.mapping[t]}
    /\ \A t \in excused \cup synced : Mapped(mem, t) /\ could.mapping[t] = {mem.mapping[t]}
    /\ \A t \in Tokens \ excused : Mapped(mem, t) =>
          /\ mem.mapping[t] < mem.nb_gates
          /\ Good(t) \/ (InFiles(mem, t) /\ Placeholder(RecordOf(mem, t)))
    /\ \A t, u \in Tokens :
          t # u /\ Mapped(mem, t) /\ mem.mapping[t] = mem.mapping[u] =>
              t \in excused \/ u \in excused

MissingKids(t) ==
    {u \in {Content[t].children[i] : i \in 1..Len(Content[t].children)} : ~Mapped(mem, u)}

\* How far the worker is with the message, or with forcing the files out.
WorkerInv ==
    /\ worker = "kids" =>
          /\ pipe # <<>> /\ Head(pipe).op = "C" /\ Good(Head(pipe).token)
          /\ mem.nb_gates + Cardinality(MissingKids(Head(pipe).token)) <= MaxGates
    /\ syncing => worker \notin {"poll", "kids"} /\ pipe # <<>> /\ Head(pipe).op = "S"
    /\ worker \in {"gates", "mapping", "flushed"} =>
          could.wires = Only(mem).wires /\ could.nb_wires = {mem.nb_wires}
    /\ worker \in {"mapping", "flushed"} =>
          could.gates = Only(mem).gates /\ could.nb_gates = {mem.nb_gates}
    /\ worker = "flushed" => could.mapping = Only(mem).mapping

\* The token was created, or will be by one of the first n messages.
Created(t, n) == Good(t) \/ \E j \in 1..n : pipe[j].op = "C" /\ pipe[j].token = t

\* When the worker comes to an 'S', it has applied what its sender created.
PendingInv ==
    /\ \A s \in Sessions :
          /\ xact[s].state = "none" => xact[s].made = {}
          /\ xact[s].state = "open" => \A t \in xact[s].made : Created(t, Len(pipe))
    /\ \A i \in 1..Len(pipe) : pipe[i].op = "S" =>
          /\ xact[pipe[i].from].state = "barrier"
          /\ \A t \in xact[pipe[i].from].made : Created(t, i - 1)
    /\ \A i, j \in 1..Len(pipe) :
          pipe[i].op = "S" /\ pipe[j].op = "S" /\ pipe[i].from = pipe[j].from => i = j

DurabilityInv == DurableInv /\ CouldType /\ IndexInv /\ WorkerInv /\ PendingInv
=============================================================================
