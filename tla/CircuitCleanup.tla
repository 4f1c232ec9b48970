--------------------------- MODULE CircuitCleanup ---------------------------
(***************************************************************************)
(* provsql.circuit_cleanup(): the one operation that removes gates.        *)
(*                                                                         *)
(* A session takes the database to itself, collects the tokens its         *)
(* snapshot shows (circuit_cleanup.c) and asks the worker to rebuild the   *)
(* store: mark what the tokens reach, write the rest of the store to four  *)
(* new files, close the store and rename the new files over the old ones,  *)
(* between the creation and the removal of a marker (MMappedCircuit.cpp).  *)
(* The server may crash between any two steps, and the worker may fail.    *)
(* The loops of the worker are loops here: a step is a turn.               *)
(*                                                                         *)
(* The rows of the tables are the tokens they hold; snapshots, commit and  *)
(* the lock on the database are PostgreSQL's.  Messages are applied when   *)
(* they are sent (PipeProtocol).  The info fields travel with the record,  *)
(* like its type, and are left out.                                        *)
(***************************************************************************)
EXTENDS Integers, Sequences, FiniteSets, SequencesExt

CONSTANTS
    Sessions,
    Tokens,
    Content,     \* [Tokens -> [type, children]]: what a token is derived from
    Literals,    \* the tokens of gate_zero and gate_one
    Stores,      \* the stores to start from, healthy or damaged
    RowTokens,   \* the tokens that sessions store in rows
    Rows,        \* the rows to start from
    Isolations,  \* the isolation levels in use: "rc", "rr"
    Probs,       \* the probabilities a record may hold
    One, NaN,    \* the probability 1, and no probability
    Bytes,       \* the bytes of the strings
    NOTHING,     \* an empty slot of the token table; no file
    MaxGates,    \* bound on the records of the gates file
    MaxXacts,    \* bound on the number of transactions
    MaxCleanups, \* bound on the number of calls of circuit_cleanup()
    MaxFaults    \* bound on the crashes and failures

ASSUME ContentAssumption ==
    /\ Content \in [Tokens -> [type : STRING, children : Seq(Tokens)]]
    /\ IsFiniteSet(Tokens) /\ Literals \subseteq Tokens /\ RowTokens \subseteq Tokens
    /\ Rows \subseteq RowTokens
ASSUME ConstantAssumption ==
    /\ Isolations \subseteq {"rc", "rr"}
    /\ NOTHING \notin Nat /\ NOTHING \notin Sessions /\ One # NaN /\ {One, NaN} \subseteq Probs
ASSUME BoundAssumption ==
    /\ MaxGates \in Nat /\ MaxXacts \in Nat /\ MaxCleanups \in Nat /\ MaxFaults \in Nat

Names == <<"mapping", "gates", "wires", "extra">>

\* A record of the gates file; a placeholder is an input.
GateTypes == {"input"} \cup {Content[t].type : t \in Tokens}
GateInformation ==
    [type : GateTypes, nb_children : Nat, children_idx : Nat, prob : Probs,
     extra_idx : Nat, extra_len : Nat]

\* What the four files hold.
MappingFile == [Tokens -> Nat \cup {NOTHING}]
GatesFile == [version : {1, 2}, recs : Seq(GateInformation)]
StoreFiles == [mapping : MappingFile, gates : GatesFile, wires : Seq(Tokens), extra : Seq(Bytes)]

\* What a gate reads as.
GateReadings == [type : GateTypes, children : Seq(Tokens), prob : Probs, extra : Seq(Bytes)]

ASSUME StoresAssumption ==
    /\ \A c \in Stores : c \in StoreFiles /\ Len(c.gates.recs) <= MaxGates
    /\ NOTHING \notin MappingFile /\ NOTHING \notin GatesFile
    /\ NOTHING \notin Seq(Tokens) /\ NOTHING \notin Seq(Bytes) /\ NOTHING \notin GateReadings

VARIABLES
    store,       \* the four live files
    fresh,       \* the four ".new" files: contents, or NOTHING
    marker,      \* provsql_cleanup.commit exists
    rows,        \* the tokens in the committed rows
    session,     \* each session: its transaction and where it is in the call
    dblock,      \* the session with the exclusive lock on the database, or NOTHING
    worker,      \* where the worker is in the request
    live,        \* the local `live` of cleanupStore
    todo,        \* the stack of mark(); then the live records that sweepInto has yet to copy
    xacts, cleanups, faults,
    truth,       \* history: what each token of the store must read as, or NOTHING
    unseen       \* history: tokens a sweep did not see that a stored token reaches

files    == <<store, fresh, marker>>
locals   == <<live, todo>>
counters == <<xacts, cleanups, faults>>
ghosts   == <<truth, unseen>>
vars     == <<files, rows, session, dblock, worker, locals, counters, ghosts>>

-----------------------------------------------------------------------------
(* Reading a store *)

Mapped(c, t) == c.mapping[t] # NOTHING
Nb(c) == Len(c.gates.recs)
RecordAt(c, i) == c.gates.recs[i + 1]

BadWires(c, r) == r.children_idx + r.nb_children > Len(c.wires)
BadExtra(c, r) == r.extra_idx + r.extra_len > Len(c.extra)
Sound(c, t) ==
    /\ Mapped(c, t) /\ c.mapping[t] < Nb(c)
    /\ ~BadWires(c, RecordAt(c, c.mapping[t])) /\ ~BadExtra(c, RecordAt(c, c.mapping[t]))

ChildrenOf(c, r) == SubSeq(c.wires, r.children_idx + 1, r.children_idx + r.nb_children)
ExtraOf(c, r) == SubSeq(c.extra, r.extra_idx + 1, r.extra_idx + r.extra_len)

carriesProb(type) == type \in {"input", "update", "mulinput"}

\* hasProb: a version-1 file cannot tell a probability of 1 from none.
hasProbOf(c, r) ==
    IF ~carriesProb(r.type) \/ (c.gates.version < 2 /\ r.prob = One) THEN NaN ELSE r.prob

Reading(c, t) ==
    LET r == RecordAt(c, c.mapping[t])
    IN [type |-> r.type, children |-> ChildrenOf(c, r), prob |-> hasProbOf(c, r),
        extra |-> ExtraOf(c, r)]

Readings(c) == [t \in Tokens |-> IF Sound(c, t) THEN Reading(c, t) ELSE NOTHING]

\* check(): nothing dangling, nothing out of range, nothing unreferenced.
Healthy(c) ==
    /\ \A t \in Tokens : Mapped(c, t) => Sound(c, t)
    /\ \A i \in 0..(Nb(c) - 1) : \E t \in Tokens : c.mapping[t] = i

\* The tokens that the circuits of ts are made of, as far as they can be read.
Reach(c, ts) ==
    LET kids(t) == IF Mapped(c, t) /\ c.mapping[t] < Nb(c) /\ ~BadWires(c, RecordAt(c, c.mapping[t]))
                   THEN ToSet(ChildrenOf(c, RecordAt(c, c.mapping[t]))) ELSE {}
        closed(S) == \A t \in S : kids(t) \subseteq S
    IN {t \in Tokens : \A S \in SUBSET Tokens : ts \subseteq S /\ closed(S) => t \in S}

-----------------------------------------------------------------------------
(* mark() and sweepInto() *)

\* The records of a set of tokens, and those of a record's children; a torn record
\* is not followed.
indices(c, ts) == {c.mapping[t] : t \in {u \in ts : Mapped(c, u) /\ c.mapping[u] < Nb(c)}}
follow(c, i) == IF BadWires(c, RecordAt(c, i)) THEN {}
                ELSE indices(c, ToSet(ChildrenOf(c, RecordAt(c, i))))

\* Mutant: a torn record keeps the number of its children.
Copied_TornCounts(c, out, i) ==
    LET r == RecordAt(c, i)
        children == IF BadWires(c, r) THEN <<>> ELSE ChildrenOf(c, r)
        str == IF BadExtra(c, r) THEN <<>> ELSE ExtraOf(c, r)
        legacy == c.gates.version < 2 /\ r.prob = One /\ carriesProb(r.type)
    IN [out EXCEPT
          !.gates.recs = Append(@, [r EXCEPT
              !.children_idx = Len(out.wires),
              !.extra_idx = IF str = <<>> THEN 0 ELSE Len(out.extra),
              !.extra_len = Len(str),
              !.prob = IF legacy THEN NaN ELSE @]),
          !.wires = @ \o children, !.extra = @ \o str]

\* One turn of the loop of sweepInto: the record, its wires and its string.
Copied(c, out, i) ==
    LET r == RecordAt(c, i)
        children == IF BadWires(c, r) THEN <<>> ELSE ChildrenOf(c, r)
        str == IF BadExtra(c, r) THEN <<>> ELSE ExtraOf(c, r)
        legacy == c.gates.version < 2 /\ r.prob = One /\ carriesProb(r.type)
    IN [out EXCEPT
          !.gates.recs = Append(@, [r EXCEPT
              !.children_idx = Len(out.wires), !.nb_children = Len(children),
              !.extra_idx = IF str = <<>> THEN 0 ELSE Len(out.extra),
              !.extra_len = Len(str),
              !.prob = IF legacy THEN NaN ELSE @]),
          !.wires = @ \o children, !.extra = @ \o str]

EmptyStore ==
    [mapping |-> [t \in Tokens |-> NOTHING], gates |-> [version |-> 2, recs |-> <<>>],
     wires |-> <<>>, extra |-> <<>>]

\* The new index of a live record: the records keep their order.
newidx(alive, i) == Cardinality({j \in alive : j < i})

\* The token table of the new store.
newmapping(c, alive) ==
    [t \in Tokens |-> IF Mapped(c, t) /\ c.mapping[t] \in alive
                      THEN newidx(alive, c.mapping[t]) ELSE NOTHING]

-----------------------------------------------------------------------------
(* Opening a store *)

NoFresh == [mapping |-> NOTHING, gates |-> NOTHING, wires |-> NOTHING, extra |-> NOTHING]

\* What the store is after finishInterruptedCleanup, which getCircuit calls before
\* it opens the files: with the marker the new files take their places, without
\* it they are discarded.  Every rename succeeds here: the code looks at the
\* result of none (MMappedCircuit.cpp 370-382), and removes the marker even if a
\* new file could not be renamed.
finishInterruptedCleanup ==
    LET opened(n) == IF marker /\ fresh[n] # NOTHING THEN fresh[n] ELSE store[n]
    IN [mapping |-> opened("mapping"), gates |-> opened("gates"),
        wires |-> opened("wires"), extra |-> opened("extra")]

\* The files are reopened: the store becomes what the recovery made of it.
getCircuit == store' = finishInterruptedCleanup /\ fresh' = NoFresh /\ marker' = FALSE

-----------------------------------------------------------------------------
(* Sessions *)

NoSession == [at |-> "out", iso |-> "rc", snap |-> NOTHING, ins |-> {}, del |-> {},
              written |-> FALSE, dry |-> FALSE]
Places == {"out", "idle", "xact", "failed", "lock", "count", "collect", "wait"}

Init ==
    /\ store \in Stores /\ fresh = NoFresh /\ marker = FALSE
    /\ rows = Rows
    /\ session = [s \in Sessions |-> NoSession]
    /\ dblock = NOTHING /\ worker = "idle" /\ live = {} /\ todo = {}
    /\ xacts = 0 /\ cleanups = 0 /\ faults = 0
    /\ truth = Readings(store) /\ unseen = {}

\* A session starts; its startup transaction waits for the lock on the database.
Connect(s) ==
    /\ session[s].at = "out" /\ dblock = NOTHING
    /\ session' = [session EXCEPT ![s] = [NoSession EXCEPT !.at = "idle"]]
    /\ UNCHANGED <<files, rows, dblock, worker, locals, counters, ghosts>>

Unlocked(s) == IF dblock = s THEN NOTHING ELSE dblock

\* The session ends; what its transaction did is rolled back.
Disconnect(s) ==
    /\ session[s].at \in {"idle", "xact", "failed"}
    /\ session' = [session EXCEPT ![s] = NoSession]
    /\ dblock' = Unlocked(s)
    /\ UNCHANGED <<files, rows, worker, locals, counters, ghosts>>

Begin(s) ==
    /\ session[s].at = "idle" /\ xacts < MaxXacts
    /\ \E iso \in Isolations :
          session' = [session EXCEPT ![s] = [NoSession EXCEPT !.at = "xact", !.iso = iso]]
    /\ xacts' = xacts + 1
    /\ UNCHANGED <<files, rows, dblock, worker, locals, cleanups, faults, ghosts>>

\* A statement's snapshot: a new one, or that of the transaction's first statement.
Snapshot(s) == IF session[s].iso = "rr" /\ session[s].snap # NOTHING THEN session[s].snap ELSE rows
Visible(s) == (Snapshot(s) \ session[s].del) \cup session[s].ins

\* The record that appendGate adds.
newRecord(c, type, nb) ==
    [type |-> type, nb_children |-> nb, children_idx |-> Len(c.wires), prob |-> NaN,
     extra_idx |-> 0, extra_len |-> 0]

\* The children that are missing get blank records, in the order of their first
\* occurrences.
addMissing(c, children) ==
    LET missing == {k \in DOMAIN children :
                       /\ ~Mapped(c, children[k])
                       /\ \A j \in 1..(k - 1) : children[j] # children[k]}
        place(k) == Nb(c) + newidx(missing, k)
    IN [c EXCEPT
          !.mapping = [u \in Tokens |->
              IF Mapped(c, u) \/ u \notin ToSet(children) THEN @[u]
              ELSE place(CHOOSE k \in missing : children[k] = u)],
          !.gates.recs = @ \o [k \in 1..Cardinality(missing) |-> newRecord(c, "input", 0)]]

\* createGate of the worker: a new gate, or the upgrade of a placeholder.
createGate(c, t) ==
    LET type == Content[t].type
        children == Content[t].children
        appended ==
            [c EXCEPT !.mapping[t] = Nb(c), !.wires = @ \o children,
                      !.gates.recs = Append(@, newRecord(c, type, Len(children)))]
        upgraded ==
            [c EXCEPT !.wires = @ \o children,
                      !.gates.recs[c.mapping[t] + 1] =
                          [@ EXCEPT !.type = type, !.nb_children = Len(children),
                                    !.children_idx = Len(c.wires)]]
        old == RecordAt(c, c.mapping[t])
    IN IF ~Mapped(c, t) THEN addMissing(appended, children)
       ELSE IF old.type = "input" /\ old.nb_children = 0 /\ (type # "input" \/ children # <<>>)
       THEN addMissing(upgraded, children)
       ELSE c

\* A statement computes a gate and stores its token in a row.  (Creating a token
\* that a crash left dangling is a matter of StoreDurability.)
StoreRow(s, t) ==
    /\ session[s].at = "xact" /\ worker = "idle" /\ t \notin Visible(s)
    /\ LET old == finishInterruptedCleanup
           new == createGate(old, t)
       IN /\ Mapped(old, t) => old.mapping[t] < Nb(old)
          /\ Nb(new) <= MaxGates
          /\ store' = new /\ fresh' = NoFresh /\ marker' = FALSE
          /\ truth' = [u \in Tokens |->
                         IF Readings(new)[u] # Readings(old)[u] THEN Readings(new)[u] ELSE truth[u]]
          /\ unseen' = {u \in unseen : ~Mapped(new, u)}
    /\ session' = [session EXCEPT ![s].ins = @ \cup {t}, ![s].written = TRUE,
                                  ![s].snap = Snapshot(s)]
    /\ UNCHANGED <<rows, dblock, worker, locals, counters>>

\* A statement deletes the rows with a token; this writes nothing to the store.
DropRow(s, t) ==
    /\ session[s].at = "xact" /\ t \in Visible(s)
    /\ session' = [session EXCEPT ![s].ins = @ \ {t}, ![s].del = @ \cup {t},
                                  ![s].snap = Snapshot(s)]
    /\ UNCHANGED <<files, rows, dblock, worker, locals, counters, ghosts>>

Commit(s) ==
    /\ session[s].at = "xact"
    /\ rows' = (rows \ session[s].del) \cup session[s].ins
    /\ session' = [session EXCEPT ![s] = [NoSession EXCEPT !.at = "idle"]]
    /\ dblock' = Unlocked(s)
    /\ UNCHANGED <<files, worker, locals, counters, ghosts>>

Rollback(s) ==
    /\ session[s].at \in {"xact", "failed"}
    /\ session' = [session EXCEPT ![s] = [NoSession EXCEPT !.at = "idle"]]
    /\ dblock' = Unlocked(s)
    /\ UNCHANGED <<files, rows, worker, locals, counters, ghosts>>

-----------------------------------------------------------------------------
(* circuit_cleanup() *)

Goes(s, at) == session' = [session EXCEPT ![s].at = at]

\* The statement starts, with its snapshot; it refuses a transaction that wrote.
CallCleanup(s) ==
    /\ session[s].at = "xact" /\ cleanups < MaxCleanups
    /\ cleanups' = cleanups + 1
    /\ \E dry \in BOOLEAN :
          session' = [session EXCEPT ![s].at = IF session[s].written THEN "failed" ELSE "lock",
                                     ![s].snap = Snapshot(s), ![s].dry = dry]
    /\ UNCHANGED <<files, rows, dblock, worker, locals, xacts, faults, ghosts>>

LockDatabase(s) ==
    /\ session[s].at = "lock" /\ dblock = NOTHING
    /\ dblock' = s /\ Goes(s, "count")
    /\ UNCHANGED <<files, rows, worker, locals, counters, ghosts>>

Alone(s) == \A o \in Sessions \ {s} : session[o].at = "out"

\* Mutant: the sessions already there are not waited for.
CountOtherDBBackends_NotCounted(s) ==
    /\ session[s].at = "count" /\ Goes(s, "collect")
    /\ UNCHANGED <<files, rows, dblock, worker, locals, counters, ghosts>>

\* CountOtherDBBackends looks for five seconds: the others leave or it gives up.
CountOtherDBBackends(s) ==
    /\ session[s].at = "count"
    /\ IF Alone(s) THEN Goes(s, "collect") ELSE Goes(s, "failed")
    /\ UNCHANGED <<files, rows, dblock, worker, locals, counters, ghosts>>

\* What collect_roots reads: the statement's snapshot, the transaction's own
\* changes, and the constants.
Roots(s) == ((session[s].snap \ session[s].del) \cup session[s].ins) \cup Literals

CollectRoots(s) ==
    /\ session[s].at = "collect" /\ worker = "idle"
    /\ getCircuit
    /\ live' = indices(finishInterruptedCleanup, Roots(s)) /\ todo' = live'
    /\ worker' = "mark" /\ Goes(s, "wait")
    /\ UNCHANGED <<rows, dblock, counters, ghosts>>

Reply ==
    /\ worker = "reply" /\ worker' = "idle" /\ live' = {} /\ todo' = {}
    /\ \E s \in Sessions : session[s].at = "wait" /\ Goes(s, "xact")
    /\ UNCHANGED <<files, rows, dblock, counters, ghosts>>

-----------------------------------------------------------------------------
(* cleanupStore in the worker *)

WorkerGoes(from, to) ==
    /\ worker = from /\ worker' = to
    /\ UNCHANGED <<rows, session, dblock, counters>>

Asker == CHOOSE s \in Sessions : session[s].at = "wait"

\* A turn of the loop of mark(): a record off the stack, its children on it.
Mark ==
    /\ todo # {} /\ WorkerGoes("mark", "mark")
    /\ \E i \in todo :
          LET found == follow(store, i) \ live
          IN live' = live \cup found /\ todo' = (todo \ {i}) \cup found
    /\ UNCHANGED <<files, ghosts>>

\* A dry run only counts.
EndMark ==
    /\ todo = {} /\ WorkerGoes("mark", IF session[Asker].dry THEN "reply" ELSE "unlink")
    /\ UNCHANGED <<files, locals, ghosts>>

\* The new files are unlinked if they are there, and created.
StartSweep ==
    /\ WorkerGoes("unlink", "sweep")
    /\ fresh' = EmptyStore /\ todo' = live
    /\ UNCHANGED <<store, marker, live, ghosts>>

\* A turn of the loop of sweepInto, over the live records in their order.
Sweep ==
    /\ WorkerGoes("sweep", "sweep")
    /\ \E i \in todo :
          /\ \A j \in todo : i <= j
          /\ fresh' = Copied(store, fresh, i) /\ todo' = todo \ {i}
    /\ UNCHANGED <<store, marker, live, ghosts>>

\* The token table is written; the new files are complete and forced to disk.
EndSweep ==
    /\ todo = {} /\ WorkerGoes("sweep", "marker")
    /\ fresh' = [fresh EXCEPT !.mapping = newmapping(store, live)]
    /\ UNCHANGED <<store, marker, locals, ghosts>>

\* From here on the new files are the store.
CreateMarker ==
    /\ WorkerGoes("marker", "rename")
    /\ marker' = TRUE
    /\ LET seen == Reach(store, Roots(Asker))
           stored == Reach(store, rows)
       IN /\ truth' = [t \in Tokens |-> IF t \in seen \cup stored THEN truth[t] ELSE NOTHING]
          /\ unseen' = unseen \cup {t \in stored \ seen : truth[t] # NOTHING}
    /\ UNCHANGED <<store, fresh, locals>>

\* The new files that have yet to take their places.
Left == {k \in DOMAIN Names : fresh[Names[k]] # NOTHING}

Rename ==
    /\ WorkerGoes("rename", "rename")
    /\ \E k \in Left :
          /\ \A j \in Left : k <= j
          /\ store' = [store EXCEPT ![Names[k]] = fresh[Names[k]]]
          /\ fresh' = [fresh EXCEPT ![Names[k]] = NOTHING]
    /\ UNCHANGED <<marker, locals, ghosts>>

\* Mutant: the marker is removed once the first file is in place.
RemoveMarker_Early ==
    /\ Cardinality(Left) < 4 /\ WorkerGoes("rename", IF Left = {} THEN "reply" ELSE "rename")
    /\ marker' = FALSE
    /\ UNCHANGED <<store, fresh, locals, ghosts>>

RemoveMarker ==
    /\ Left = {} /\ WorkerGoes("rename", "reply")
    /\ marker' = FALSE
    /\ UNCHANGED <<store, fresh, locals, ghosts>>

\* The marker cannot be created or a file not renamed: the worker exits, and its
\* asker goes on waiting.
Fail ==
    /\ worker \in {"marker", "rename"} /\ faults < MaxFaults
    /\ faults' = faults + 1 /\ worker' = "idle" /\ live' = {} /\ todo' = {}
    /\ UNCHANGED <<files, rows, session, dblock, xacts, cleanups, ghosts>>

\* The server crashes and restarts: the files stay as they are.
Crash ==
    /\ faults < MaxFaults
    /\ faults' = faults + 1
    /\ session' = [s \in Sessions |-> NoSession]
    /\ dblock' = NOTHING /\ worker' = "idle" /\ live' = {} /\ todo' = {}
    /\ UNCHANGED <<files, rows, xacts, cleanups, ghosts>>

Statement(s) ==
    \/ Connect(s) \/ Disconnect(s) \/ Begin(s) \/ Commit(s) \/ Rollback(s)
    \/ \E t \in RowTokens : StoreRow(s, t) \/ DropRow(s, t)
Cleanup(s) == CallCleanup(s) \/ LockDatabase(s) \/ CountOtherDBBackends(s) \/ CollectRoots(s)
Rebuild == Mark \/ EndMark \/ StartSweep \/ Sweep \/ EndSweep \/ CreateMarker \/ Rename \/ RemoveMarker \/ Reply

Next == (\E s \in Sessions : Statement(s) \/ Cleanup(s)) \/ Rebuild \/ Fail \/ Crash

Spec == Init /\ [][Next]_vars

-----------------------------------------------------------------------------
(* Properties *)

Effective == finishInterruptedCleanup
FreshFiles ==
    [mapping : MappingFile \cup {NOTHING}, gates : GatesFile \cup {NOTHING},
     wires : Seq(Tokens) \cup {NOTHING}, extra : Seq(Bytes) \cup {NOTHING}]

SessionRecord ==
    [at : Places, iso : {"rc", "rr"}, snap : (SUBSET Tokens) \cup {NOTHING},
     ins : SUBSET Tokens, del : SUBSET Tokens, written : BOOLEAN, dry : BOOLEAN]
SessionType == session \in [Sessions -> SessionRecord]

\* The variables have their types; the store never outgrows its bound, whichever of
\* its files were replaced.
TypeOK ==
    /\ store \in StoreFiles /\ fresh \in FreshFiles /\ Nb(Effective) <= MaxGates
    /\ marker \in BOOLEAN /\ rows \subseteq Tokens
    /\ SessionType
    /\ dblock \in Sessions \cup {NOTHING}
    /\ worker \in {"idle", "mark", "unlink", "sweep", "marker", "rename", "reply"}
    /\ live \subseteq 0..MaxGates /\ todo \subseteq live /\ unseen \subseteq Tokens
    /\ xacts \in 0..MaxXacts /\ cleanups \in 0..MaxCleanups /\ faults \in 0..MaxFaults

\* A clean-up, wherever a crash or a failure cuts it short, leaves every gate that
\* the tokens it saw are made of (and, before it takes effect, every gate) with
\* the type, children, probability and string it had.
KeepsSeen ==
    \A t \in Tokens : truth[t] # NOTHING /\ t \notin unseen =>
        Sound(Effective, t) /\ Reading(Effective, t) = truth[t]

\* With the types of the variables: the clean-up loses nothing it saw.
CleanupInv == TypeOK /\ KeepsSeen

\* Every record of a store is that of a gate the roots are made of.
OnlyReached(c, roots) ==
    \A t \in Tokens : Mapped(c, t) => \E u \in Reach(c, roots) : c.mapping[u] = c.mapping[t]

\* "The repair tool": when the worker answers, check() finds nothing wrong with the
\* store, and every gate in it is one a root is made of.
RebuiltIsHealthy ==
    worker = "reply" /\ ~session[Asker].dry =>
        Healthy(store) /\ OnlyReached(store, Roots(Asker))

\* "It takes the database to itself": from the moment the roots are collected to the
\* reply nobody else is connected.
TakenAlone == worker # "idle" => Alone(Asker)

\* Why: the lock on the database is held from the count to the reply, and once
\* the others have left it keeps them out.  The invariant TakenAlone rests on.
Exclusive ==
    /\ \A s \in Sessions :
          /\ session[s].at \in {"count", "collect", "wait"} => dblock = s
          /\ session[s].at \in {"collect", "wait"} => Alone(s)
    /\ worker # "idle" => \E s \in Sessions : session[s].at = "wait"
-----------------------------------------------------------------------------
(* The inductive invariant that CleanupInv and RebuiltIsHealthy rest on *)

\* Where the worker is in the request, and what is then in the new files.
Phases ==
    /\ worker \in {"mark", "unlink", "sweep", "marker", "reply"} => ~marker
    /\ worker = "rename" => marker
    /\ worker \in {"mark", "unlink", "reply"} => fresh = NoFresh
    /\ worker \in {"unlink", "marker"} => todo = {}
    /\ worker \in {"unlink", "sweep", "marker", "rename"} => ~session[Asker].dry

\* The statement that calls for a clean-up has its snapshot.
Snapped ==
    \A s \in Sessions :
        session[s].at \in {"lock", "count", "collect", "wait"} => session[s].snap \subseteq Tokens

\* Marked are the records of the roots and nothing that they do not reach; the
\* children of a marked record are marked, or it is on the stack.
MarkedFrom(c, roots, alive, stack) ==
    /\ indices(c, roots) \subseteq alive
    /\ alive \subseteq indices(c, Reach(c, roots))
    /\ \A i \in alive \ stack : follow(c, i) \subseteq alive

Marked ==
    /\ worker = "mark" => MarkedFrom(store, Roots(Asker), live, todo)
    /\ worker \in {"unlink", "sweep", "marker"} => MarkedFrom(store, Roots(Asker), live, {})

\* Record k of d says what record i of c does, without what cannot be read of that.
CopyOf(c, i, d, k) ==
    LET r == RecordAt(c, i)
        q == RecordAt(d, k)
    IN /\ ~BadWires(d, q) /\ ~BadExtra(d, q)
       /\ q.type = r.type /\ hasProbOf(d, q) = hasProbOf(c, r)
       /\ ChildrenOf(d, q) = IF BadWires(c, r) THEN <<>> ELSE ChildrenOf(c, r)
       /\ ExtraOf(d, q) = IF BadExtra(c, r) THEN <<>> ELSE ExtraOf(c, r)

\* The new files hold a copy of each live record that was passed, at its new index,
\* and nothing else.
SweptFrom(c, d, alive, rest) ==
    /\ d \in StoreFiles /\ d.gates.version = 2
    /\ \A i \in alive \ rest, j \in rest : i < j
    /\ Nb(d) = Cardinality(alive \ rest)
    /\ \A i \in alive \ rest : CopyOf(c, i, d, newidx(alive, i))
    /\ \A k \in 0..(Nb(d) - 1) : \E i \in alive \ rest : k = newidx(alive, i)

Swept ==
    /\ worker = "sweep" => SweptFrom(store, fresh, live, todo)
    /\ worker = "marker" =>
          SweptFrom(store, fresh, live, {}) /\ fresh.mapping = newmapping(store, live)

\* From the marker on, the store to be opened is the rebuilt one.
Rebuilt ==
    worker \in {"rename", "reply"} /\ ~session[Asker].dry =>
        Healthy(Effective) /\ OnlyReached(Effective, Roots(Asker))

\* KeepsSeen, and what is not kept is not there.
Remembered ==
    \A t \in Tokens : truth[t] # NOTHING =>
        \/ Sound(Effective, t) /\ Reading(Effective, t) = truth[t]
        \/ t \in unseen /\ ~Mapped(Effective, t)

RebuildInv ==
    TypeOK /\ Exclusive /\ Snapped /\ Phases /\ Marked /\ Swept /\ Rebuilt /\ Remembered
=============================================================================
