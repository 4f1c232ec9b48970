-------------------------- MODULE ProbabilityStore --------------------------
(***************************************************************************)
(* Write-once probabilities and their rollback (probability_store.c).      *)
(*                                                                         *)
(* The store keeps one probability per gate and knows nothing of           *)
(* transactions.  Each backend keeps a list of the probabilities its       *)
(* transaction wrote, with the nesting level of the subtransaction, and    *)
(* clears them, one message at a time, when that (sub)transaction aborts.  *)
(* The same file keeps the list of replacement leaves of the transaction.  *)
(*                                                                         *)
(* PostgreSQL's transaction blocks and savepoints, and when it calls the   *)
(* (sub)transaction callbacks, are external to the code.                   *)
(***************************************************************************)
EXTENDS Integers, Sequences, FiniteSets

CONSTANTS
    Sessions,
    Tokens,
    Gate,        \* [Tokens -> [type, children]]: the circuit, as fetch_gate reports it
    Probs,       \* the probabilities users write
    NaN,         \* no probability
    Offers,      \* [Sessions -> SUBSET (Tokens \X Probs)]: its set_prob() calls
    Leaves,      \* [Sessions -> SUBSET Tokens]: the leaves a session mints
    MaxNest,     \* bound on the nesting of subtransactions
    MaxXacts,    \* bound on the number of transactions
    MaxFaults    \* bound on the clear requests that fail and server crashes

ASSUME GateAssumption ==
    /\ Gate \in [Tokens -> [type : STRING, children : Seq(Tokens)]]
    /\ IsFiniteSet(Tokens)
ASSUME ProbAssumption == NaN \notin Probs
ASSUME SessionAssumption ==
    /\ Offers \in [Sessions -> SUBSET (Tokens \X Probs)]
    /\ Leaves \in [Sessions -> SUBSET Tokens]
ASSUME BoundAssumption ==
    /\ MaxNest \in Nat \ {0} /\ MaxXacts \in Nat
    /\ MaxFaults \in Nat

VARIABLES
    prob,        \* the probabilities in the store
    level,       \* GetCurrentTransactionNestLevel() of each session, 0 outside
    failed,      \* the current subtransaction has aborted; only a rollback helps
    writes,      \* prob_writes of each session
    registered,  \* prob_callbacks_registered of each session
    fresh,       \* fresh_leaves of each session
    undo,        \* the abort in progress in each session
    xacts,       \* how many transactions began
    faults,      \* how many clear requests failed or crashes happened
    vouched,     \* history: what set_prob accepted in the live subtransactions,
                 \*   and whether it wrote it or found it there
    committed,   \* history: what set_prob accepted in committed transactions
    kept,        \* history: what committed transactions themselves wrote
    excused      \* history: tokens a warning said could not be cleared, or whose
                 \*   undo list was lost in a crash

session == <<level, failed, registered, fresh, undo, xacts>>
ghosts  == <<vouched, committed, kept, excused>>
vars    == <<prob, writes, session, faults, ghosts>>

-----------------------------------------------------------------------------
Levels == 1..MaxNest
ProbWrite == [token : Tokens, nest_level : Levels]

\* The abort of every level from the current one down to `goal` (1 is the
\* whole transaction); `at' and `keep' are the positions in the loop of
\* prob_writes_unwind, and `clear' its argument undo.  An error aborts its own
\* level only and leaves the block failed.
NoUndo == [goal |-> 0, at |-> 0, keep |-> 0, error |-> FALSE, clear |-> FALSE]
Undos == [goal : 0..MaxNest, at : Nat, keep : Nat, error : BOOLEAN, clear : BOOLEAN]

Loop(n, error, clear) == [goal |-> n, at |-> 1, keep |-> 0, error |-> error, clear |-> clear]
NextTurn(u, k) == [goal |-> u.goal, at |-> u.at + 1, keep |-> k, error |-> u.error, clear |-> u.clear]

carriesProb(t) == Gate[t].type \in {"input", "update", "mulinput"}

\* The loop of set_prob() through transparent annotation wrappers.
Peel(t) ==
    LET wrapper(x) == Gate[x].type = "annotation" /\ Len(Gate[x].children) = 1
        peel[n \in 0..Cardinality(Tokens)] ==
            IF n = 0 THEN t
            ELSE IF wrapper(peel[n - 1]) THEN Gate[peel[n - 1]].children[1]
            ELSE peel[n - 1]
    IN peel[Cardinality(Tokens)]

\* MMappedCircuit::setProb for a value that is not NaN.
SetProbResult(t, p) ==
    IF ~carriesProb(t) THEN "NotProbGate"
    ELSE IF prob[t] = NaN THEN "Written"
    ELSE IF prob[t] = p THEN "Unchanged"
    ELSE "AlreadySet"

Active(s) == level[s] > 0 /\ ~failed[s] /\ undo[s] = NoUndo

\* prob_writes_unwind(0, true) for the transaction, (level, true) below it.
UnwindFrom(s) == IF level[s] = 1 THEN 0 ELSE level[s]

\* The sessions that may write to gate t, through an annotation or not.
Writers(t) == {s \in Sessions : \E o \in Offers[s] : Peel(o[1]) = t}

Init ==
    /\ prob = [t \in Tokens |-> NaN]
    /\ level = [s \in Sessions |-> 0]
    /\ failed = [s \in Sessions |-> FALSE]
    /\ writes = [s \in Sessions |-> <<>>]
    /\ registered = [s \in Sessions |-> FALSE]
    /\ fresh = [s \in Sessions |-> {}]
    /\ undo = [s \in Sessions |-> NoUndo]
    /\ xacts = 0 /\ faults = 0
    /\ vouched = [s \in Sessions |-> [l \in Levels |-> {}]]
    /\ committed = {} /\ kept = {} /\ excused = {}

-----------------------------------------------------------------------------
(* Transaction blocks (PostgreSQL) and the callbacks they run *)

Begin(s) ==
    /\ level[s] = 0 /\ xacts < MaxXacts
    /\ level' = [level EXCEPT ![s] = 1]
    /\ xacts' = xacts + 1
    /\ UNCHANGED <<prob, writes, failed, registered, fresh, undo, faults, ghosts>>

Savepoint(s) ==
    /\ Active(s) /\ level[s] < MaxNest
    /\ level' = [level EXCEPT ![s] = @ + 1]
    /\ UNCHANGED <<prob, writes, failed, registered, fresh, undo, xacts, faults, ghosts>>

\* Mutant: the writes of a released savepoint stay at its own level.
prob_writes_reparent_Skipped(list, lev) == list

prob_writes_reparent(list, lev) ==
    [i \in 1..Len(list) |->
        IF list[i].nest_level >= lev THEN [list[i] EXCEPT !.nest_level = lev - 1]
        ELSE list[i]]

\* SUBXACT_EVENT_COMMIT_SUB.
Release(s) ==
    /\ Active(s) /\ level[s] > 1
    /\ writes' = [writes EXCEPT ![s] = prob_writes_reparent(@, level[s])]
    /\ level' = [level EXCEPT ![s] = @ - 1]
    /\ vouched' = [vouched EXCEPT ![s] = [l \in Levels |->
                      IF l = level[s] - 1 THEN @[l] \cup @[level[s]]
                      ELSE IF l = level[s] THEN {} ELSE @[l]]]
    /\ UNCHANGED <<prob, failed, registered, fresh, undo, xacts, faults,
                   committed, kept, excused>>

AllVouched(s) == UNION {vouched[s][l] : l \in Levels}

\* The (gate, probability) pairs of a set of accepted set_prob calls.
Pairs(calls) == {<<c[1], c[2]>> : c \in calls}
Wrote(calls) == Pairs({c \in calls : c[3]})

\* What is left of the session when its transaction is over.  The callback
\* that drops both lists is registered by the first recorded write.
EndTransaction(s) ==
    /\ level' = [level EXCEPT ![s] = 0]
    /\ failed' = [failed EXCEPT ![s] = FALSE]
    /\ undo' = [undo EXCEPT ![s] = NoUndo]
    /\ fresh' = [fresh EXCEPT ![s] = IF registered[s] THEN {} ELSE @]
    /\ vouched' = [vouched EXCEPT ![s] = [l \in Levels |-> {}]]
    /\ UNCHANGED <<registered, xacts>>

\* Mutant: the list survives the commit.
Commit_KeepsList(s) ==
    /\ Active(s)
    /\ kept' = kept \cup Wrote(AllVouched(s))
    /\ committed' = committed \cup Pairs(AllVouched(s))
    /\ EndTransaction(s)
    /\ UNCHANGED <<prob, writes, faults, excused>>

\* XACT_EVENT_COMMIT, after the commit of every open subtransaction.
Commit(s) ==
    /\ Active(s)
    /\ writes' = [writes EXCEPT ![s] = <<>>]
    /\ kept' = kept \cup Wrote(AllVouched(s))
    /\ committed' = committed \cup Pairs(AllVouched(s))
    /\ EndTransaction(s)
    /\ UNCHANGED <<prob, faults, excused>>

\* XACT_EVENT_PRE_PREPARE lets an empty list through; the prepared
\* transaction is committed or rolled back later.
Prepare(s) ==
    /\ Active(s) /\ writes[s] = <<>>
    /\ committed' \in {committed, committed \cup Pairs(AllVouched(s))}
    /\ EndTransaction(s)
    /\ UNCHANGED <<prob, writes, faults, kept, excused>>

\* The abort of the levels down to n: what they vouched for is void.
StartAbort(s, n, error) ==
    /\ undo' = [undo EXCEPT ![s] = Loop(n, error, TRUE)]
    /\ vouched' = [vouched EXCEPT ![s] = [l \in Levels |-> IF l >= n THEN {} ELSE @[l]]]
    /\ UNCHANGED <<prob, writes, level, registered, fresh, xacts, faults,
                   committed, kept, excused>>

\* ROLLBACK (n = 1) and ROLLBACK TO the savepoint that opened level n.
RollbackTo(s, n) ==
    /\ Active(s) /\ n <= level[s]
    /\ StartAbort(s, n, FALSE)
    /\ UNCHANGED failed

\* An error in the block: its subtransaction is aborted at once.
Error(s) == StartAbort(s, level[s], TRUE) /\ UNCHANGED failed

PrepareRefused(s) == Active(s) /\ writes[s] # <<>> /\ Error(s)

\* The failed level is already unwound: the next abort starts below it, or
\* restarts it when the savepoint is its own.
RollbackFailed(s, n) ==
    /\ failed[s] /\ undo[s] = NoUndo /\ n <= level[s]
    /\ failed' = [failed EXCEPT ![s] = FALSE]
    /\ IF n = level[s]
       THEN UNCHANGED <<prob, writes, level, registered, fresh, undo, xacts, faults, ghosts>>
       ELSE /\ level' = [level EXCEPT ![s] = @ - 1]
            /\ undo' = [undo EXCEPT ![s] = Loop(n, FALSE, TRUE)]
            /\ vouched' = [vouched EXCEPT ![s] = [l \in Levels |-> IF l >= n THEN {} ELSE @[l]]]
            /\ UNCHANGED <<prob, writes, registered, fresh, xacts, faults,
                           committed, kept, excused>>

-----------------------------------------------------------------------------
(* prob_writes_unwind *)

\* Mutant: only the writes of deeper levels are undone.
Doomed_Strict(s, entry) == entry.nest_level > UnwindFrom(s)

Doomed(s, entry) == entry.nest_level >= UnwindFrom(s)

NextEntry(s) == writes[s][undo[s].at]
Unwinding(s) == undo[s] # NoUndo /\ undo[s].at <= Len(writes[s])

\* One turn of the loop: a doomed entry is dropped, and its probability cleared by a
\* request to the worker unless the loop only drops; another is moved to the front.
Unwind(s) ==
    /\ Unwinding(s)
    /\ IF Doomed(s, NextEntry(s))
       THEN /\ prob' = IF undo[s].clear THEN [prob EXCEPT ![NextEntry(s).token] = NaN] ELSE prob
            /\ undo' = [undo EXCEPT ![s] = NextTurn(@, @.keep)]
            /\ UNCHANGED writes
       ELSE /\ writes' = [writes EXCEPT ![s] = [@ EXCEPT ![undo[s].keep + 1] = NextEntry(s)]]
            /\ undo' = [undo EXCEPT ![s] = NextTurn(@, @.keep + 1)]
            /\ UNCHANGED prob
    /\ UNCHANGED <<level, failed, registered, fresh, xacts, faults, ghosts>>

\* What follows the abort of the current level, with `list` left to undo.
LevelAborted(s, list) ==
    /\ writes' = [writes EXCEPT ![s] = list]
    /\ \/ /\ level[s] = 1
          /\ EndTransaction(s)
       \/ /\ level[s] > 1 /\ undo[s].error
          /\ failed' = [failed EXCEPT ![s] = TRUE]
          /\ undo' = [undo EXCEPT ![s] = NoUndo]
          /\ UNCHANGED <<level, registered, fresh, xacts, vouched>>
       \/ /\ level[s] > 1 /\ ~undo[s].error /\ level[s] = undo[s].goal
          /\ undo' = [undo EXCEPT ![s] = NoUndo]
          /\ UNCHANGED <<level, failed, registered, fresh, xacts, vouched>>
       \/ /\ level[s] > undo[s].goal /\ ~undo[s].error
          /\ level' = [level EXCEPT ![s] = @ - 1]
          /\ undo' = [undo EXCEPT ![s] = Loop(@.goal, FALSE, TRUE)]
          /\ UNCHANGED <<failed, registered, fresh, xacts, vouched>>

UnwindDone(s) ==
    /\ undo[s] # NoUndo /\ undo[s].at > Len(writes[s])
    /\ LevelAborted(s, [i \in 1..undo[s].keep |-> writes[s][i]])
    /\ UNCHANGED <<prob, faults, committed, kept, excused>>

\* A clear request that fails: the callback catches the error and warns that the
\* probabilities stand.  Of a transaction it drops the list, of a subtransaction
\* it runs the loop again, on what the loop has made of the list, to drop only.
UnwindFails(s) ==
    /\ Unwinding(s) /\ undo[s].clear /\ Doomed(s, NextEntry(s)) /\ faults < MaxFaults
    /\ faults' = faults + 1
    /\ excused' = excused \cup {writes[s][i].token : i \in
                      {j \in undo[s].at..Len(writes[s]) : Doomed(s, writes[s][j])}}
    /\ IF level[s] = 1
       THEN LevelAborted(s, <<>>)
       ELSE /\ undo' = [undo EXCEPT ![s] = Loop(@.goal, @.error, FALSE)]
            /\ UNCHANGED <<writes, level, failed, registered, fresh, xacts, vouched>>
    /\ UNCHANGED <<prob, committed, kept>>

-----------------------------------------------------------------------------
(* set_prob() *)

\* Mutant: a write that found its value already there is recorded too.
Recorded_Unchanged(result) == result \in {"Written", "Unchanged"}

Recorded(result) == result = "Written"

prob_writes_record(s, t) ==
    /\ writes' = [writes EXCEPT ![s] = Append(@, [token |-> t, nest_level |-> level[s]])]
    /\ registered' = [registered EXCEPT ![s] = TRUE]

\* provsql_set_prob_tracked, on the gate under the wrappers.
SetProb(s, t, p) ==
    LET result == SetProbResult(t, p)
    IN /\ Active(s)
       /\ result \in {"Written", "Unchanged"}
       /\ prob' = [prob EXCEPT ![t] = p]
       /\ IF Recorded(result)
          THEN prob_writes_record(s, t)
          ELSE UNCHANGED <<writes, registered>>
       /\ vouched' = [vouched EXCEPT ![s] = [l \in Levels |->
                IF l = level[s] THEN @[l] \cup {<<t, p, result = "Written">>} ELSE @[l]]]
       /\ UNCHANGED <<level, failed, fresh, undo, xacts, faults,
                      committed, kept, excused>>

\* A probability already set to another value, or a gate that carries none.
SetProbRefused(s, t, p) ==
    /\ Active(s)
    /\ SetProbResult(t, p) \in {"NotProbGate", "AlreadySet"}
    /\ Error(s)

-----------------------------------------------------------------------------
(* Replacement leaves *)

\* replace_block() with no probabilities: it mints a leaf and notes it.
NoteFreshLeaf(s, t) ==
    /\ Active(s) /\ t \notin fresh[s]
    /\ fresh' = [fresh EXCEPT ![s] = @ \cup {t}]
    /\ UNCHANGED <<prob, writes, level, failed, registered, undo, xacts, faults, ghosts>>

is_fresh_leaf(s, t) == t \in fresh[s]

-----------------------------------------------------------------------------
(* Failures *)

\* A client disconnects and another backend takes its place.
Reconnect(s) ==
    /\ level[s] = 0 /\ (registered[s] \/ fresh[s] # {})
    /\ registered' = [registered EXCEPT ![s] = FALSE]
    /\ fresh' = [fresh EXCEPT ![s] = {}]
    /\ UNCHANGED <<prob, writes, level, failed, undo, xacts, faults, ghosts>>

\* PostgreSQL crashes and restarts: every backend's memory is gone, the
\* store is not.
Crash ==
    /\ faults < MaxFaults
    /\ faults' = faults + 1
    /\ level' = [s \in Sessions |-> 0]
    /\ failed' = [s \in Sessions |-> FALSE]
    /\ writes' = [s \in Sessions |-> <<>>]
    /\ registered' = [s \in Sessions |-> FALSE]
    /\ fresh' = [s \in Sessions |-> {}]
    /\ undo' = [s \in Sessions |-> NoUndo]
    /\ vouched' = [s \in Sessions |-> [l \in Levels |-> {}]]
    /\ excused' = excused \cup
          UNION {{writes[s][i].token : i \in 1..Len(writes[s])} : s \in Sessions}
    /\ UNCHANGED <<prob, xacts, committed, kept>>

Next ==
    \/ Crash
    \/ \E s \in Sessions :
        \/ Begin(s) \/ Savepoint(s) \/ Release(s) \/ Commit(s)
        \/ Prepare(s) \/ PrepareRefused(s)
        \/ \E n \in Levels : RollbackTo(s, n) \/ RollbackFailed(s, n)
        \/ Unwind(s) \/ UnwindDone(s) \/ UnwindFails(s)
        \/ \E o \in Offers[s], t \in Tokens :
              t = Peel(o[1]) /\ (SetProb(s, t, o[2]) \/ SetProbRefused(s, t, o[2]))
        \/ \E t \in Leaves[s] : NoteFreshLeaf(s, t)
        \/ Reconnect(s)

Spec == Init /\ [][Next]_vars

-----------------------------------------------------------------------------
(* Properties *)

\* The variables have their types: the undo list keeps the level of a live
\* subtransaction, and what committed transactions wrote is what they were told.
TypeOK ==
    /\ prob \in [Tokens -> Probs \cup {NaN}]
    /\ level \in [Sessions -> 0..MaxNest]
    /\ failed \in [Sessions -> BOOLEAN]
    /\ writes \in [Sessions -> Seq(ProbWrite)]
    /\ registered \in [Sessions -> BOOLEAN]
    /\ fresh \in [Sessions -> SUBSET Tokens]
    /\ undo \in [Sessions -> Undos]
    /\ xacts \in 0..MaxXacts
    /\ faults \in 0..MaxFaults
    /\ vouched \in [Sessions -> [Levels -> SUBSET (Tokens \X Probs \X BOOLEAN)]]
    /\ committed \subseteq Tokens \X Probs
    /\ kept \subseteq committed
    /\ excused \subseteq Tokens

\* The entries of a session's undo list whose probability it still has to
\* clear, should it abort everything.
Pending(s) ==
    {i \in 1..Len(writes[s]) :
        \/ undo[s] = NoUndo \/ ~Doomed(s, writes[s][i])
        \/ undo[s].clear /\ i >= undo[s].at}

\* A probability has one writer: no two pending undo entries, of one session
\* or of two, name the same gate, and each names a gate that holds a
\* probability no committed transaction wrote.  So a rollback that clears
\* its entries never clears what another transaction wrote.
OneOwner ==
    /\ \A s, r \in Sessions : \A i \in Pending(s), j \in Pending(r) :
          writes[s][i].token = writes[r][j].token => s = r /\ i = j
    /\ \A s \in Sessions : \A i \in Pending(s) :
          /\ prob[writes[s][i].token] # NaN
          /\ \A p \in Probs : <<writes[s][i].token, p>> \notin kept

\* With the types of the variables: who would undo a write is always known.
ProbInv == TypeOK /\ OneOwner

\* What a committed transaction wrote stands, whatever other transactions
\* write, release and roll back.
CommittedWritesStand == \A w \in kept : prob[w[1]] = w[2]

\* A probability in the store was written by a committed transaction, or by
\* a subtransaction that is still live, or by one whose abort has yet to
\* reach it, unless the abort warned that it stands or a server crash took
\* the undo list with it: a rolled-back write is cleared, at savepoint
\* granularity.
RolledBackIsCleared ==
    \A t \in Tokens : prob[t] # NaN =>
        \/ <<t, prob[t]>> \in kept
        \/ \E s \in Sessions : <<t, prob[t]>> \in Wrote(AllVouched(s))
        \/ \E s \in Sessions : undo[s] # NoUndo /\ \E i \in Pending(s) : writes[s][i].token = t
        \/ t \in excused

\* What set_prob accepted for a gate only one session writes to, in a
\* subtransaction that is still live or in a transaction that committed, is
\* what the store holds.
AcceptedStands ==
    \A s \in Sessions : \A w \in committed \cup Pairs(AllVouched(s)) :
        Writers(w[1]) = {s} => prob[w[1]] = w[2]

-----------------------------------------------------------------------------
(* Why they hold *)

\* The loop has kept the entries up to `keep' and dropped those between; the
\* subtransactions it aborts no longer vouch for anything.
LoopInv(s) ==
    LET u == undo[s]
    IN /\ u.goal \in 1..level[s] /\ (u.error => u.goal = level[s])
       /\ u.at \in 1..(Len(writes[s]) + 1) /\ u.keep < u.at
       /\ \A l \in Levels : l >= u.goal => vouched[s][l] = {}
       /\ \A i \in 1..Len(writes[s]) :
             /\ i <= u.keep => ~Doomed(s, writes[s][i])
             /\ u.keep < i /\ i < u.at => Doomed(s, writes[s][i])

\* An undo list is in the order of nesting, which is why what a loop keeps
\* is a prefix that already is where it belongs.
InOrder(s) ==
    /\ level[s] = 0 => writes[s] = <<>> /\ undo[s] = NoUndo
    /\ \A l \in Levels : l > level[s] => vouched[s][l] = {}
    /\ \A i \in 1..Len(writes[s]) :
          /\ writes[s][i].nest_level <= level[s]
          /\ \A j \in 1..Len(writes[s]) :
                i <= j => writes[s][i].nest_level <= writes[s][j].nest_level
    /\ failed[s] =>
          /\ level[s] > 1 /\ undo[s] = NoUndo /\ vouched[s][level[s]] = {}
          /\ \A i \in 1..Len(writes[s]) : writes[s][i].nest_level < level[s]
    /\ undo[s] # NoUndo => LoopInv(s)

\* The entry i is of a subtransaction that is not aborting.
LiveEntry(s, i) == undo[s] = NoUndo \/ writes[s][i].nest_level < undo[s].goal

\* The live subtransaction at level l of s wrote p for t.
WroteAt(s, l, t, p) == <<t, p, TRUE>> \in vouched[s][l]

\* A live write is in the undo list at the level of its subtransaction, and
\* the entries of live subtransactions are what they wrote.
Vouches(s) ==
    /\ \A l \in Levels, t \in Tokens, p \in Probs : WroteAt(s, l, t, p) =>
          /\ prob[t] = p
          /\ \E i \in 1..Len(writes[s]) :
                writes[s][i].token = t /\ writes[s][i].nest_level = l
    /\ \A i \in 1..Len(writes[s]) : LiveEntry(s, i) =>
          WroteAt(s, writes[s][i].nest_level, writes[s][i].token, prob[writes[s][i].token])

\* A session touches only the gates its calls lead to.
OwnGates(s) ==
    /\ \A i \in 1..Len(writes[s]) : s \in Writers(writes[s][i].token)
    /\ \A l \in Levels : \A c \in vouched[s][l] : s \in Writers(c[1])

\* The live subtransaction at level l of s was told p for t.
ToldAt(s, l, t, p) == \E b \in BOOLEAN : <<t, p, b>> \in vouched[s][l]

\* When no other session does, what it was told lives no longer than the
\* write it rests on.
Outlived(s, t) ==
    /\ \A p \in Probs : <<t, p>> \in committed =>
          prob[t] = p /\ \A i \in Pending(s) : writes[s][i].token # t
    /\ \A l \in Levels, p \in Probs : ToldAt(s, l, t, p) =>
          /\ prob[t] = p
          /\ \A i \in Pending(s) : writes[s][i].token = t => writes[s][i].nest_level <= l

ListInv == \A s \in Sessions : InOrder(s)
LiveInv == \A s \in Sessions : Vouches(s)
SoleInv == \A s \in Sessions :
              OwnGates(s) /\ \A t \in Tokens : Writers(t) = {s} => Outlived(s, t)

\* What every step preserves.
WriteOnceInv ==
    ProbInv /\ CommittedWritesStand /\ RolledBackIsCleared /\ ListInv /\ LiveInv /\ SoleInv

=============================================================================
