----------------------- MODULE ProbabilityStoreProofs -----------------------
(***************************************************************************)
(* For any number of sessions, gates, transactions and nesting levels: a   *)
(* rollback never clears what another transaction wrote, and clears all    *)
(* that its own wrote.                                                     *)
(***************************************************************************)
EXTENDS ProbabilityStore, TLAPS

USE BoundAssumption

-----------------------------------------------------------------------------
(* Lists and loops *)

\* What the types of the variables say of one session.
LEMMA SessionFacts ==
    ASSUME TypeOK, NEW s \in Sessions
    PROVE  /\ level[s] \in 0..MaxNest /\ failed[s] \in BOOLEAN
           /\ writes[s] \in Seq(ProbWrite) /\ Len(writes[s]) \in Nat
           /\ undo[s] \in Undos
           /\ undo[s].goal \in 0..MaxNest /\ undo[s].at \in Nat /\ undo[s].keep \in Nat
           /\ undo[s].error \in BOOLEAN /\ undo[s].clear \in BOOLEAN
           /\ \A l \in Levels : vouched[s][l] \subseteq Tokens \X Probs \X BOOLEAN
           /\ \A i \in 1..Len(writes[s]) :
                 /\ writes[s][i] \in ProbWrite
                 /\ writes[s][i].token \in Tokens
                 /\ writes[s][i].nest_level \in Levels
  <1>1. /\ level[s] \in 0..MaxNest /\ failed[s] \in BOOLEAN
        /\ writes[s] \in Seq(ProbWrite)
        /\ undo[s] \in Undos /\ vouched[s] \in [Levels -> SUBSET (Tokens \X Probs \X BOOLEAN)]
      BY DEF TypeOK
  <1>2. /\ undo[s].goal \in 0..MaxNest /\ undo[s].at \in Nat /\ undo[s].keep \in Nat
        /\ undo[s].error \in BOOLEAN /\ undo[s].clear \in BOOLEAN
      BY <1>1 DEF Undos
  <1>3. \A i \in 1..Len(writes[s]) : writes[s][i] \in ProbWrite
      BY <1>1
  <1>4. \A i \in 1..Len(writes[s]) :
           writes[s][i].token \in Tokens /\ writes[s][i].nest_level \in Levels
      BY <1>3 DEF ProbWrite
  <1>5. QED
      BY <1>1, <1>2, <1>3, <1>4

LEMMA LoopFacts ==
    ASSUME NEW n, NEW e, NEW c
    PROVE  /\ Loop(n, e, c).goal = n /\ Loop(n, e, c).at = 1 /\ Loop(n, e, c).keep = 0
           /\ Loop(n, e, c).error = e /\ Loop(n, e, c).clear = c
           /\ n \in Levels /\ e \in BOOLEAN /\ c \in BOOLEAN =>
                 Loop(n, e, c) # NoUndo /\ Loop(n, e, c) \in Undos
BY DEF Loop, NoUndo, Undos, Levels

LEMMA NextTurnFacts ==
    ASSUME NEW u \in Undos, NEW k \in Nat
    PROVE  /\ NextTurn(u, k).goal = u.goal /\ NextTurn(u, k).at = u.at + 1
           /\ NextTurn(u, k).keep = k
           /\ NextTurn(u, k).error = u.error /\ NextTurn(u, k).clear = u.clear
           /\ NextTurn(u, k) # NoUndo /\ NextTurn(u, k) \in Undos
BY DEF NextTurn, NoUndo, Undos

LEMMA NoUndoFacts ==
    /\ NoUndo.goal = 0 /\ NoUndo.at = 0 /\ NoUndo.keep = 0
    /\ NoUndo.error = FALSE /\ NoUndo.clear = FALSE /\ NoUndo \in Undos
BY DEF NoUndo, Undos

-----------------------------------------------------------------------------
(* Types *)

\* What a step on session s may do to the rest of the state.
SessionTypes ==
    /\ level \in [Sessions -> 0..MaxNest] /\ failed \in [Sessions -> BOOLEAN]
    /\ registered \in [Sessions -> BOOLEAN] /\ fresh \in [Sessions -> SUBSET Tokens]
    /\ undo \in [Sessions -> Undos] /\ xacts \in 0..MaxXacts
    /\ vouched \in [Sessions -> [Levels -> SUBSET (Tokens \X Probs \X BOOLEAN)]]

LEMMA EndTypes ==
    ASSUME TypeOK, NEW s \in Sessions, EndTransaction(s)
    PROVE  SessionTypes'
BY NoUndoFacts DEF TypeOK, SessionTypes, EndTransaction

LEMMA AbortTypes ==
    ASSUME TypeOK, NEW s \in Sessions, NEW n \in Levels, NEW e \in BOOLEAN,
           StartAbort(s, n, e)
    PROVE  /\ undo' \in [Sessions -> Undos]
           /\ vouched' \in [Sessions -> [Levels -> SUBSET (Tokens \X Probs \X BOOLEAN)]]
  <1>1. Loop(n, e, TRUE) \in Undos
      BY LoopFacts
  <1>2. QED
      BY <1>1 DEF TypeOK, StartAbort

LEMMA LevelTypes ==
    ASSUME TypeOK, NEW s \in Sessions, NEW list \in Seq(ProbWrite), LevelAborted(s, list),
           undo[s].goal > 0
    PROVE  SessionTypes' /\ writes' \in [Sessions -> Seq(ProbWrite)]
  <1>1. writes' \in [Sessions -> Seq(ProbWrite)]
      BY DEF LevelAborted, TypeOK
  <1>2. CASE EndTransaction(s)
      BY <1>1, <1>2, EndTypes
  <1>3. CASE /\ failed' = [failed EXCEPT ![s] = TRUE]
             /\ undo' = [undo EXCEPT ![s] = NoUndo]
             /\ UNCHANGED <<level, registered, fresh, xacts, vouched>>
      BY <1>1, <1>3, NoUndoFacts DEF TypeOK, SessionTypes
  <1>4. CASE /\ undo' = [undo EXCEPT ![s] = NoUndo]
             /\ UNCHANGED <<level, failed, registered, fresh, xacts, vouched>>
      BY <1>1, <1>4, NoUndoFacts DEF TypeOK, SessionTypes
  <1>5. CASE /\ level[s] > undo[s].goal
             /\ level' = [level EXCEPT ![s] = @ - 1]
             /\ undo' = [undo EXCEPT ![s] = Loop(@.goal, FALSE, TRUE)]
             /\ UNCHANGED <<failed, registered, fresh, xacts, vouched>>
    <2>1. level[s] - 1 \in 0..MaxNest /\ undo[s].goal \in Levels
        BY <1>5, SessionFacts DEF Levels
    <2>2. Loop(undo[s].goal, FALSE, TRUE) \in Undos
        BY <2>1, LoopFacts
    <2>3. QED
        BY <1>1, <1>5, <2>1, <2>2 DEF TypeOK, SessionTypes
  <1>6. QED
      BY <1>2, <1>3, <1>4, <1>5 DEF LevelAborted

\* The entries a loop has kept are a list.
LEMMA PrefixFacts ==
    ASSUME NEW q \in Seq(ProbWrite), NEW k \in Nat, k <= Len(q)
    PROVE  /\ [i \in 1..k |-> q[i]] \in Seq(ProbWrite)
           /\ Len([i \in 1..k |-> q[i]]) = k
           /\ \A i \in 1..k : [j \in 1..k |-> q[j]][i] = q[i]
OBVIOUS

LEMMA KeepBound ==
    ASSUME TypeOK, ListInv, NEW s \in Sessions, undo[s] # NoUndo
    PROVE  /\ undo[s].goal \in 1..level[s] /\ undo[s].goal \in Levels
           /\ undo[s].at \in 1..(Len(writes[s]) + 1)
           /\ undo[s].keep < undo[s].at /\ undo[s].keep <= Len(writes[s])
           /\ level[s] \in Levels
           /\ undo[s].error => undo[s].goal = level[s]
  <1>1. /\ undo[s].goal \in 1..level[s] /\ undo[s].at \in 1..(Len(writes[s]) + 1)
        /\ undo[s].keep < undo[s].at /\ (undo[s].error => undo[s].goal = level[s])
      BY DEF ListInv, InOrder, LoopInv
  <1>2. QED
      BY <1>1, SessionFacts DEF Levels
LEMMA ReplaceFacts ==
    ASSUME NEW q \in Seq(ProbWrite), NEW k, NEW e \in ProbWrite
    PROVE  [q EXCEPT ![k] = e] \in Seq(ProbWrite)
  <1>1. q \in [1..Len(q) -> ProbWrite] /\ Len(q) \in Nat
      OBVIOUS
  <1>2. [q EXCEPT ![k] = e] \in [1..Len(q) -> ProbWrite]
      BY <1>1
  <1>3. QED
      BY <1>1, <1>2

LEMMA EmptyList == <<>> \in Seq(ProbWrite) /\ Len(<<>>) = 0
OBVIOUS

LEMMA ReparentFacts ==
    ASSUME NEW q \in Seq(ProbWrite), NEW n \in Levels, n - 1 \in Levels
    PROVE  /\ prob_writes_reparent(q, n) \in Seq(ProbWrite)
           /\ Len(prob_writes_reparent(q, n)) = Len(q)
           /\ \A i \in 1..Len(q) :
                 /\ prob_writes_reparent(q, n)[i].token = q[i].token
                 /\ prob_writes_reparent(q, n)[i].nest_level =
                       IF q[i].nest_level >= n THEN n - 1 ELSE q[i].nest_level
  <1> DEFINE e(i) == IF q[i].nest_level >= n THEN [q[i] EXCEPT !.nest_level = n - 1] ELSE q[i]
  <1>1. \A i \in 1..Len(q) :
           /\ e(i) \in ProbWrite /\ e(i).token = q[i].token
           /\ e(i).nest_level = IF q[i].nest_level >= n THEN n - 1 ELSE q[i].nest_level
    <2>1. TAKE i \in 1..Len(q)
    <2>2. q[i] \in ProbWrite
        OBVIOUS
    <2>3. QED
        BY <2>2 DEF ProbWrite
  <1>2. prob_writes_reparent(q, n) = [i \in 1..Len(q) |-> e(i)]
      BY DEF prob_writes_reparent
  <1> HIDE DEF e
  <1>3. QED
      BY <1>1, <1>2

LEMMA OffersFacts ==
    ASSUME NEW s \in Sessions, NEW o \in Offers[s]
    PROVE  o[1] \in Tokens /\ o[2] \in Probs /\ o = <<o[1], o[2]>>
BY SessionAssumption

LEMMA TypeStep ==
    ASSUME TypeOK, ListInv, Next
    PROVE  TypeOK'
  <1>1. CASE Crash
    <2>1. excused' \subseteq Tokens
        BY <1>1, SessionFacts DEF TypeOK, Crash
    <2>2. /\ level' \in [Sessions -> 0..MaxNest] /\ failed' \in [Sessions -> BOOLEAN]
          /\ registered' \in [Sessions -> BOOLEAN] /\ fresh' \in [Sessions -> SUBSET Tokens]
          /\ vouched' \in [Sessions -> [Levels -> SUBSET (Tokens \X Probs \X BOOLEAN)]]
        BY <1>1 DEF Crash
    <2>3. writes' \in [Sessions -> Seq(ProbWrite)] /\ undo' \in [Sessions -> Undos]
        BY <1>1, NoUndoFacts DEF Crash
    <2>4. faults' \in 0..MaxFaults
        BY <1>1 DEF Crash, TypeOK
    <2>5. QED
        BY <1>1, <2>1, <2>2, <2>3, <2>4 DEF TypeOK, Crash
  <1>2. ASSUME NEW s \in Sessions, Begin(s) \/ Savepoint(s)
        PROVE  TypeOK'
    <2>1. level' \in [Sessions -> 0..MaxNest] /\ xacts' \in 0..MaxXacts
      <3>1. level \in [Sessions -> 0..MaxNest] /\ xacts \in 0..MaxXacts /\ level[s] \in 0..MaxNest
          BY SessionFacts DEF TypeOK
      <3>2. CASE Begin(s)
          BY <3>1, <3>2 DEF Begin
      <3>3. CASE Savepoint(s)
          BY <3>1, <3>3 DEF Savepoint
      <3>4. QED
          BY <1>2, <3>2, <3>3
    <2>2. UNCHANGED <<prob, writes, failed, registered, fresh, undo, faults,
                      vouched, committed, kept, excused>>
        BY <1>2 DEF Begin, Savepoint, ghosts
    <2>3. QED
        BY <2>1, <2>2 DEF TypeOK
  <1>20. ASSUME NEW s \in Sessions,
                Reconnect(s) \/ \E t \in Leaves[s] : NoteFreshLeaf(s, t)
         PROVE  TypeOK'
    <2>1. /\ fresh' \in [Sessions -> SUBSET Tokens]
          /\ registered' \in [Sessions -> BOOLEAN]
      <3>1. fresh \in [Sessions -> SUBSET Tokens] /\ registered \in [Sessions -> BOOLEAN]
          BY DEF TypeOK
      <3>2. CASE Reconnect(s)
          BY <3>1, <3>2 DEF Reconnect
      <3>3. ASSUME NEW t \in Leaves[s], NoteFreshLeaf(s, t)
            PROVE  /\ fresh' \in [Sessions -> SUBSET Tokens]
                   /\ registered' \in [Sessions -> BOOLEAN]
        <4>1. t \in Tokens
            BY <3>3, SessionAssumption
        <4>2. QED
            BY <3>1, <3>3, <4>1 DEF NoteFreshLeaf
      <3>4. QED
          BY <1>20, <3>2, <3>3
    <2>2. UNCHANGED <<prob, writes, level, failed, undo, xacts, faults,
                      vouched, committed, kept, excused>>
        BY <1>20 DEF Reconnect, NoteFreshLeaf, ghosts
    <2>3. QED
        BY <2>1, <2>2 DEF TypeOK
  <1>3. ASSUME NEW s \in Sessions, Release(s)
        PROVE  TypeOK'
    <2>1. level[s] - 1 \in Levels
        BY <1>3, SessionFacts DEF Release, Levels
    <2>2. prob_writes_reparent(writes[s], level[s]) \in Seq(ProbWrite)
      <3>1. level[s] \in Levels /\ writes[s] \in Seq(ProbWrite)
          BY <1>3, SessionFacts DEF Release, Levels
      <3>2. QED
          BY <2>1, <3>1, ReparentFacts
    <2>3. vouched' \in [Sessions -> [Levels -> SUBSET (Tokens \X Probs \X BOOLEAN)]]
      <3>1. vouched[s] \in [Levels -> SUBSET (Tokens \X Probs \X BOOLEAN)] /\ level[s] \in Levels
          BY <1>3, SessionFacts DEF Release, TypeOK, Levels
      <3>2. QED
          BY <1>3, <2>1, <3>1 DEF Release, TypeOK
    <2>4. level' \in [Sessions -> 0..MaxNest]
        BY <1>3, <2>1 DEF Release, TypeOK, Levels
    <2>5. QED
        BY <1>3, <2>2, <2>3, <2>4 DEF TypeOK, Release
  <1>4. ASSUME NEW s \in Sessions, Commit(s) \/ Prepare(s)
        PROVE  TypeOK'
    <2>1. SessionTypes'
        BY <1>4, EndTypes DEF Commit, Prepare
    <2>2. Pairs(AllVouched(s)) \subseteq Tokens \X Probs /\ Wrote(AllVouched(s)) \subseteq Pairs(AllVouched(s))
        BY SessionFacts DEF Pairs, Wrote, AllVouched
    <2>3. writes' \in [Sessions -> Seq(ProbWrite)]
        BY <1>4, EmptyList DEF Commit, Prepare, TypeOK
    <2>4. committed' \subseteq Tokens \X Probs /\ kept' \subseteq committed'
        BY <1>4, <2>2 DEF Commit, Prepare, TypeOK
    <2>5. QED
        BY <1>4, <2>1, <2>3, <2>4 DEF TypeOK, SessionTypes, Commit, Prepare
  <1>5. ASSUME NEW s \in Sessions, NEW n \in Levels, NEW e \in BOOLEAN,
               StartAbort(s, n, e), UNCHANGED failed
        PROVE  TypeOK'
      BY <1>5, AbortTypes DEF TypeOK, StartAbort
  <1>6. ASSUME NEW s \in Sessions, NEW n \in Levels, RollbackFailed(s, n)
        PROVE  TypeOK'
    <2>1. Loop(n, FALSE, TRUE) \in Undos /\ level[s] - 1 \in 0..MaxNest
      <3>1. level[s] > 1 /\ level[s] \in 0..MaxNest
          BY <1>6, SessionFacts DEF RollbackFailed, ListInv, InOrder
      <3>2. level[s] - 1 \in 0..MaxNest
          BY <3>1
      <3>3. QED
          BY <3>2, LoopFacts
    <2>2. vouched' \in [Sessions -> [Levels -> SUBSET (Tokens \X Probs \X BOOLEAN)]]
      <3>1. vouched \in [Sessions -> [Levels -> SUBSET (Tokens \X Probs \X BOOLEAN)]]
          BY DEF TypeOK
      <3>2. CASE n = level[s]
          BY <1>6, <3>1, <3>2 DEF RollbackFailed, ghosts
      <3>3. CASE n # level[s]
          BY <1>6, <3>1, <3>3 DEF RollbackFailed
      <3>4. QED
          BY <3>2, <3>3
    <2>3. QED
        BY <1>6, <2>1, <2>2 DEF TypeOK, RollbackFailed, ghosts
  <1>7. ASSUME NEW s \in Sessions, Unwind(s)
        PROVE  TypeOK'
    <2>1. NextEntry(s) \in ProbWrite /\ NextEntry(s).token \in Tokens
        BY <1>7, KeepBound, SessionFacts DEF Unwind, Unwinding, NextEntry
    <2>2. NextTurn(undo[s], undo[s].keep) \in Undos /\ NextTurn(undo[s], undo[s].keep + 1) \in Undos
        BY NextTurnFacts, SessionFacts
    <2>3. [writes[s] EXCEPT ![undo[s].keep + 1] = NextEntry(s)] \in Seq(ProbWrite)
        BY <2>1, SessionFacts, ReplaceFacts
    <2>4. QED
        BY <1>7, <2>1, <2>2, <2>3 DEF TypeOK, Unwind, ghosts
  <1>8. ASSUME NEW s \in Sessions, UnwindDone(s)
        PROVE  TypeOK'
    <2>1. /\ [i \in 1..undo[s].keep |-> writes[s][i]] \in Seq(ProbWrite)
          /\ undo[s].goal > 0
        BY <1>8, PrefixFacts, KeepBound, SessionFacts DEF UnwindDone, Levels
    <2>2. SessionTypes' /\ writes' \in [Sessions -> Seq(ProbWrite)]
        BY <1>8, <2>1, LevelTypes DEF UnwindDone
    <2>3. QED
        BY <1>8, <2>2 DEF TypeOK, SessionTypes, UnwindDone
  <1>9. ASSUME NEW s \in Sessions, UnwindFails(s)
        PROVE  TypeOK'
    <2>1. /\ undo[s].goal > 0 /\ undo[s].goal \in Levels
          /\ Loop(undo[s].goal, undo[s].error, FALSE) \in Undos
      <3>1. undo[s].goal \in Levels /\ undo[s].error \in BOOLEAN
          BY <1>9, KeepBound, SessionFacts DEF UnwindFails, Unwinding
      <3>2. Loop(undo[s].goal, undo[s].error, FALSE) \in Undos
          BY <3>1, LoopFacts
      <3>3. undo[s].goal > 0
          BY <3>1 DEF Levels
      <3>4. QED
          BY <3>1, <3>2, <3>3
    <2>2. SessionTypes' /\ writes' \in [Sessions -> Seq(ProbWrite)]
      <3>1. CASE level[s] = 1
          BY <1>9, <2>1, <3>1, LevelTypes, EmptyList DEF UnwindFails
      <3>2. CASE level[s] # 1
          BY <1>9, <2>1, <3>2 DEF UnwindFails, TypeOK, SessionTypes
      <3>3. QED
          BY <3>1, <3>2
    <2>3. excused' \subseteq Tokens
        BY <1>9, KeepBound, SessionFacts DEF UnwindFails, TypeOK, Unwinding
    <2>4. QED
        BY <1>9, <2>2, <2>3 DEF TypeOK, SessionTypes, UnwindFails
  <1>10. ASSUME NEW s \in Sessions, NEW t \in Tokens, NEW p \in Probs, SetProb(s, t, p)
         PROVE  TypeOK'
    <2>1. level[s] \in Levels
        BY <1>10, SessionFacts DEF SetProb, Active, Levels
    <2>2. Append(writes[s], [token |-> t, nest_level |-> level[s]]) \in Seq(ProbWrite)
      <3>1. [token |-> t, nest_level |-> level[s]] \in ProbWrite /\ writes[s] \in Seq(ProbWrite)
          BY <2>1, SessionFacts DEF ProbWrite
      <3>2. QED
          BY <3>1
    <2>3. vouched' \in [Sessions -> [Levels -> SUBSET (Tokens \X Probs \X BOOLEAN)]]
      <3>1. vouched[s] \in [Levels -> SUBSET (Tokens \X Probs \X BOOLEAN)]
          BY DEF TypeOK
      <3>2. PICK c \in Tokens \X Probs \X BOOLEAN :
               vouched' = [vouched EXCEPT ![s] = [l \in Levels |->
                              IF l = level[s] THEN @[l] \cup {c} ELSE @[l]]]
        <4>1. <<t, p, SetProbResult(t, p) = "Written">> \in Tokens \X Probs \X BOOLEAN
            OBVIOUS
        <4>2. QED
            BY <1>10, <4>1 DEF SetProb
      <3>3. QED
          BY <3>1, <3>2 DEF TypeOK
    <2>4. QED
        BY <1>10, <2>2, <2>3 DEF TypeOK, SetProb, prob_writes_record
  <1>11. ASSUME NEW s \in Sessions, Error(s), level[s] > 0
         PROVE  TypeOK'
    <2>1. level[s] \in Levels
        BY <1>11, SessionFacts DEF Levels
    <2>2. QED
        BY <1>5, <1>11, <2>1 DEF Error
  <1>12. ASSUME NEW s \in Sessions, NEW t \in Tokens, NEW o \in Offers[s],
                SetProb(s, t, o[2])
         PROVE  TypeOK'
      BY <1>10, <1>12, SessionAssumption
  <1>13. ASSUME NEW s \in Sessions,
                \/ PrepareRefused(s)
                \/ \E n \in Levels : RollbackTo(s, n)
                \/ \E t \in Tokens, p \in Probs : SetProbRefused(s, t, p)
         PROVE  TypeOK'
      BY <1>5, <1>11, <1>13 DEF RollbackTo, PrepareRefused, SetProbRefused, Active
  <1>14. QED
      BY <1>1, <1>2, <1>20, <1>3, <1>4, <1>6, <1>7, <1>8, <1>9, <1>12, <1>13, OffersFacts
         DEF Next
-----------------------------------------------------------------------------
(* What the steps do to a session: between the actions and the invariant *)

\* Nothing.
Same(r) ==
    /\ level'[r] = level[r] /\ failed'[r] = failed[r] /\ writes'[r] = writes[r]
    /\ undo'[r] = undo[r] /\ vouched'[r] = vouched[r]

Others(s) == \A r \in Sessions \ {s} : Same(r)

\* BEGIN, SAVEPOINT.
Opens(s) ==
    /\ undo[s] = NoUndo /\ ~failed[s]
    /\ level'[s] = level[s] + 1 /\ failed'[s] = failed[s] /\ writes'[s] = writes[s]
    /\ undo'[s] = undo[s] /\ vouched'[s] = vouched[s]

\* ROLLBACK TO the savepoint of the failed subtransaction.
Resumes(s) ==
    /\ failed[s] /\ undo[s] = NoUndo /\ ~failed'[s]
    /\ level'[s] = level[s] /\ writes'[s] = writes[s]
    /\ undo'[s] = undo[s] /\ vouched'[s] = vouched[s]

\* RELEASE.
Releases(s) ==
    /\ Active(s) /\ level[s] > 1
    /\ level'[s] = level[s] - 1 /\ failed'[s] = failed[s] /\ undo'[s] = undo[s]
    /\ Len(writes'[s]) = Len(writes[s])
    /\ \A i \in 1..Len(writes[s]) :
          /\ writes'[s][i].token = writes[s][i].token
          /\ writes'[s][i].nest_level = IF writes[s][i].nest_level >= level[s]
                                        THEN level[s] - 1 ELSE writes[s][i].nest_level
    /\ \A l \in Levels : vouched'[s][l] =
          IF l = level[s] - 1 THEN vouched[s][l] \cup vouched[s][level[s]]
          ELSE IF l = level[s] THEN {} ELSE vouched[s][l]

\* The end of the transaction.
Ends(s) ==
    /\ level'[s] = 0 /\ ~failed'[s] /\ writes'[s] = <<>> /\ undo'[s] = NoUndo
    /\ \A l \in Levels : vouched'[s][l] = {}

\* The start of an abort.
Aborts(s) ==
    /\ undo[s] = NoUndo /\ writes'[s] = writes[s] /\ ~failed'[s]
    /\ IF failed[s] THEN level'[s] = level[s] - 1 ELSE level'[s] = level[s]
    /\ \E n \in Levels, e \in BOOLEAN :
          /\ n <= level'[s] /\ (e => n = level'[s])
          /\ undo'[s] = Loop(n, e, TRUE)
          /\ \A l \in Levels : vouched'[s][l] = IF l >= n THEN {} ELSE vouched[s][l]

\* A turn of the loop.
Turns(s) ==
    /\ undo[s] # NoUndo /\ undo[s].at <= Len(writes[s]) /\ undo'[s] # NoUndo
    /\ level'[s] = level[s] /\ failed'[s] = failed[s] /\ writes'[s] = writes[s]
    /\ vouched'[s] = vouched[s]
    /\ undo'[s].goal = undo[s].goal /\ undo'[s].error = undo[s].error
    /\ undo'[s].clear = undo[s].clear /\ undo'[s].at = undo[s].at + 1
    /\ undo'[s].keep = IF Doomed(s, writes[s][undo[s].at])
                       THEN undo[s].keep ELSE undo[s].keep + 1

\* The end of the loop of a subtransaction.
Cuts(s) ==
    /\ undo[s] # NoUndo /\ undo[s].at = Len(writes[s]) + 1 /\ level[s] > 1
    /\ Len(writes'[s]) = undo[s].keep
    /\ \A i \in 1..undo[s].keep : writes'[s][i] = writes[s][i]
    /\ vouched'[s] = vouched[s]
    /\ \/ /\ undo[s].error /\ failed'[s]
          /\ undo'[s] = NoUndo /\ level'[s] = level[s]
       \/ /\ undo[s].goal = level[s] /\ failed'[s] = failed[s]
          /\ undo'[s] = NoUndo /\ level'[s] = level[s]
       \/ /\ undo[s].goal < level[s] /\ failed'[s] = failed[s]
          /\ undo'[s] = Loop(undo[s].goal, FALSE, TRUE) /\ level'[s] = level[s] - 1

\* A request to the worker failed: the loop drops what is left.
Restarts(s) ==
    /\ undo[s] # NoUndo /\ level[s] > 1
    /\ undo'[s] = Loop(undo[s].goal, undo[s].error, FALSE)
    /\ level'[s] = level[s] /\ failed'[s] = failed[s] /\ writes'[s] = writes[s]
    /\ vouched'[s] = vouched[s]

\* set_prob accepts p for t; it wrote it when b.
Told(s, t, p, b) ==
    /\ Active(s)
    /\ level'[s] = level[s] /\ failed'[s] = failed[s] /\ undo'[s] = undo[s]
    /\ \A l \in Levels : vouched'[s][l] =
          IF l = level[s] THEN vouched[s][l] \cup {<<t, p, b>>} ELSE vouched[s][l]
    /\ IF b
       THEN /\ Len(writes'[s]) = Len(writes[s]) + 1
            /\ \A i \in 1..Len(writes[s]) : writes'[s][i] = writes[s][i]
            /\ writes'[s][Len(writes[s]) + 1].token = t
            /\ writes'[s][Len(writes[s]) + 1].nest_level = level[s]
       ELSE writes'[s] = writes[s]

-----------------------------------------------------------------------------
(* The actions have these effects *)

LEMMA OpensEffect ==
    ASSUME TypeOK, ListInv, NEW s \in Sessions, Begin(s) \/ Savepoint(s)
    PROVE  Others(s) /\ Opens(s)
  <1>1. undo[s] = NoUndo /\ ~failed[s]
      BY DEF ListInv, InOrder, Begin, Savepoint, Active
  <1>2. level' = [level EXCEPT ![s] = level[s] + 1]
        /\ UNCHANGED <<failed, writes, undo, vouched>>
      BY DEF Begin, Savepoint, ghosts
  <1>3. QED
      BY <1>1, <1>2 DEF Others, Same, Opens, TypeOK

LEMMA ReleasesEffect ==
    ASSUME TypeOK, NEW s \in Sessions, Release(s)
    PROVE  Others(s) /\ Releases(s)
  <1>1. Active(s) /\ level[s] > 1 /\ level[s] - 1 \in Levels /\ level[s] \in Levels
      BY SessionFacts DEF Release, Levels
  <1>2. Others(s)
      BY DEF Release, TypeOK, Others, Same
  <1>3. level'[s] = level[s] - 1 /\ failed'[s] = failed[s] /\ undo'[s] = undo[s]
      BY DEF Release, TypeOK
  <1>4. writes'[s] = prob_writes_reparent(writes[s], level[s])
      BY DEF Release, TypeOK
  <1>5. \A l \in Levels : vouched'[s][l] =
          IF l = level[s] - 1 THEN vouched[s][l] \cup vouched[s][level[s]]
          ELSE IF l = level[s] THEN {} ELSE vouched[s][l]
      BY DEF Release, TypeOK
  <1>6. /\ Len(writes'[s]) = Len(writes[s])
        /\ \A i \in 1..Len(writes[s]) :
              /\ writes'[s][i].token = writes[s][i].token
              /\ writes'[s][i].nest_level = IF writes[s][i].nest_level >= level[s]
                                            THEN level[s] - 1 ELSE writes[s][i].nest_level
      BY <1>1, <1>4, ReparentFacts, SessionFacts
  <1>7. QED
      BY <1>1, <1>2, <1>3, <1>5, <1>6 DEF Releases

LEMMA EndsEffect ==
    ASSUME TypeOK, NEW s \in Sessions, EndTransaction(s), writes' = [writes EXCEPT ![s] = <<>>]
    PROVE  Others(s) /\ Ends(s)
BY DEF EndTransaction, TypeOK, Others, Same, Ends

LEMMA AbortsEffect ==
    ASSUME TypeOK, NEW s \in Sessions, Active(s), NEW n \in Levels, n <= level[s],
           NEW e \in BOOLEAN, e => n = level[s], StartAbort(s, n, e), UNCHANGED failed
    PROVE  Others(s) /\ Aborts(s)
  <1>1. Others(s)
      BY DEF StartAbort, TypeOK, Others, Same
  <1>2. /\ undo'[s] = Loop(n, e, TRUE) /\ writes'[s] = writes[s] /\ level'[s] = level[s]
        /\ \A l \in Levels : vouched'[s][l] = IF l >= n THEN {} ELSE vouched[s][l]
      BY DEF StartAbort, TypeOK
  <1>3. undo[s] = NoUndo /\ ~failed[s] /\ ~failed'[s]
      BY DEF Active
  <1>4. QED
      BY <1>1, <1>2, <1>3 DEF Aborts

LEMMA RollbackFailedEffect ==
    ASSUME TypeOK, ListInv, NEW s \in Sessions, NEW n \in Levels, RollbackFailed(s, n)
    PROVE  Others(s) /\ (Resumes(s) \/ Aborts(s))
  <1>1. CASE n = level[s]
    <2>1. failed' = [failed EXCEPT ![s] = FALSE] /\ UNCHANGED <<level, writes, undo, vouched>>
        BY <1>1 DEF RollbackFailed, ghosts
    <2>2. failed[s] /\ undo[s] = NoUndo
        BY DEF RollbackFailed
    <2>3. QED
        BY <2>1, <2>2 DEF Others, Same, Resumes, TypeOK
  <1>2. CASE n # level[s]
    <2>1. Others(s)
        BY <1>2 DEF RollbackFailed, TypeOK, Others, Same
    <2>2. /\ undo'[s] = Loop(n, FALSE, TRUE) /\ writes'[s] = writes[s]
          /\ level'[s] = level[s] - 1
          /\ \A l \in Levels : vouched'[s][l] = IF l >= n THEN {} ELSE vouched[s][l]
        BY <1>2 DEF RollbackFailed, TypeOK
    <2>3. failed[s] /\ undo[s] = NoUndo /\ ~failed'[s]
        BY DEF RollbackFailed, TypeOK
    <2>4. n <= level'[s]
        BY <1>2, <2>2, SessionFacts DEF RollbackFailed, Levels
    <2>5. QED
        BY <2>1, <2>2, <2>3, <2>4 DEF Aborts
  <1>3. QED
      BY <1>1, <1>2
\* What the loop does not drop already is where it belongs.
LEMMA KeptInPlace ==
    ASSUME TypeOK, ListInv, NEW s \in Sessions, Unwinding(s), ~Doomed(s, NextEntry(s))
    PROVE  undo[s].keep + 1 = undo[s].at
  <1>1. /\ undo[s].at \in 1..Len(writes[s]) /\ undo[s].keep \in Nat /\ undo[s].keep < undo[s].at
      BY SessionFacts, KeepBound DEF Unwinding
  <1>2. ASSUME undo[s].keep + 1 # undo[s].at
        PROVE  FALSE
    <2> DEFINE k == undo[s].keep + 1
    <2>1. k \in 1..Len(writes[s]) /\ undo[s].keep < k /\ k < undo[s].at /\ k <= undo[s].at
        BY <1>1, <1>2
    <2>2. Doomed(s, writes[s][k])
        BY <2>1 DEF ListInv, InOrder, LoopInv, Unwinding
    <2>3. writes[s][k].nest_level <= writes[s][undo[s].at].nest_level
        BY <1>1, <2>1 DEF ListInv, InOrder
    <2>4. /\ writes[s][k].nest_level \in Nat /\ writes[s][undo[s].at].nest_level \in Nat
          /\ UnwindFrom(s) \in Nat
      <3>1. level[s] \in Nat
          BY SessionFacts
      <3>2. /\ writes[s][k].nest_level \in Levels
            /\ writes[s][undo[s].at].nest_level \in Levels
          BY <1>1, <2>1, SessionFacts
      <3>3. QED
          BY <3>1, <3>2 DEF Levels, UnwindFrom
    <2>5. Doomed(s, writes[s][undo[s].at])
        BY <2>2, <2>3, <2>4 DEF Doomed
    <2>6. QED
        BY <2>5 DEF NextEntry
  <1>3. QED
      BY <1>2

LEMMA TurnsEffect ==
    ASSUME TypeOK, ListInv, NEW s \in Sessions, Unwind(s)
    PROVE  /\ Others(s) /\ Turns(s) /\ undo[s].at \in 1..Len(writes[s])
           /\ UNCHANGED <<committed, kept, excused>>
           /\ prob' = IF undo[s].clear /\ Doomed(s, writes[s][undo[s].at])
                      THEN [prob EXCEPT ![writes[s][undo[s].at].token] = NaN] ELSE prob
  <1>1. /\ undo[s] # NoUndo /\ undo[s].at <= Len(writes[s]) /\ undo[s].at \in 1..Len(writes[s])
        /\ undo[s] \in Undos /\ undo[s].keep \in Nat /\ undo[s].keep + 1 \in Nat
      BY SessionFacts, KeepBound DEF Unwind, Unwinding
  <1>2. UNCHANGED <<level, failed, vouched, committed, kept, excused>>
      BY DEF Unwind, ghosts
  <1>3. CASE Doomed(s, NextEntry(s))
    <2>1. undo' = [undo EXCEPT ![s] = NextTurn(undo[s], undo[s].keep)] /\ writes' = writes
        BY <1>3 DEF Unwind
    <2>2. undo'[s] = NextTurn(undo[s], undo[s].keep) /\ Others(s) /\ writes'[s] = writes[s]
        BY <1>2, <2>1 DEF TypeOK, Others, Same
    <2>3. Turns(s)
      <3>1. /\ undo'[s].goal = undo[s].goal /\ undo'[s].error = undo[s].error
            /\ undo'[s].clear = undo[s].clear /\ undo'[s].at = undo[s].at + 1
            /\ undo'[s].keep = undo[s].keep /\ undo'[s] # NoUndo
          BY <1>1, <2>2, NextTurnFacts
      <3>2. QED
          BY <1>1, <1>2, <1>3, <2>2, <3>1 DEF Turns, NextEntry
    <2>4. prob' = IF undo[s].clear /\ Doomed(s, writes[s][undo[s].at])
                  THEN [prob EXCEPT ![writes[s][undo[s].at].token] = NaN] ELSE prob
        BY <1>3 DEF Unwind, NextEntry
    <2>5. QED
        BY <1>1, <1>2, <2>2, <2>3, <2>4
  <1>4. CASE ~Doomed(s, NextEntry(s))
    <2>1. undo[s].keep + 1 = undo[s].at
        BY <1>4, KeptInPlace DEF Unwind
    <2>2. [writes[s] EXCEPT ![undo[s].keep + 1] = NextEntry(s)] = writes[s]
      <3>1. writes[s] \in Seq(ProbWrite)
          BY SessionFacts
      <3>2. [writes[s] EXCEPT ![undo[s].at] = writes[s][undo[s].at]] = writes[s]
          BY <3>1
      <3>3. QED
          BY <2>1, <3>2 DEF NextEntry
    <2>3. /\ undo' = [undo EXCEPT ![s] = NextTurn(undo[s], undo[s].keep + 1)]
          /\ writes' = [writes EXCEPT ![s] = writes[s]]
          /\ prob' = prob
        BY <1>4, <2>2 DEF Unwind
    <2>4. undo'[s] = NextTurn(undo[s], undo[s].keep + 1) /\ Others(s) /\ writes'[s] = writes[s]
        BY <1>2, <2>3 DEF TypeOK, Others, Same
    <2>5. Turns(s)
      <3>1. /\ undo'[s].goal = undo[s].goal /\ undo'[s].error = undo[s].error
            /\ undo'[s].clear = undo[s].clear /\ undo'[s].at = undo[s].at + 1
            /\ undo'[s].keep = undo[s].keep + 1 /\ undo'[s] # NoUndo
        <4>1. PICK k \in Nat : k = undo[s].keep + 1
            BY <1>1
        <4>2. undo'[s] = NextTurn(undo[s], k)
            BY <2>4, <4>1
        <4>3. LET u == NextTurn(undo[s], k)
              IN /\ u.goal = undo[s].goal /\ u.error = undo[s].error
                 /\ u.clear = undo[s].clear /\ u.at = undo[s].at + 1
                 /\ u.keep = k /\ u # NoUndo
            BY <1>1, NextTurnFacts
        <4>4. QED
            BY <4>1, <4>2, <4>3
      <3>2. QED
          BY <1>1, <1>2, <1>4, <2>4, <3>1 DEF Turns, NextEntry
    <2>6. QED
        BY <1>1, <1>2, <1>4, <2>3, <2>4, <2>5 DEF NextEntry
  <1>5. QED
      BY <1>3, <1>4

\* At the end of the loop of a transaction nothing is left of the list.
LEMMA CutsEffect ==
    ASSUME TypeOK, ListInv, NEW s \in Sessions, UnwindDone(s)
    PROVE  /\ Others(s) /\ ((Ends(s) /\ level[s] = 1) \/ Cuts(s))
           /\ undo[s] # NoUndo /\ undo[s].at = Len(writes[s]) + 1
           /\ UNCHANGED <<prob, committed, kept, excused>>
  <1> DEFINE list == [i \in 1..undo[s].keep |-> writes[s][i]]
  <1>1. /\ undo[s] # NoUndo /\ undo[s].at = Len(writes[s]) + 1
        /\ undo[s].keep \in Nat /\ undo[s].keep <= Len(writes[s])
        /\ level[s] \in Levels /\ undo[s].goal \in 1..level[s]
        /\ (undo[s].error => undo[s].goal = level[s])
      BY SessionFacts, KeepBound DEF UnwindDone
  <1>2. /\ Len(list) = undo[s].keep
        /\ \A i \in 1..undo[s].keep : list[i] = writes[s][i]
      BY <1>1, SessionFacts, PrefixFacts
  <1>3. writes' = [writes EXCEPT ![s] = list] /\ writes'[s] = list
      BY DEF UnwindDone, LevelAborted, TypeOK
  <1>4. UNCHANGED <<prob, committed, kept, excused>> /\ LevelAborted(s, list)
      BY DEF UnwindDone
  <1> HIDE DEF list
  <1>5. CASE level[s] = 1
    <2>1. undo[s].keep = 0
      <3>1. ASSUME undo[s].keep # 0
            PROVE  FALSE
        <4>1. 1 \in 1..Len(writes[s]) /\ 1 <= undo[s].keep
            BY <1>1, <3>1, SessionFacts
        <4>2. ~Doomed(s, writes[s][1]) /\ writes[s][1].nest_level \in Levels
            BY <1>1, <4>1, SessionFacts DEF ListInv, InOrder, LoopInv
        <4>3. QED
            BY <1>5, <4>2 DEF Doomed, UnwindFrom, Levels
      <3>2. QED
          BY <3>1
    <2>2. list = <<>>
        BY <2>1 DEF list
    <2>3. EndTransaction(s)
      <3>1. ~(level[s] > 1) /\ ~(level[s] > undo[s].goal)
          BY <1>1, <1>5
      <3>2. QED
          BY <1>4, <3>1, Zenon DEF LevelAborted
    <2>4. QED
        BY <1>1, <1>3, <1>4, <1>5, <2>2, <2>3, EndsEffect
  <1>6. CASE level[s] # 1
    <2>1. level[s] > 1
        BY <1>1, <1>6 DEF Levels
    <2>2. CASE /\ failed' = [failed EXCEPT ![s] = TRUE] /\ undo[s].error
               /\ undo' = [undo EXCEPT ![s] = NoUndo]
               /\ UNCHANGED <<level, registered, fresh, xacts, vouched>>
        BY <1>1, <1>2, <1>3, <1>4, <2>1, <2>2 DEF Others, Same, Cuts, TypeOK
    <2>3. CASE /\ undo' = [undo EXCEPT ![s] = NoUndo] /\ level[s] = undo[s].goal
               /\ UNCHANGED <<level, failed, registered, fresh, xacts, vouched>>
        BY <1>1, <1>2, <1>3, <1>4, <2>1, <2>3 DEF Others, Same, Cuts, TypeOK
    <2>4. CASE /\ level[s] > undo[s].goal
               /\ level' = [level EXCEPT ![s] = @ - 1]
               /\ undo' = [undo EXCEPT ![s] = Loop(@.goal, FALSE, TRUE)]
               /\ UNCHANGED <<failed, registered, fresh, xacts, vouched>>
      <3>1. undo[s].goal < level[s]
          BY <1>1, <2>4 DEF Levels
      <3>2. /\ level'[s] = level[s] - 1 /\ undo'[s] = Loop(undo[s].goal, FALSE, TRUE)
            /\ vouched'[s] = vouched[s] /\ failed'[s] = failed[s] /\ Others(s)
          BY <1>3, <2>4 DEF Others, Same, TypeOK
      <3>3. QED
          BY <1>1, <1>2, <1>3, <1>4, <2>1, <3>1, <3>2 DEF Cuts
    <2>5. QED
        BY <1>4, <1>6, <2>2, <2>3, <2>4 DEF LevelAborted
  <1>7. QED
      BY <1>5, <1>6

LEMMA FailsEffect ==
    ASSUME TypeOK, ListInv, NEW s \in Sessions, UnwindFails(s)
    PROVE  /\ Others(s) /\ ((Ends(s) /\ level[s] = 1) \/ Restarts(s))
           /\ undo[s] # NoUndo /\ undo[s].clear /\ undo[s].at \in 1..Len(writes[s])
           /\ UNCHANGED <<prob, committed, kept>>
           /\ excused \subseteq excused'
           /\ \A i \in 1..Len(writes[s]) :
                 i >= undo[s].at /\ Doomed(s, writes[s][i]) => writes[s][i].token \in excused'
  <1>1. /\ undo[s] # NoUndo /\ undo[s].clear /\ undo[s].at \in 1..Len(writes[s])
        /\ level[s] \in Levels
      BY SessionFacts, KeepBound DEF UnwindFails, Unwinding
  <1>2. /\ excused \subseteq excused'
        /\ \A i \in 1..Len(writes[s]) :
              i >= undo[s].at /\ Doomed(s, writes[s][i]) => writes[s][i].token \in excused'
    <2>1. excused' = excused \cup {writes[s][i].token : i \in
                      {j \in undo[s].at..Len(writes[s]) : Doomed(s, writes[s][j])}}
        BY DEF UnwindFails
    <2>2. \A i \in 1..Len(writes[s]) : i >= undo[s].at => i \in undo[s].at..Len(writes[s])
        BY <1>1, SessionFacts
    <2>3. QED
        BY <2>1, <2>2
  <1>3. UNCHANGED <<prob, committed, kept>>
      BY DEF UnwindFails
  <1>4. CASE level[s] = 1
    <2>1. writes' = [writes EXCEPT ![s] = <<>>] /\ EndTransaction(s)
      <3>1. undo[s].goal \in 1..level[s]
          BY <1>1, KeepBound
      <3>2. QED
        <4>1. ~(level[s] > 1) /\ ~(level[s] > undo[s].goal)
            BY <1>4, <3>1
        <4>2. LevelAborted(s, <<>>)
            BY <1>4 DEF UnwindFails
        <4>3. QED
            BY <4>1, <4>2, Zenon DEF LevelAborted
    <2>2. QED
        BY <1>1, <1>2, <1>3, <1>4, <2>1, EndsEffect
  <1>5. CASE level[s] # 1
    <2>1. /\ undo' = [undo EXCEPT ![s] = Loop(undo[s].goal, undo[s].error, FALSE)]
          /\ UNCHANGED <<writes, level, failed, vouched>>
        BY <1>5 DEF UnwindFails
    <2>2. level[s] > 1
        BY <1>1, <1>5 DEF Levels
    <2>3. QED
        BY <1>1, <1>2, <1>3, <2>1, <2>2 DEF Others, Same, Restarts, TypeOK
  <1>6. QED
      BY <1>4, <1>5

LEMMA ToldEffect ==
    ASSUME TypeOK, NEW s \in Sessions, NEW t \in Tokens, NEW p \in Probs, SetProb(s, t, p)
    PROVE  /\ Others(s) /\ UNCHANGED <<committed, kept, excused>>
           /\ \/ Told(s, t, p, TRUE) /\ prob[t] = NaN /\ prob' = [prob EXCEPT ![t] = p]
              \/ Told(s, t, p, FALSE) /\ prob[t] = p /\ prob' = prob
  <1>1. SetProbResult(t, p) \in {"Written", "Unchanged"}
      BY DEF SetProb
  <1>2. Active(s) /\ Others(s) /\ UNCHANGED <<committed, kept, excused>>
      BY DEF SetProb, prob_writes_record, Others, Same, TypeOK
  <1>3. level'[s] = level[s] /\ failed'[s] = failed[s] /\ undo'[s] = undo[s]
      BY DEF SetProb
  <1>4. \A l \in Levels : vouched'[s][l] =
          IF l = level[s] THEN vouched[s][l] \cup {<<t, p, SetProbResult(t, p) = "Written">>}
          ELSE vouched[s][l]
      BY DEF SetProb, TypeOK
  <1>5. CASE SetProbResult(t, p) = "Written"
    <2>1. prob[t] = NaN
        BY <1>5 DEF SetProbResult
    <2>2. writes'[s] = Append(writes[s], [token |-> t, nest_level |-> level[s]])
        BY <1>5 DEF SetProb, prob_writes_record, Recorded, TypeOK
    <2>3. /\ Len(writes'[s]) = Len(writes[s]) + 1
          /\ \A i \in 1..Len(writes[s]) : writes'[s][i] = writes[s][i]
          /\ writes'[s][Len(writes[s]) + 1] = [token |-> t, nest_level |-> level[s]]
      <3>1. writes[s] \in Seq(ProbWrite) /\ [token |-> t, nest_level |-> level[s]] \in ProbWrite
        <4>1. level[s] \in Levels
            BY <1>2, SessionFacts DEF Active, Levels
        <4>2. QED
            BY <4>1, SessionFacts DEF ProbWrite
      <3>2. QED
          BY <2>2, <3>1
    <2>4. Told(s, t, p, TRUE)
      <3>1. \A l \in Levels : vouched'[s][l] =
              IF l = level[s] THEN vouched[s][l] \cup {<<t, p, TRUE>>} ELSE vouched[s][l]
          BY <1>4, <1>5
      <3>2. /\ writes'[s][Len(writes[s]) + 1].token = t
            /\ writes'[s][Len(writes[s]) + 1].nest_level = level[s]
          BY <2>3
      <3>3. QED
          BY <1>2, <1>3, <2>3, <3>1, <3>2 DEF Told
    <2>5. prob' = [prob EXCEPT ![t] = p]
        BY DEF SetProb
    <2>6. QED
        BY <1>2, <2>1, <2>4, <2>5
  <1>6. CASE SetProbResult(t, p) = "Unchanged"
    <2>1. prob[t] = p
        BY <1>6 DEF SetProbResult
    <2>2. writes'[s] = writes[s]
        BY <1>6 DEF SetProb, Recorded
    <2>3. Told(s, t, p, FALSE)
        BY <1>2, <1>3, <1>4, <1>6, <2>2 DEF Told
    <2>4. prob' = prob
        BY <2>1 DEF SetProb, TypeOK
    <2>5. QED
        BY <1>2, <2>1, <2>3, <2>4
  <1>7. QED
      BY <1>1, <1>5, <1>6
-----------------------------------------------------------------------------
(* The lists stay in order *)

LEMMA OrderSame ==
    ASSUME NEW s \in Sessions, InOrder(s), Same(s)
    PROVE  InOrder(s)'
BY DEF InOrder, LoopInv, Doomed, UnwindFrom, Same

LEMMA OrderEnds ==
    ASSUME NEW s \in Sessions, Ends(s)
    PROVE  InOrder(s)'
BY EmptyList DEF InOrder, Ends

LEMMA OrderOpens ==
    ASSUME TypeOK, NEW s \in Sessions, InOrder(s), Opens(s)
    PROVE  InOrder(s)'
  <1>1. /\ undo[s] = NoUndo /\ ~failed[s] /\ level[s] \in Nat /\ Len(writes[s]) \in Nat
        /\ level'[s] = level[s] + 1 /\ ~failed'[s] /\ undo'[s] = NoUndo
        /\ writes'[s] = writes[s] /\ vouched'[s] = vouched[s]
      BY SessionFacts DEF Opens
  <1>2. \A i \in 1..Len(writes[s]) :
           writes[s][i].nest_level \in Nat /\ writes[s][i].nest_level <= level[s]
      BY SessionFacts DEF InOrder, Levels
  <1>3. \A i \in 1..Len(writes'[s]) : writes'[s][i].nest_level <= level'[s]
      BY <1>1, <1>2
  <1>4. \A l \in Levels : l > level'[s] => vouched'[s][l] = {}
      BY <1>1 DEF InOrder, Levels
  <1>5. level'[s] # 0
      BY <1>1
  <1>6. QED
      BY <1>1, <1>3, <1>4, <1>5 DEF InOrder

LEMMA OrderResumes ==
    ASSUME TypeOK, NEW s \in Sessions, InOrder(s), Resumes(s)
    PROVE  InOrder(s)'
BY SessionFacts DEF InOrder, Resumes, Levels

LEMMA OrderReleases ==
    ASSUME TypeOK, NEW s \in Sessions, InOrder(s), Releases(s)
    PROVE  InOrder(s)'
  <1>1. undo[s] = NoUndo /\ ~failed[s] /\ level[s] > 1 /\ level[s] \in Nat
      BY SessionFacts DEF Releases, Active
  <1>2. undo'[s] = NoUndo /\ ~failed'[s] /\ level'[s] = level[s] - 1
      BY <1>1 DEF Releases
  <1>3. \A l \in Levels : l > level'[s] => vouched'[s][l] = {}
    <2>1. TAKE l \in Levels
    <2>2. HAVE l > level'[s]
    <2>3. l \in Nat /\ l # level[s] - 1 /\ (l = level[s] \/ l > level[s])
        BY <1>1, <1>2, <2>2 DEF Levels
    <2>4. vouched'[s][l] = IF l = level[s] THEN {} ELSE vouched[s][l]
        BY <2>3 DEF Releases
    <2>5. QED
        BY <2>3, <2>4 DEF InOrder
  <1>4. \A i \in 1..Len(writes'[s]) : writes'[s][i].nest_level <= level'[s]
    <2>1. Len(writes'[s]) = Len(writes[s])
        BY DEF Releases
    <2>2. TAKE i \in 1..Len(writes'[s])
    <2>3. /\ writes[s][i].nest_level \in Nat
          /\ writes[s][i].nest_level <= level[s]
        BY <2>1, SessionFacts DEF InOrder, Levels
    <2>4. writes'[s][i].nest_level =
             IF writes[s][i].nest_level >= level[s] THEN level[s] - 1 ELSE writes[s][i].nest_level
        BY <2>1 DEF Releases
    <2>5. QED
        BY <1>1, <1>2, <2>3, <2>4
  <1>5. \A i, j \in 1..Len(writes'[s]) :
           i <= j => writes'[s][i].nest_level <= writes'[s][j].nest_level
    <2>1. Len(writes'[s]) = Len(writes[s])
        BY DEF Releases
    <2>2. TAKE i, j \in 1..Len(writes'[s])
    <2>3. HAVE i <= j
    <2>4. /\ writes[s][i].nest_level \in Nat /\ writes[s][j].nest_level \in Nat
          /\ writes[s][i].nest_level <= writes[s][j].nest_level
          /\ writes[s][j].nest_level <= level[s]
        BY <2>1, <2>3, SessionFacts DEF InOrder, Levels
    <2>5. \A k \in {i, j} : writes'[s][k].nest_level =
             IF writes[s][k].nest_level >= level[s] THEN level[s] - 1 ELSE writes[s][k].nest_level
        BY <2>1 DEF Releases
    <2>6. QED
        BY <1>1, <2>4, <2>5
  <1>6. level'[s] # 0
      BY <1>1, <1>2
  <1>7. QED
      BY <1>2, <1>3, <1>4, <1>5, <1>6 DEF InOrder

LEMMA OrderAborts ==
    ASSUME TypeOK, NEW s \in Sessions, InOrder(s), Aborts(s)
    PROVE  InOrder(s)'
  <1>1. PICK n \in Levels, e \in BOOLEAN :
           /\ n <= level'[s] /\ (e => n = level'[s])
           /\ undo'[s] = Loop(n, e, TRUE)
           /\ \A l \in Levels : vouched'[s][l] = IF l >= n THEN {} ELSE vouched[s][l]
      BY DEF Aborts
  <1>2. /\ undo'[s].goal = n /\ undo'[s].at = 1 /\ undo'[s].keep = 0 /\ undo'[s].error = e
        /\ undo'[s] # NoUndo
      BY <1>1 DEF Loop, NoUndo, Levels
  <1>3. /\ level[s] \in Nat /\ level'[s] \in Nat /\ level'[s] >= n /\ n \in Nat /\ n >= 1
        /\ (level'[s] = level[s] \/ level'[s] = level[s] - 1)
      BY <1>1, SessionFacts DEF Aborts, InOrder, Levels
  <1>4. /\ writes'[s] = writes[s] /\ ~failed'[s] /\ Len(writes[s]) \in Nat
        /\ \A i \in 1..Len(writes[s]) : writes[s][i].nest_level \in Nat
      BY SessionFacts DEF Aborts, Levels
  <1>5. \A i \in 1..Len(writes[s]) : writes[s][i].nest_level <= level'[s]
      BY <1>3, <1>4 DEF Aborts, InOrder
  <1>6. \A l \in Levels : l > level'[s] => vouched'[s][l] = {}
      BY <1>1, <1>3 DEF Levels
  <1>7. LoopInv(s)'
    <2>1. undo'[s].goal \in 1..level'[s] /\ (undo'[s].error => undo'[s].goal = level'[s])
      <3>1. PICK m \in Nat : m = level'[s]
          BY <1>3
      <3>2. n \in 1..m
          BY <1>3, <3>1
      <3>3. undo'[s].error => undo'[s].goal = level'[s]
          BY <1>1, <1>2, Zenon
      <3>4. QED
          BY <1>2, <3>1, <3>2, <3>3
    <2>2. undo'[s].at \in 1..(Len(writes'[s]) + 1) /\ undo'[s].keep < undo'[s].at
        BY <1>2, <1>4
    <2>3. \A l \in Levels : l >= undo'[s].goal => vouched'[s][l] = {}
        BY <1>1, <1>2
    <2>4. \A i \in 1..Len(writes'[s]) : ~(i <= undo'[s].keep) /\ ~(undo'[s].keep < i /\ i < undo'[s].at)
        BY <1>2, <1>4
    <2>5. QED
        BY <2>1, <2>2, <2>3, <2>4 DEF LoopInv
  <1>8. \A i, j \in 1..Len(writes'[s]) :
           i <= j => writes'[s][i].nest_level <= writes'[s][j].nest_level
      BY <1>4 DEF InOrder
  <1>9. level'[s] # 0
      BY <1>3
  <1>10. QED
      BY <1>4, <1>5, <1>6, <1>7, <1>8, <1>9 DEF InOrder

LEMMA OrderTurns ==
    ASSUME TypeOK, ListInv, NEW s \in Sessions, Turns(s)
    PROVE  InOrder(s)'
  <1>0. InOrder(s)
      BY DEF ListInv
  <1>1. /\ undo[s].at \in Nat /\ undo[s].keep \in Nat /\ Len(writes[s]) \in Nat
        /\ undo[s].at >= 1 /\ undo[s].at <= Len(writes[s]) /\ undo[s].keep < undo[s].at
        /\ undo[s] # NoUndo /\ undo'[s] # NoUndo
      BY <1>0, SessionFacts DEF Turns, InOrder, LoopInv
  <1>2. /\ level'[s] = level[s] /\ failed'[s] = failed[s] /\ writes'[s] = writes[s]
        /\ vouched'[s] = vouched[s]
        /\ undo'[s].goal = undo[s].goal /\ undo'[s].error = undo[s].error
        /\ undo'[s].at = undo[s].at + 1
        /\ undo'[s].keep = IF Doomed(s, writes[s][undo[s].at])
                           THEN undo[s].keep ELSE undo[s].keep + 1
      BY DEF Turns
  <1>3. \A i \in 1..Len(writes[s]) : Doomed(s, writes[s][i])' = Doomed(s, writes[s][i])
      BY <1>2 DEF Doomed, UnwindFrom
  <1>4. /\ undo'[s].at \in 1..(Len(writes[s]) + 1) /\ undo'[s].keep < undo'[s].at
      BY <1>1, <1>2
  <1>5. ASSUME NEW i \in 1..Len(writes[s])
        PROVE  /\ i <= undo'[s].keep => ~Doomed(s, writes[s][i])
               /\ undo'[s].keep < i /\ i < undo'[s].at => Doomed(s, writes[s][i])
    <2>1. /\ i <= undo[s].keep => ~Doomed(s, writes[s][i])
          /\ undo[s].keep < i /\ i < undo[s].at => Doomed(s, writes[s][i])
        BY <1>0, <1>1 DEF InOrder, LoopInv
    <2>2. CASE Doomed(s, writes[s][undo[s].at])
        BY <1>1, <1>2, <2>1, <2>2
    <2>3. CASE ~Doomed(s, writes[s][undo[s].at])
      <3>1. undo[s].keep + 1 = undo[s].at
          BY <1>1, <2>3, KeptInPlace DEF Unwinding, NextEntry
      <3>2. QED
          BY <1>1, <1>2, <2>1, <2>3, <3>1
    <2>4. QED
        BY <2>2, <2>3
  <1>6. QED
      BY <1>0, <1>1, <1>2, <1>3, <1>4, <1>5 DEF InOrder, LoopInv

LEMMA OrderCuts ==
    ASSUME TypeOK, NEW s \in Sessions, InOrder(s), Cuts(s)
    PROVE  InOrder(s)'
  <1>1. /\ undo[s] # NoUndo /\ level[s] > 1 /\ level[s] \in Nat
        /\ undo[s].keep \in Nat /\ undo[s].keep <= Len(writes[s]) /\ Len(writes[s]) \in Nat
        /\ undo[s].goal \in 1..level[s] /\ ~failed[s]
        /\ (undo[s].error => undo[s].goal = level[s])
      BY SessionFacts DEF Cuts, InOrder, LoopInv
  <1>2. /\ Len(writes'[s]) = undo[s].keep /\ vouched'[s] = vouched[s]
        /\ \A i \in 1..undo[s].keep : writes'[s][i] = writes[s][i]
      BY DEF Cuts
  <1>3. \A i \in 1..undo[s].keep :
           writes[s][i].nest_level \in Nat /\ writes[s][i].nest_level < level[s]
      BY <1>1, SessionFacts DEF InOrder, LoopInv, Doomed, UnwindFrom, Levels
  <1>4. \A i, j \in 1..Len(writes'[s]) :
           i <= j => writes'[s][i].nest_level <= writes'[s][j].nest_level
      BY <1>1, <1>2 DEF InOrder
  <1>5. \A l \in Levels : l >= undo[s].goal => vouched[s][l] = {}
      BY <1>1 DEF InOrder, LoopInv
  <1>6. /\ level'[s] \in Nat /\ level'[s] > 0
        /\ (level'[s] = level[s] \/ (level'[s] = level[s] - 1 /\ level'[s] >= undo[s].goal))
    <2>1. level'[s] = level[s] \/ (level'[s] = level[s] - 1 /\ undo[s].goal < level[s])
        BY DEF Cuts
    <2>2. QED
        BY <1>1, <2>1
  <1>7. \A l \in Levels : l > level'[s] => vouched'[s][l] = {}
      BY <1>1, <1>2, <1>5, <1>6 DEF Levels
  <1>8. \A i \in 1..Len(writes'[s]) : writes'[s][i].nest_level <= level'[s]
    <2>1. TAKE i \in 1..Len(writes'[s])
    <2>2. /\ writes'[s][i].nest_level = writes[s][i].nest_level
          /\ writes[s][i].nest_level \in Nat /\ writes[s][i].nest_level < level[s]
        BY <1>1, <1>2, <1>3
    <2>3. QED
        BY <1>1, <1>6, <2>2
  <1>9. failed'[s] =>
           /\ level'[s] > 1 /\ undo'[s] = NoUndo /\ vouched'[s][level'[s]] = {}
           /\ \A i \in 1..Len(writes'[s]) : writes'[s][i].nest_level < level'[s]
    <2>1. ASSUME failed'[s]
          PROVE  undo'[s] = NoUndo /\ level'[s] = level[s] /\ undo[s].goal = level[s]
        BY <1>1, <2>1 DEF Cuts
    <2>2. level[s] \in Levels
        BY <1>1, SessionFacts DEF Levels
    <2>3. QED
        BY <1>1, <1>2, <1>3, <1>5, <2>1, <2>2
  <1>10. undo'[s] # NoUndo => LoopInv(s)'
    <2>1. SUFFICES ASSUME undo'[s] # NoUndo
                   PROVE  LoopInv(s)'
        OBVIOUS
    <2>2. undo'[s] = Loop(undo[s].goal, FALSE, TRUE) /\ level'[s] = level[s] - 1
        BY <2>1 DEF Cuts
    <2>3. /\ undo'[s].goal = undo[s].goal /\ undo'[s].at = 1 /\ undo'[s].keep = 0
          /\ undo'[s].error = FALSE
        BY <2>2 DEF Loop
    <2>4. undo'[s].goal \in 1..level'[s]
      <3>1. PICK g \in Nat : g = undo[s].goal /\ g >= 1
          BY <1>1
      <3>2. PICK m \in Nat : m = level[s] /\ m > 1
          BY <1>1
      <3>3. g < m
          BY <2>1, <3>1, <3>2, NoUndoFacts DEF Cuts
      <3>4. g \in 1..(m - 1)
          BY <3>1, <3>2, <3>3
      <3>5. QED
          BY <2>2, <2>3, <3>1, <3>2, <3>4
    <2>5. undo'[s].at \in 1..(Len(writes'[s]) + 1) /\ undo'[s].keep < undo'[s].at
        BY <1>1, <1>2, <2>3
    <2>6. \A i \in 1..Len(writes'[s]) : ~(i <= undo'[s].keep) /\ ~(undo'[s].keep < i /\ i < undo'[s].at)
        BY <1>1, <1>2, <2>3
    <2>7. QED
        BY <1>2, <1>5, <2>3, <2>4, <2>5, <2>6 DEF LoopInv
  <1>11. QED
      BY <1>4, <1>6, <1>7, <1>8, <1>9, <1>10 DEF InOrder

LEMMA OrderRestarts ==
    ASSUME TypeOK, NEW s \in Sessions, InOrder(s), Restarts(s)
    PROVE  InOrder(s)'
  <1>1. /\ undo[s] # NoUndo /\ undo[s].goal \in 1..level[s] /\ Len(writes[s]) \in Nat
        /\ (undo[s].error => undo[s].goal = level[s])
      BY SessionFacts DEF Restarts, InOrder, LoopInv
  <1>2. /\ undo'[s].goal = undo[s].goal /\ undo'[s].at = 1 /\ undo'[s].keep = 0
        /\ undo'[s].error = undo[s].error
      BY DEF Restarts, Loop
  <1>3. undo'[s] # NoUndo
      BY <1>1, <1>2, NoUndoFacts
  <1>4. /\ level'[s] = level[s] /\ failed'[s] = failed[s] /\ writes'[s] = writes[s]
        /\ vouched'[s] = vouched[s]
      BY DEF Restarts
  <1>5. LoopInv(s)'
    <2>1. undo'[s].at \in 1..(Len(writes'[s]) + 1) /\ undo'[s].keep < undo'[s].at
        BY <1>1, <1>2, <1>4
    <2>2. \A i \in 1..Len(writes'[s]) : ~(i <= undo'[s].keep) /\ ~(undo'[s].keep < i /\ i < undo'[s].at)
        BY <1>1, <1>2, <1>4
    <2>3. \A l \in Levels : l >= undo[s].goal => vouched[s][l] = {}
        BY <1>1 DEF InOrder, LoopInv
    <2>4. QED
        BY <1>1, <1>2, <1>4, <2>1, <2>2, <2>3 DEF LoopInv
  <1>6. QED
      BY <1>1, <1>3, <1>4, <1>5 DEF InOrder

LEMMA OrderTold ==
    ASSUME TypeOK, NEW s \in Sessions, InOrder(s),
           NEW t, NEW p, NEW b \in BOOLEAN, Told(s, t, p, b)
    PROVE  InOrder(s)'
  <1>1. /\ undo[s] = NoUndo /\ ~failed[s] /\ level[s] \in Nat /\ level[s] > 0
        /\ Len(writes[s]) \in Nat
      BY SessionFacts DEF Told, Active
  <1>2. undo'[s] = NoUndo /\ ~failed'[s] /\ level'[s] = level[s]
      BY <1>1 DEF Told
  <1>3. \A l \in Levels : l > level'[s] => vouched'[s][l] = {}
    <2>1. TAKE l \in Levels
    <2>2. HAVE l > level'[s]
    <2>3. l # level[s] /\ l > level[s]
        BY <1>1, <1>2, <2>2 DEF Levels
    <2>4. QED
        BY <2>3 DEF Told, InOrder
  <1>4. \A i \in 1..Len(writes'[s]) :
           /\ writes'[s][i].nest_level <= level'[s]
           /\ \A j \in 1..Len(writes'[s]) :
                 i <= j => writes'[s][i].nest_level <= writes'[s][j].nest_level
    <2>1. \A i \in 1..Len(writes[s]) :
             /\ writes[s][i].nest_level <= level[s]
             /\ \A j \in 1..Len(writes[s]) :
                   i <= j => writes[s][i].nest_level <= writes[s][j].nest_level
        BY DEF InOrder
    <2>2. CASE ~b
        BY <1>2, <2>1, <2>2 DEF Told
    <2>3. CASE b
      <3>1. /\ Len(writes'[s]) = Len(writes[s]) + 1
            /\ \A i \in 1..Len(writes[s]) : writes'[s][i] = writes[s][i]
            /\ writes'[s][Len(writes[s]) + 1].nest_level = level[s]
          BY <2>3 DEF Told
      <3>2. PICK n \in Nat : n = Len(writes[s])
          BY <1>1
      <3>3. \A i \in 1..(n + 1) : i \in 1..n \/ i = n + 1
          BY <3>2
      <3>4. \A i \in 1..(n + 1) :
               /\ writes'[s][i].nest_level <= level[s]
               /\ i \in 1..n => writes'[s][i] = writes[s][i]
               /\ i = n + 1 => writes'[s][i].nest_level = level[s]
          BY <1>1, <2>1, <3>1, <3>2, <3>3
      <3>5. ASSUME NEW i \in 1..(n + 1), NEW j \in 1..(n + 1), i <= j
            PROVE  writes'[s][i].nest_level <= writes'[s][j].nest_level
        <4>1. CASE j = n + 1
            BY <3>4, <4>1
        <4>2. CASE j # n + 1
          <5>1. i \in 1..n /\ j \in 1..n
              BY <3>2, <3>5, <4>2
          <5>2. QED
              BY <2>1, <3>2, <3>4, <3>5, <5>1
        <4>3. QED
            BY <4>1, <4>2
      <3>6. QED
          BY <1>2, <3>1, <3>2, <3>4, <3>5
    <2>4. QED
        BY <2>2, <2>3
  <1>5. QED
      BY <1>1, <1>2, <1>3, <1>4 DEF InOrder
-----------------------------------------------------------------------------
(* The steps, by their effects *)

store == <<prob, committed, kept, excused>>

\* Nothing the invariant speaks of.
Quiet == (\A r \in Sessions : Same(r)) /\ UNCHANGED store

\* A session goes on in its transaction, the store is left alone.
Moves(s) ==
    /\ Others(s) /\ (Opens(s) \/ Resumes(s) \/ Releases(s) \/ Aborts(s))
    /\ UNCHANGED store

Accepts(s) ==
    \E t \in Tokens, p \in Probs : s \in Writers(t) /\ SetProb(s, t, p)

LEMMA ErrorMoves ==
    ASSUME TypeOK, NEW s \in Sessions, Active(s), Error(s)
    PROVE  Moves(s)
  <1>1. level[s] \in Levels /\ level[s] <= level[s]
      BY SessionFacts DEF Active, Levels
  <1>2. StartAbort(s, level[s], TRUE) /\ UNCHANGED failed
      BY DEF Error
  <1>3. Others(s) /\ Aborts(s)
      BY <1>1, <1>2, AbortsEffect
  <1>4. QED
      BY <1>2, <1>3 DEF Moves, store, StartAbort

LEMMA Steps ==
    ASSUME TypeOK, ListInv, Next
    PROVE  \/ Quiet \/ Crash
           \/ \E s \in Sessions :
                 \/ Moves(s) \/ Unwind(s) \/ UnwindDone(s) \/ UnwindFails(s)
                 \/ Commit(s) \/ Prepare(s) \/ Accepts(s)
  <1>1. ASSUME NEW s \in Sessions, Begin(s) \/ Savepoint(s)
        PROVE  Moves(s)
    <2>1. UNCHANGED store
        BY <1>1 DEF Begin, Savepoint, store, ghosts
    <2>2. QED
        BY <1>1, <2>1, OpensEffect DEF Moves
  <1>2. ASSUME NEW s \in Sessions, Release(s)
        PROVE  Moves(s)
      BY <1>2, ReleasesEffect DEF Moves, Release, store
  <1>3. ASSUME NEW s \in Sessions, PrepareRefused(s)
        PROVE  Moves(s)
      BY <1>3, ErrorMoves DEF PrepareRefused
  <1>4. ASSUME NEW s \in Sessions, NEW n \in Levels, RollbackTo(s, n)
        PROVE  Moves(s)
    <2>1. Active(s) /\ n <= level[s] /\ StartAbort(s, n, FALSE) /\ UNCHANGED failed
        BY <1>4 DEF RollbackTo
    <2>2. Others(s) /\ Aborts(s)
        BY <2>1, AbortsEffect
    <2>3. QED
        BY <2>1, <2>2 DEF Moves, store, StartAbort
  <1>5. ASSUME NEW s \in Sessions, NEW n \in Levels, RollbackFailed(s, n)
        PROVE  Moves(s)
    <2>1. UNCHANGED store
      <3>1. CASE n = level[s]
          BY <1>5, <3>1 DEF RollbackFailed, store, ghosts
      <3>2. CASE n # level[s]
          BY <1>5, <3>2 DEF RollbackFailed, store
      <3>3. QED
          BY <3>1, <3>2
    <2>2. QED
        BY <1>5, <2>1, RollbackFailedEffect DEF Moves
  <1>6. ASSUME NEW s \in Sessions, NEW o \in Offers[s], NEW t \in Tokens, t = Peel(o[1]),
               SetProb(s, t, o[2]) \/ SetProbRefused(s, t, o[2])
        PROVE  Accepts(s) \/ Moves(s)
    <2>1. CASE SetProb(s, t, o[2])
      <3>1. s \in Writers(t)
          BY <1>6 DEF Writers
      <3>2. QED
          BY <2>1, <3>1, OffersFacts DEF Accepts
    <2>2. CASE SetProbRefused(s, t, o[2])
        BY <2>2, ErrorMoves DEF SetProbRefused
    <2>3. QED
        BY <1>6, <2>1, <2>2
  <1>7. ASSUME NEW s \in Sessions, Reconnect(s) \/ \E t \in Leaves[s] : NoteFreshLeaf(s, t)
        PROVE  Quiet
      BY <1>7 DEF Reconnect, NoteFreshLeaf, Quiet, Same, store, ghosts
  <1>8. QED
      BY <1>1, <1>2, <1>3, <1>4, <1>5, <1>6, <1>7 DEF Next

LEMMA CrashEffect ==
    ASSUME TypeOK, Crash
    PROVE  /\ \A s \in Sessions : Ends(s)
           /\ UNCHANGED <<prob, committed, kept>> /\ excused \subseteq excused'
           /\ \A s \in Sessions : \A i \in 1..Len(writes[s]) : writes[s][i].token \in excused'
  <1>1. \A s \in Sessions : Ends(s)
      BY DEF Crash, Ends
  <1>2. /\ excused \subseteq excused'
        /\ \A s \in Sessions : \A i \in 1..Len(writes[s]) : writes[s][i].token \in excused'
      BY DEF Crash
  <1>3. QED
      BY <1>1, <1>2 DEF Crash

LEMMA CommitEffect ==
    ASSUME TypeOK, NEW s \in Sessions, Commit(s) \/ Prepare(s)
    PROVE  /\ Active(s) /\ Others(s) /\ Ends(s) /\ UNCHANGED <<prob, excused>>
           /\ committed' \in {committed, committed \cup Pairs(AllVouched(s))}
           /\ kept' = kept \/ kept' = kept \cup Wrote(AllVouched(s))
           /\ Commit(s) => kept' = kept \cup Wrote(AllVouched(s))
           /\ Prepare(s) => writes[s] = <<>>
  <1>1. Active(s) /\ EndTransaction(s) /\ UNCHANGED <<prob, excused>>
      BY DEF Commit, Prepare
  <1>2. writes' = [writes EXCEPT ![s] = <<>>]
      BY DEF Commit, Prepare, TypeOK
  <1>3. QED
      BY <1>1, <1>2, EndsEffect DEF Commit, Prepare

LEMMA ListStep ==
    ASSUME TypeOK, ListInv, Next
    PROVE  ListInv'
  <1>1. \A s \in Sessions : InOrder(s)
      BY DEF ListInv
  <1>2. \A s \in Sessions : Same(s) => InOrder(s)'
      BY <1>1, OrderSame
  <1>3. \A s \in Sessions : Ends(s) => InOrder(s)'
      BY OrderEnds
  <1>4. ASSUME NEW s \in Sessions, Others(s), InOrder(s)'
        PROVE  ListInv'
      BY <1>2, <1>4 DEF Others, ListInv
  <1>5. ASSUME NEW s \in Sessions, Moves(s)
        PROVE  ListInv'
      BY <1>1, <1>4, <1>5, OrderOpens, OrderResumes, OrderReleases, OrderAborts DEF Moves
  <1>6. ASSUME NEW s \in Sessions, Unwind(s)
        PROVE  ListInv'
      BY <1>4, <1>6, TurnsEffect, OrderTurns
  <1>7. ASSUME NEW s \in Sessions, UnwindDone(s)
        PROVE  ListInv'
      BY <1>1, <1>3, <1>4, <1>7, CutsEffect, OrderCuts
  <1>8. ASSUME NEW s \in Sessions, UnwindFails(s)
        PROVE  ListInv'
      BY <1>1, <1>3, <1>4, <1>8, FailsEffect, OrderRestarts
  <1>9. ASSUME NEW s \in Sessions, Commit(s) \/ Prepare(s)
        PROVE  ListInv'
      BY <1>3, <1>4, <1>9, CommitEffect
  <1>10. ASSUME NEW s \in Sessions, Accepts(s)
         PROVE  ListInv'
    <2>1. PICK t \in Tokens, p \in Probs : SetProb(s, t, p)
        BY <1>10 DEF Accepts
    <2>2. Others(s) /\ (Told(s, t, p, TRUE) \/ Told(s, t, p, FALSE))
        BY <2>1, ToldEffect
    <2>3. QED
        BY <1>1, <1>4, <2>2, OrderTold
  <1>11. CASE Quiet
      BY <1>2, <1>11 DEF Quiet, ListInv
  <1>12. CASE Crash
      BY <1>3, <1>12, CrashEffect DEF ListInv
  <1>13. QED
      BY <1>5, <1>6, <1>7, <1>8, <1>9, <1>10, <1>11, <1>12, Steps
-----------------------------------------------------------------------------
(* Who has still to clear what *)

\* No step but the record of a write adds a pending entry.
Shrinks(r) ==
    \A i \in Pending(r)' : i \in Pending(r) /\ writes'[r][i].token = writes[r][i].token

LEMMA AllPending ==
    ASSUME NEW s \in Sessions, undo[s] = NoUndo
    PROVE  Pending(s) = 1..Len(writes[s])
BY DEF Pending

LEMMA LoopPending ==
    ASSUME TypeOK, NEW s \in Sessions, undo[s] # NoUndo
    PROVE  \A i : i \in Pending(s) <=>
              /\ i \in 1..Len(writes[s])
              /\ Doomed(s, writes[s][i]) => undo[s].clear /\ i >= undo[s].at
BY DEF Pending

LEMMA ShrinkSame ==
    ASSUME NEW s \in Sessions, Same(s)
    PROVE  /\ Shrinks(s)
           /\ \A i : i \in Pending(s)' <=> i \in Pending(s)
BY DEF Shrinks, Same, Pending, Doomed, UnwindFrom

\* A step that leaves no loop running, or starts one that clears, has all
\* entries pending after it.
LEMMA ShrinkMoves ==
    ASSUME TypeOK, ListInv, NEW s \in Sessions,
           Opens(s) \/ Resumes(s) \/ Releases(s) \/ Aborts(s)
    PROVE  /\ Shrinks(s) /\ undo[s] = NoUndo /\ Len(writes'[s]) = Len(writes[s])
           /\ \A i \in 1..Len(writes[s]) : writes'[s][i].token = writes[s][i].token
           /\ \A i : i \in Pending(s)' <=> i \in 1..Len(writes[s])
           /\ \A i : i \in Pending(s) <=> i \in 1..Len(writes[s])
  <1>1. /\ undo[s] = NoUndo /\ Len(writes'[s]) = Len(writes[s]) /\ Len(writes[s]) \in Nat
        /\ \A i \in 1..Len(writes[s]) : writes'[s][i].token = writes[s][i].token
      BY SessionFacts DEF Opens, Resumes, Releases, Aborts, Active
  <1>2. \A i : i \in Pending(s) <=> i \in 1..Len(writes[s])
      BY <1>1, AllPending
  <1>3. \A i : i \in Pending(s)' <=> i \in 1..Len(writes[s])
    <2>1. CASE undo'[s] = NoUndo
        BY <1>1, <2>1 DEF Pending
    <2>2. CASE undo'[s] # NoUndo
      <3>1. Aborts(s)
          BY <1>1, <2>2 DEF Opens, Resumes, Releases
      <3>2. undo'[s].clear /\ undo'[s].at = 1
          BY <3>1 DEF Aborts, Loop
      <3>3. QED
          BY <1>1, <3>2 DEF Pending
    <2>3. QED
        BY <2>1, <2>2
  <1>4. QED
      BY <1>1, <1>2, <1>3 DEF Shrinks

LEMMA ShrinkEnds ==
    ASSUME NEW s \in Sessions, Ends(s)
    PROVE  Shrinks(s) /\ Pending(s)' = {}
BY EmptyList DEF Shrinks, Ends, Pending

LEMMA ShrinkTurns ==
    ASSUME TypeOK, ListInv, NEW s \in Sessions, Turns(s)
    PROVE  /\ Shrinks(s)
           /\ \A i : i \in Pending(s)' <=>
                 /\ i \in Pending(s)
                 /\ Doomed(s, writes[s][i]) => i # undo[s].at
           /\ undo[s].clear => undo[s].at \in Pending(s)
  <1>1. /\ undo[s] # NoUndo /\ undo'[s] # NoUndo /\ undo[s].at \in 1..Len(writes[s])
        /\ undo[s].at \in Nat
      BY KeepBound, SessionFacts DEF Turns
  <1>2. \A i : Doomed(s, writes[s][i])' = Doomed(s, writes[s][i])
      BY DEF Turns, Doomed, UnwindFrom
  <1>3. /\ writes'[s] = writes[s] /\ undo'[s].at = undo[s].at + 1
        /\ undo'[s].clear = undo[s].clear
      BY DEF Turns
  <1>4. \A i : i \in Pending(s)' <=>
           /\ i \in 1..Len(writes[s])
           /\ Doomed(s, writes[s][i]) => undo[s].clear /\ i >= undo[s].at + 1
      BY <1>1, <1>2, <1>3 DEF Pending
  <1>5. \A i : i \in Pending(s) <=>
           /\ i \in 1..Len(writes[s])
           /\ Doomed(s, writes[s][i]) => undo[s].clear /\ i >= undo[s].at
      BY <1>1, LoopPending
  <1>6. \A i \in 1..Len(writes[s]) : i >= undo[s].at + 1 <=> i >= undo[s].at /\ i # undo[s].at
      BY <1>1
  <1>7. \A i : i \in Pending(s)' <=>
           i \in Pending(s) /\ (Doomed(s, writes[s][i]) => i # undo[s].at)
      BY <1>4, <1>5, <1>6
  <1>8. undo[s].clear => undo[s].at \in Pending(s)
      BY <1>1, <1>5
  <1>9. QED
      BY <1>3, <1>7, <1>8 DEF Shrinks

\* What the loop has kept is what was not to be dropped, and is what is left.
LEMMA ShrinkCuts ==
    ASSUME TypeOK, ListInv, NEW s \in Sessions, Cuts(s)
    PROVE  /\ Shrinks(s)
           /\ \A i : i \in Pending(s)' <=> i \in Pending(s)
           /\ \A i \in Pending(s) :
                 /\ i \in 1..Len(writes'[s]) /\ writes'[s][i] = writes[s][i]
                 /\ ~Doomed(s, writes[s][i])
  <1>1. /\ undo[s] # NoUndo /\ undo[s].keep \in Nat /\ undo[s].keep <= Len(writes[s])
        /\ undo[s].at = Len(writes[s]) + 1 /\ Len(writes[s]) \in Nat
        /\ Len(writes'[s]) = undo[s].keep
        /\ \A i \in 1..undo[s].keep : writes'[s][i] = writes[s][i]
      BY KeepBound, SessionFacts DEF Cuts
  <1>2. \A i \in 1..Len(writes[s]) : i <= undo[s].keep <=> ~Doomed(s, writes[s][i])
    <2>1. TAKE i \in 1..Len(writes[s])
    <2>2. /\ i <= undo[s].keep => ~Doomed(s, writes[s][i])
          /\ undo[s].keep < i /\ i < undo[s].at => Doomed(s, writes[s][i])
        BY <1>1 DEF ListInv, InOrder, LoopInv
    <2>3. QED
        BY <1>1, <2>2
  <1>3. \A i : i \in Pending(s) <=> i \in 1..undo[s].keep
    <2>1. \A i \in 1..Len(writes[s]) : ~(i >= undo[s].at)
        BY <1>1
    <2>2. \A i : i \in Pending(s) <=> i \in 1..Len(writes[s]) /\ ~Doomed(s, writes[s][i])
        BY <1>1, <2>1, LoopPending
    <2>3. \A i : i \in 1..undo[s].keep <=> i \in 1..Len(writes[s]) /\ i <= undo[s].keep
        BY <1>1
    <2>4. QED
        BY <1>2, <2>2, <2>3
  <1>4. \A i : i \in Pending(s)' <=> i \in 1..undo[s].keep
    <2>1. CASE undo'[s] = NoUndo
        BY <1>1, <2>1 DEF Pending
    <2>2. CASE undo'[s] # NoUndo
      <3>1. undo'[s].clear /\ undo'[s].at = 1
          BY <2>2 DEF Cuts, Loop
      <3>2. QED
          BY <1>1, <3>1 DEF Pending
    <2>3. QED
        BY <2>1, <2>2
  <1>5. \A i \in 1..undo[s].keep : ~Doomed(s, writes[s][i])
      BY <1>1, <1>2
  <1>6. QED
      BY <1>1, <1>3, <1>4, <1>5 DEF Shrinks

LEMMA ShrinkRestarts ==
    ASSUME TypeOK, ListInv, NEW s \in Sessions, Restarts(s)
    PROVE  /\ Shrinks(s)
           /\ \A i : i \in Pending(s)' <=> i \in Pending(s) /\ ~Doomed(s, writes[s][i])
  <1>1. /\ undo[s] # NoUndo /\ undo'[s] # NoUndo /\ ~undo'[s].clear
      BY KeepBound, NoUndoFacts DEF Restarts, Loop, Levels
  <1>2. /\ writes'[s] = writes[s]
        /\ \A i : Doomed(s, writes[s][i])' = Doomed(s, writes[s][i])
      BY DEF Restarts, Doomed, UnwindFrom
  <1>3. \A i : i \in Pending(s)' <=> i \in 1..Len(writes[s]) /\ ~Doomed(s, writes[s][i])
      BY <1>1, <1>2 DEF Pending
  <1>4. QED
      BY <1>1, <1>2, <1>3, LoopPending DEF Shrinks

LEMMA PendingTold ==
    ASSUME TypeOK, NEW s \in Sessions, NEW t, NEW p, NEW b \in BOOLEAN, Told(s, t, p, b)
    PROVE  /\ \A i : i \in Pending(s) <=> i \in 1..Len(writes[s])
           /\ \A i : i \in Pending(s)' <=>
                 i \in 1..Len(writes[s]) \/ (b /\ i = Len(writes[s]) + 1)
           /\ \A i \in 1..Len(writes[s]) : writes'[s][i] = writes[s][i]
           /\ b => writes'[s][Len(writes[s]) + 1].token = t
  <1>1. undo[s] = NoUndo /\ undo'[s] = NoUndo /\ Len(writes[s]) \in Nat
      BY SessionFacts DEF Told, Active
  <1>2. \A i : i \in Pending(s)' <=> i \in 1..Len(writes'[s])
      BY <1>1 DEF Pending
  <1>3. CASE b
      BY <1>1, <1>2, <1>3, AllPending DEF Told
  <1>4. CASE ~b
      BY <1>1, <1>2, <1>4, AllPending DEF Told
  <1>5. QED
      BY <1>3, <1>4
-----------------------------------------------------------------------------
(* Live writes and their entries *)

\* The entry of a live subtransaction is pending, and no loop will drop it.
LEMMA LiveEntryPending ==
    ASSUME TypeOK, ListInv, NEW s \in Sessions, NEW i \in 1..Len(writes[s]), LiveEntry(s, i)
    PROVE  /\ i \in Pending(s)
           /\ undo[s] # NoUndo => ~Doomed(s, writes[s][i])
  <1>1. CASE undo[s] = NoUndo
      BY <1>1, AllPending
  <1>2. CASE undo[s] # NoUndo
    <2>1. /\ undo[s].goal \in 1..level[s] /\ level[s] \in Nat
          /\ writes[s][i].nest_level \in Levels /\ writes[s][i].nest_level < undo[s].goal
        BY <1>2, KeepBound, SessionFacts DEF LiveEntry
    <2>2. ~Doomed(s, writes[s][i])
        BY <2>1 DEF Doomed, UnwindFrom, Levels
    <2>3. QED
        BY <1>2, <2>2, LoopPending
  <1>3. QED
      BY <1>1, <1>2

LEMMA LiveWrite ==
    ASSUME TypeOK, ListInv, NEW s \in Sessions, Vouches(s),
           NEW l \in Levels, NEW t \in Tokens, NEW p \in Probs, WroteAt(s, l, t, p)
    PROVE  /\ prob[t] = p
           /\ \E i \in Pending(s) :
                 /\ i \in 1..Len(writes[s]) /\ LiveEntry(s, i)
                 /\ writes[s][i].token = t /\ writes[s][i].nest_level = l
                 /\ undo[s] = NoUndo \/ ~Doomed(s, writes[s][i])
  <1>1. PICK i \in 1..Len(writes[s]) :
           writes[s][i].token = t /\ writes[s][i].nest_level = l
      BY DEF Vouches
  <1>2. LiveEntry(s, i)
    <2>1. CASE undo[s] # NoUndo
      <3>1. ~(l >= undo[s].goal)
        <4>1. l >= undo[s].goal => vouched[s][l] = {}
            BY <2>1 DEF ListInv, InOrder, LoopInv
        <4>2. vouched[s][l] # {}
            BY DEF WroteAt
        <4>3. QED
            BY <4>1, <4>2
      <3>2. undo[s].goal \in Nat /\ l \in Nat
          BY SessionFacts DEF Levels
      <3>3. QED
          BY <1>1, <3>1, <3>2 DEF LiveEntry
    <2>2. QED
        BY <2>1 DEF LiveEntry
  <1>3. QED
      BY <1>1, <1>2, LiveEntryPending DEF Vouches

\* What a live write has put in the store is left there.
Untouched(s) ==
    \A i \in Pending(s) :
        undo[s] = NoUndo \/ ~Doomed(s, writes[s][i]) =>
            prob'[writes[s][i].token] = prob[writes[s][i].token]

LEMMA LiveUntouched ==
    ASSUME TypeOK, ListInv, NEW s \in Sessions, Vouches(s), Untouched(s)
    PROVE  /\ \A l \in Levels, t \in Tokens, p \in Probs :
                 WroteAt(s, l, t, p) =>
                    /\ prob'[t] = p
                    /\ \E i \in 1..Len(writes[s]) :
                          /\ LiveEntry(s, i)
                          /\ writes[s][i].token = t /\ writes[s][i].nest_level = l
           /\ \A i \in 1..Len(writes[s]) : LiveEntry(s, i) =>
                 WroteAt(s, writes[s][i].nest_level, writes[s][i].token, prob'[writes[s][i].token])
  <1>1. ASSUME NEW l \in Levels, NEW t \in Tokens, NEW p \in Probs,
               WroteAt(s, l, t, p)
        PROVE  /\ prob'[t] = p
               /\ \E i \in 1..Len(writes[s]) :
                     /\ LiveEntry(s, i)
                     /\ writes[s][i].token = t /\ writes[s][i].nest_level = l
      BY <1>1, LiveWrite DEF Untouched
  <1>2. ASSUME NEW i \in 1..Len(writes[s]), LiveEntry(s, i)
        PROVE  WroteAt(s, writes[s][i].nest_level, writes[s][i].token, prob'[writes[s][i].token])
    <2>1. prob'[writes[s][i].token] = prob[writes[s][i].token]
        BY <1>2, LiveEntryPending DEF Untouched
    <2>2. QED
        BY <1>2, <2>1 DEF Vouches
  <1>3. QED
      BY <1>1, <1>2

LEMMA VouchFrame ==
    ASSUME TypeOK, ListInv, NEW s \in Sessions, Vouches(s), Untouched(s),
           writes'[s] = writes[s], vouched'[s] = vouched[s], 
           \A i \in 1..Len(writes[s]) : LiveEntry(s, i)' => LiveEntry(s, i)
    PROVE  Vouches(s)'
  <1>1. \A l, t, p : WroteAt(s, l, t, p)' <=> WroteAt(s, l, t, p)
      BY DEF WroteAt
  <1>2. ASSUME NEW l \in Levels, NEW t \in Tokens, NEW p \in Probs, WroteAt(s, l, t, p)'
        PROVE  /\ prob'[t] = p
               /\ \E i \in 1..Len(writes'[s]) :
                     writes'[s][i].token = t /\ writes'[s][i].nest_level = l
    <2>1. WroteAt(s, l, t, p)
        BY <1>1, <1>2
    <2>2. QED
        BY <2>1, LiveUntouched
  <1>3. ASSUME NEW i \in 1..Len(writes'[s]), LiveEntry(s, i)'
        PROVE  WroteAt(s, writes[s][i].nest_level, writes[s][i].token, prob[writes[s][i].token])'
    <2>1. i \in 1..Len(writes[s]) /\ LiveEntry(s, i)
        BY <1>3
    <2>2. WroteAt(s, writes[s][i].nest_level, writes[s][i].token, prob'[writes[s][i].token])
        BY <2>1, LiveUntouched
    <2>3. QED
        BY <2>2 DEF WroteAt
  <1>4. QED
      BY <1>2, <1>3 DEF Vouches

LEMMA VouchSame ==
    ASSUME TypeOK, ListInv, NEW s \in Sessions, Vouches(s), Untouched(s), Same(s)
    PROVE  Vouches(s)'
  <1>1. /\ writes'[s] = writes[s] /\ vouched'[s] = vouched[s] /\ undo'[s] = undo[s]
      BY DEF Same
  <1>2. QED
      BY <1>1, VouchFrame DEF LiveEntry

LEMMA VouchEnds ==
    ASSUME NEW s \in Sessions, Ends(s)
    PROVE  Vouches(s)'
  <1>1. Len(writes'[s]) = 0 /\ \A l \in Levels : \A t, p : ~WroteAt(s, l, t, p)'
      BY EmptyList DEF Ends, WroteAt
  <1>2. QED
      BY <1>1 DEF Vouches

LEMMA VouchOpens ==
    ASSUME TypeOK, ListInv, NEW s \in Sessions, Vouches(s), Untouched(s),
           Opens(s) \/ Resumes(s)
    PROVE  Vouches(s)'
BY VouchFrame DEF Opens, Resumes, LiveEntry

LEMMA VouchReleases ==
    ASSUME TypeOK, ListInv, NEW s \in Sessions, Vouches(s), Untouched(s), Releases(s)
    PROVE  Vouches(s)'
  <1>1. /\ undo[s] = NoUndo /\ undo'[s] = NoUndo /\ level[s] > 1 /\ level[s] \in Levels
        /\ level[s] - 1 \in Levels /\ Len(writes'[s]) = Len(writes[s])
      BY SessionFacts DEF Releases, Active, Levels
  <1>2. \A i \in 1..Len(writes[s]) :
           /\ writes[s][i].nest_level \in Levels /\ writes[s][i].nest_level <= level[s]
           /\ writes'[s][i].token = writes[s][i].token
           /\ writes'[s][i].nest_level =
                 IF writes[s][i].nest_level = level[s] THEN level[s] - 1
                 ELSE writes[s][i].nest_level
      BY <1>1, SessionFacts DEF Releases, ListInv, InOrder, Levels
  <1>3. \A l \in Levels : vouched'[s][l] =
          IF l = level[s] - 1 THEN vouched[s][l] \cup vouched[s][level[s]]
          ELSE IF l = level[s] THEN {} ELSE vouched[s][l]
      BY DEF Releases
  <1>4. ASSUME NEW l \in Levels, NEW t \in Tokens, NEW p \in Probs,
               WroteAt(s, l, t, p)'
        PROVE  /\ prob'[t] = p
               /\ \E i \in 1..Len(writes'[s]) :
                     writes'[s][i].token = t /\ writes'[s][i].nest_level = l
    <2>1. PICK m \in Levels : /\ WroteAt(s, m, t, p)
                              /\ IF m = level[s] THEN l = level[s] - 1 ELSE l = m
        BY <1>1, <1>3, <1>4 DEF WroteAt
    <2>2. prob'[t] = p
        BY <2>1, LiveUntouched
    <2>3. PICK i \in 1..Len(writes[s]) : writes[s][i].token = t /\ writes[s][i].nest_level = m
        BY <2>1, LiveUntouched
    <2>4. QED
        BY <1>1, <1>2, <2>1, <2>2, <2>3
  <1>5. ASSUME NEW i \in 1..Len(writes'[s])
        PROVE  WroteAt(s, writes[s][i].nest_level, writes[s][i].token, prob[writes[s][i].token])'
    <2>1. i \in 1..Len(writes[s]) /\ LiveEntry(s, i)
        BY <1>1 DEF LiveEntry
    <2>2. WroteAt(s, writes[s][i].nest_level, writes[s][i].token, prob'[writes[s][i].token])
        BY <2>1, LiveUntouched
    <2>3. CASE writes[s][i].nest_level = level[s]
      <3>1. vouched'[s][level[s] - 1] = vouched[s][level[s] - 1] \cup vouched[s][level[s]]
          BY <1>1, <1>3
      <3>2. QED
          BY <1>2, <2>1, <2>2, <2>3, <3>1 DEF WroteAt
    <2>4. CASE writes[s][i].nest_level # level[s]
      <3>1. vouched[s][writes[s][i].nest_level] \subseteq vouched'[s][writes[s][i].nest_level]
          BY <1>2, <1>3, <2>1, <2>4
      <3>2. QED
          BY <1>2, <2>1, <2>2, <2>4, <3>1 DEF WroteAt
    <2>5. QED
        BY <2>3, <2>4
  <1>6. QED
      BY <1>4, <1>5 DEF Vouches

LEMMA VouchAborts ==
    ASSUME TypeOK, ListInv, NEW s \in Sessions, Vouches(s), Untouched(s), Aborts(s)
    PROVE  Vouches(s)'
  <1>1. PICK n \in Levels, e \in BOOLEAN :
           /\ undo'[s] = Loop(n, e, TRUE)
           /\ \A l \in Levels : vouched'[s][l] = IF l >= n THEN {} ELSE vouched[s][l]
      BY DEF Aborts
  <1>2. undo'[s].goal = n /\ undo'[s] # NoUndo
      BY <1>1 DEF Loop, NoUndo, Levels
  <1>3. /\ undo[s] = NoUndo /\ writes'[s] = writes[s]
        /\ \A i \in 1..Len(writes[s]) : writes[s][i].nest_level \in Levels /\ LiveEntry(s, i)
      BY SessionFacts DEF Aborts, LiveEntry
  <1>4. ASSUME NEW l \in Levels, NEW t \in Tokens, NEW p \in Probs,
               WroteAt(s, l, t, p)'
        PROVE  /\ prob'[t] = p
               /\ \E i \in 1..Len(writes'[s]) :
                     writes'[s][i].token = t /\ writes'[s][i].nest_level = l
    <2>1. WroteAt(s, l, t, p)
        BY <1>1, <1>4 DEF WroteAt
    <2>2. QED
        BY <1>3, <2>1, LiveUntouched
  <1>5. ASSUME NEW i \in 1..Len(writes'[s]), LiveEntry(s, i)'
        PROVE  WroteAt(s, writes[s][i].nest_level, writes[s][i].token, prob[writes[s][i].token])'
    <2>1. i \in 1..Len(writes[s]) /\ writes[s][i].nest_level \in Levels
          /\ writes[s][i].nest_level < n
        BY <1>2, <1>3, <1>5 DEF LiveEntry
    <2>2. vouched'[s][writes[s][i].nest_level] = vouched[s][writes[s][i].nest_level]
        BY <1>1, <2>1 DEF Levels
    <2>3. WroteAt(s, writes[s][i].nest_level, writes[s][i].token, prob'[writes[s][i].token])
        BY <1>3, <2>1, LiveUntouched
    <2>4. QED
        BY <1>3, <2>2, <2>3 DEF WroteAt
  <1>6. QED
      BY <1>4, <1>5 DEF Vouches

LEMMA VouchTurns ==
    ASSUME TypeOK, ListInv, NEW s \in Sessions, Vouches(s), Untouched(s),
           Turns(s) \/ Restarts(s)
    PROVE  Vouches(s)'
  <1>1. /\ writes'[s] = writes[s] /\ vouched'[s] = vouched[s]
        /\ undo[s] # NoUndo /\ undo'[s] # NoUndo /\ undo'[s].goal = undo[s].goal
    <2>1. CASE Turns(s)
        BY <2>1 DEF Turns
    <2>2. CASE Restarts(s)
      <3>1. undo'[s].goal = undo[s].goal /\ undo[s].goal >= 1
          BY <2>2, KeepBound DEF Restarts, Loop
      <3>2. undo'[s] # NoUndo
          BY <3>1, NoUndoFacts
      <3>3. QED
          BY <2>2, <3>1, <3>2 DEF Restarts
    <2>3. QED
        BY <2>1, <2>2
  <1>2. QED
      BY <1>1, VouchFrame DEF LiveEntry

\* The live entries are kept, and the entries kept are live.
LEMMA VouchCuts ==
    ASSUME TypeOK, ListInv, NEW s \in Sessions, Vouches(s), Untouched(s), Cuts(s)
    PROVE  Vouches(s)'
  <1>1. /\ undo[s] # NoUndo /\ level[s] > 1 /\ vouched'[s] = vouched[s]
        /\ undo[s].keep \in Nat /\ undo[s].keep <= Len(writes[s])
        /\ Len(writes'[s]) = undo[s].keep
        /\ undo[s].goal \in 1..level[s] /\ level[s] \in Nat
        /\ (undo[s].error => undo[s].goal = level[s])
      BY KeepBound, SessionFacts DEF Cuts
  <1>2. \A i \in Pending(s) :
           /\ i \in 1..Len(writes'[s]) /\ writes'[s][i] = writes[s][i]
           /\ ~Doomed(s, writes[s][i])
      BY ShrinkCuts
  <1>3. ASSUME NEW l \in Levels, NEW t \in Tokens, NEW p \in Probs,
               WroteAt(s, l, t, p)'
        PROVE  /\ prob'[t] = p
               /\ \E i \in 1..Len(writes'[s]) :
                     writes'[s][i].token = t /\ writes'[s][i].nest_level = l
    <2>1. WroteAt(s, l, t, p)
        BY <1>1, <1>3 DEF WroteAt
    <2>2. PICK i \in Pending(s) : writes[s][i].token = t /\ writes[s][i].nest_level = l
        BY <2>1, LiveWrite
    <2>3. QED
        BY <1>2, <2>1, <2>2, LiveUntouched
  <1>4. ASSUME NEW i \in 1..Len(writes'[s]), LiveEntry(s, i)'
        PROVE  WroteAt(s, writes[s][i].nest_level, writes[s][i].token, prob[writes[s][i].token])'
    <2>1. i \in 1..Len(writes[s]) /\ i \in 1..undo[s].keep /\ writes'[s][i] = writes[s][i]
        BY <1>1 DEF Cuts
    <2>2. writes[s][i].nest_level < undo[s].goal
      <3>1. CASE undo'[s] = NoUndo
        <4>1. undo[s].goal = level[s]
          <5>1. CASE undo'[s] = Loop(undo[s].goal, FALSE, TRUE)
              BY <1>1, <3>1, <5>1 DEF Loop, NoUndo
          <5>2. QED
              BY <1>1, <5>1 DEF Cuts
        <4>2. ~Doomed(s, writes[s][i])
            BY <2>1 DEF ListInv, InOrder, LoopInv, Cuts
        <4>3. writes[s][i].nest_level \in Nat
            BY <2>1, SessionFacts DEF Levels
        <4>4. QED
            BY <1>1, <4>1, <4>2, <4>3 DEF Doomed, UnwindFrom
      <3>2. CASE undo'[s] # NoUndo
        <4>1. undo'[s].goal = undo[s].goal
            BY <3>2 DEF Cuts, Loop
        <4>2. QED
            BY <1>4, <2>1, <3>2, <4>1 DEF LiveEntry
      <3>3. QED
          BY <3>1, <3>2
    <2>3. LiveEntry(s, i)
        BY <2>2 DEF LiveEntry
    <2>4. WroteAt(s, writes[s][i].nest_level, writes[s][i].token, prob'[writes[s][i].token])
        BY <2>1, <2>3, LiveUntouched
    <2>5. QED
        BY <1>1, <2>1, <2>4 DEF WroteAt
  <1>5. QED
      BY <1>3, <1>4 DEF Vouches
LEMMA VouchTold ==
    ASSUME TypeOK, ListInv, NEW s \in Sessions, Vouches(s), Untouched(s),
           NEW t \in Tokens, NEW p \in Probs, NEW b \in BOOLEAN, Told(s, t, p, b),
           prob'[t] = p
    PROVE  Vouches(s)'
  <1>1. /\ undo[s] = NoUndo /\ undo'[s] = NoUndo /\ level[s] \in Levels /\ Len(writes[s]) \in Nat
      BY SessionFacts DEF Told, Active, Levels
  <1>2. \A l \in Levels : vouched'[s][l] =
          IF l = level[s] THEN vouched[s][l] \cup {<<t, p, b>>} ELSE vouched[s][l]
      BY DEF Told
  <1>3. \A i \in 1..Len(writes[s]) :
           /\ i \in 1..Len(writes'[s]) /\ writes'[s][i] = writes[s][i]
           /\ writes[s][i].nest_level \in Levels /\ LiveEntry(s, i)
      BY <1>1, SessionFacts DEF Told, LiveEntry
  <1>4. b => /\ Len(writes'[s]) = Len(writes[s]) + 1
             /\ Len(writes[s]) + 1 \in 1..Len(writes'[s])
             /\ writes'[s][Len(writes[s]) + 1].token = t
             /\ writes'[s][Len(writes[s]) + 1].nest_level = level[s]
      BY <1>1 DEF Told
  <1>5. ASSUME NEW l \in Levels, NEW u \in Tokens, NEW q \in Probs,
               WroteAt(s, l, u, q)'
        PROVE  /\ prob'[u] = q
               /\ \E i \in 1..Len(writes'[s]) :
                     writes'[s][i].token = u /\ writes'[s][i].nest_level = l
    <2>1. CASE WroteAt(s, l, u, q)
      <3>1. PICK i \in 1..Len(writes[s]) :
               writes[s][i].token = u /\ writes[s][i].nest_level = l
          BY <2>1, LiveUntouched
      <3>2. QED
          BY <1>3, <2>1, <3>1, LiveUntouched
    <2>2. CASE ~WroteAt(s, l, u, q)
      <3>1. l = level[s] /\ u = t /\ q = p /\ b
        <4>1. <<u, q, TRUE>> \in vouched'[s][l] /\ <<u, q, TRUE>> \notin vouched[s][l]
            BY <1>5, <2>2 DEF WroteAt
        <4>2. l = level[s] /\ <<u, q, TRUE>> = <<t, p, b>>
            BY <1>2, <4>1
        <4>3. QED
            BY <4>2
      <3>2. QED
          BY <1>4, <3>1
    <2>3. QED
        BY <2>1, <2>2
  <1>6. ASSUME NEW i \in 1..Len(writes'[s])
        PROVE  WroteAt(s, writes[s][i].nest_level, writes[s][i].token, prob[writes[s][i].token])'
    <2>1. CASE i \in 1..Len(writes[s])
      <3>1. WroteAt(s, writes[s][i].nest_level, writes[s][i].token, prob'[writes[s][i].token])
          BY <1>3, <2>1, LiveUntouched
      <3>2. vouched[s][writes[s][i].nest_level] \subseteq vouched'[s][writes[s][i].nest_level]
          BY <1>2, <1>3, <2>1
      <3>3. QED
          BY <1>3, <2>1, <3>1, <3>2 DEF WroteAt
    <2>2. CASE i \notin 1..Len(writes[s])
      <3>1. b /\ i = Len(writes[s]) + 1
          BY <1>1, <2>2 DEF Told
      <3>2. <<t, p, TRUE>> \in vouched'[s][level[s]]
          BY <1>1, <1>2, <3>1
      <3>3. QED
          BY <1>1, <1>4, <3>1, <3>2 DEF WroteAt
    <2>3. QED
        BY <2>1, <2>2
  <1>7. QED
      BY <1>5, <1>6 DEF Vouches

\* The token of a dropped entry has no other owner.
LEMMA ClearedAlone ==
    ASSUME TypeOK, ListInv, OneOwner, NEW s \in Sessions, Unwind(s)
    PROVE  /\ \A r \in Sessions : Untouched(r)
           /\ \A r \in Sessions : \A i \in Pending(r)' :
                 prob'[writes[r][i].token] = prob[writes[r][i].token]
           /\ \A t \in Tokens : prob'[t] = prob[t] \/
                 /\ undo[s].clear /\ undo[s].at \in Pending(s) /\ undo[s].at \in 1..Len(writes[s])
                 /\ t = writes[s][undo[s].at].token /\ prob'[t] = NaN
                 /\ undo[s] # NoUndo /\ Doomed(s, writes[s][undo[s].at])
  <1> DEFINE a == undo[s].at
             k == writes[s][a].token
  <1>1. /\ Others(s) /\ Turns(s) /\ a \in 1..Len(writes[s]) /\ undo[s] # NoUndo
        /\ prob' = IF undo[s].clear /\ Doomed(s, writes[s][a])
                   THEN [prob EXCEPT ![k] = NaN] ELSE prob
      BY TurnsEffect DEF Turns
  <1>2. CASE ~(undo[s].clear /\ Doomed(s, writes[s][a]))
    <2>1. prob' = prob
        BY <1>1, <1>2
    <2>2. QED
        BY <2>1 DEF Untouched
  <1>3. CASE undo[s].clear /\ Doomed(s, writes[s][a])
    <2>1. k \in Tokens /\ prob \in [Tokens -> Probs \cup {NaN}] /\ prob' = [prob EXCEPT ![k] = NaN]
        BY <1>1, <1>3, SessionFacts DEF TypeOK
    <2>2. a \in Pending(s) /\ \A i : i \in Pending(s)' <=>
                 i \in Pending(s) /\ (Doomed(s, writes[s][i]) => i # a)
        BY <1>1, <1>3, ShrinkTurns
    <2>3. \A r \in Sessions : \A i \in Pending(r) :
             /\ i \in 1..Len(writes[r]) /\ writes[r][i].token \in Tokens
             /\ writes[r][i].token = k => r = s /\ i = a
      <3>1. TAKE r \in Sessions
      <3>2. TAKE i \in Pending(r)
      <3>3. i \in 1..Len(writes[r])
          BY DEF Pending
      <3>4. writes[r][i].token \in Tokens
          BY <3>3, SessionFacts
      <3>5. writes[r][i].token = k => r = s /\ i = a
          BY <2>2 DEF OneOwner
      <3>6. QED
          BY <3>3, <3>4, <3>5
    <2>4. \A r \in Sessions : \A i \in Pending(r)' : i \in Pending(r) /\ (r = s => i # a)
      <3>1. TAKE r \in Sessions
      <3>2. CASE r = s
          BY <1>3, <2>2, <3>2
      <3>3. CASE r # s
          BY <1>1, <3>3, ShrinkSame DEF Others
      <3>4. QED
          BY <3>2, <3>3
    <2>5. \A r \in Sessions : \A i \in Pending(r) :
             ~(r = s /\ i = a) => prob'[writes[r][i].token] = prob[writes[r][i].token]
        BY <2>1, <2>3
    <2>6. \A r \in Sessions : Untouched(r)
        BY <1>1, <1>3, <2>5 DEF Untouched
    <2>7. \A t \in Tokens : prob'[t] = prob[t] \/ (t = k /\ prob'[t] = NaN)
        BY <2>1
    <2>8. QED
        BY <1>1, <1>3, <2>2, <2>4, <2>5, <2>6, <2>7
  <1>4. QED
      BY <1>2, <1>3

LEMMA ToldAlone ==
    ASSUME TypeOK, OneOwner, NEW s \in Sessions, NEW t \in Tokens, NEW p \in Probs,
           SetProb(s, t, p)
    PROVE  /\ \A r \in Sessions : Untouched(r)
           /\ \A r \in Sessions : \A i \in Pending(r) :
                 prob'[writes[r][i].token] = prob[writes[r][i].token]
           /\ prob'[t] = p /\ \A u \in Tokens \ {t} : prob'[u] = prob[u]
           /\ prob[t] = NaN => \A r \in Sessions : \A i \in Pending(r) : writes[r][i].token # t
  <1>1. prob \in [Tokens -> Probs \cup {NaN}]
      BY DEF TypeOK
  <1>2. \A r \in Sessions : \A i \in Pending(r) :
           writes[r][i].token \in Tokens /\ prob[writes[r][i].token] # NaN
      BY SessionFacts DEF OneOwner, Pending
  <1>3. \/ prob[t] = NaN /\ prob' = [prob EXCEPT ![t] = p]
        \/ prob[t] = p /\ prob' = prob
      BY ToldEffect
  <1>4. \A r \in Sessions : \A i \in Pending(r) :
           prob'[writes[r][i].token] = prob[writes[r][i].token]
      BY <1>1, <1>2, <1>3
  <1>5. prob'[t] = p /\ \A u \in Tokens \ {t} : prob'[u] = prob[u]
      BY <1>1, <1>3
  <1>6. prob[t] = NaN => \A r \in Sessions : \A i \in Pending(r) : writes[r][i].token # t
      BY <1>2
  <1>7. QED
      BY <1>4, <1>5, <1>6 DEF Untouched

LEMMA LiveStep ==
    ASSUME TypeOK, ListInv, LiveInv, OneOwner, Next
    PROVE  LiveInv'
  <1>1. \A s \in Sessions : Vouches(s)
      BY DEF LiveInv
  <1>2. \A s \in Sessions : Same(s) /\ Untouched(s) => Vouches(s)'
      BY <1>1, VouchSame
  <1>3. \A s \in Sessions : Ends(s) => Vouches(s)'
      BY VouchEnds
  <1>4. ASSUME NEW s \in Sessions, Others(s), \A r \in Sessions : Untouched(r), Vouches(s)'
        PROVE  LiveInv'
      BY <1>2, <1>4 DEF Others, LiveInv
  <1>5. prob' = prob => \A r \in Sessions : Untouched(r)
      BY DEF Untouched
  <1>6. ASSUME NEW s \in Sessions, Moves(s)
        PROVE  LiveInv'
    <2>1. \A r \in Sessions : Untouched(r)
        BY <1>5, <1>6 DEF Moves, store
    <2>2. QED
        BY <1>1, <1>4, <1>6, <2>1, VouchOpens, VouchReleases, VouchAborts DEF Moves
  <1>7. ASSUME NEW s \in Sessions, Unwind(s)
        PROVE  LiveInv'
      BY <1>1, <1>4, <1>7, ClearedAlone, TurnsEffect, VouchTurns
  <1>8. ASSUME NEW s \in Sessions, UnwindDone(s)
        PROVE  LiveInv'
      BY <1>1, <1>3, <1>4, <1>5, <1>8, CutsEffect, VouchCuts
  <1>9. ASSUME NEW s \in Sessions, UnwindFails(s)
        PROVE  LiveInv'
      BY <1>1, <1>3, <1>4, <1>5, <1>9, FailsEffect, VouchTurns
  <1>10. ASSUME NEW s \in Sessions, Commit(s) \/ Prepare(s)
         PROVE  LiveInv'
      BY <1>3, <1>4, <1>5, <1>10, CommitEffect
  <1>11. ASSUME NEW s \in Sessions, Accepts(s)
         PROVE  LiveInv'
    <2>1. PICK t \in Tokens, p \in Probs : SetProb(s, t, p)
        BY <1>11 DEF Accepts
    <2>2. PICK b \in BOOLEAN : Others(s) /\ Told(s, t, p, b)
        BY <2>1, ToldEffect
    <2>3. prob'[t] = p /\ \A r \in Sessions : Untouched(r)
        BY <2>1, ToldAlone
    <2>4. Vouches(s)'
        BY <1>1, <2>2, <2>3, VouchTold
    <2>5. QED
        BY <1>4, <2>2, <2>3, <2>4
  <1>12. CASE Quiet
      BY <1>2, <1>5, <1>12 DEF Quiet, LiveInv, store
  <1>13. CASE Crash
      BY <1>3, <1>13, CrashEffect DEF LiveInv
  <1>14. QED
      BY <1>6, <1>7, <1>8, <1>9, <1>10, <1>11, <1>12, <1>13, Steps
-----------------------------------------------------------------------------
(* One owner, and what is committed *)

LEMMA VouchedFacts ==
    ASSUME TypeOK, NEW s \in Sessions
    PROVE  /\ \A t, p : <<t, p>> \in Wrote(AllVouched(s)) <=>
                 /\ t \in Tokens /\ p \in Probs
                 /\ \E l \in Levels : WroteAt(s, l, t, p)
           /\ \A t, p : <<t, p>> \in Pairs(AllVouched(s)) <=>
                 /\ t \in Tokens /\ p \in Probs
                 /\ \E l \in Levels, b \in BOOLEAN : <<t, p, b>> \in vouched[s][l]
           /\ Pairs(AllVouched(s)) \subseteq Tokens \X Probs
           /\ Wrote(AllVouched(s)) \subseteq Tokens \X Probs
  <1>1. \A l \in Levels : \A c \in vouched[s][l] :
           /\ c[1] \in Tokens /\ c[2] \in Probs /\ c[3] \in BOOLEAN
           /\ c = <<c[1], c[2], c[3]>>
      BY SessionFacts
  <1>2. \A c \in AllVouched(s) : \E l \in Levels : c \in vouched[s][l]
      BY DEF AllVouched
  <1>3. \A l \in Levels : \A c \in vouched[s][l] : c \in AllVouched(s)
      BY DEF AllVouched
  <1>4. ASSUME NEW t, NEW p
        PROVE  <<t, p>> \in Wrote(AllVouched(s)) <=>
                 /\ t \in Tokens /\ p \in Probs
                 /\ \E l \in Levels : WroteAt(s, l, t, p)
    <2>1. ASSUME <<t, p>> \in Wrote(AllVouched(s))
          PROVE  /\ t \in Tokens /\ p \in Probs
                 /\ \E l \in Levels : WroteAt(s, l, t, p)
      <3>1. PICK c \in AllVouched(s) : c[3] /\ <<c[1], c[2]>> = <<t, p>>
          BY <2>1 DEF Wrote, Pairs
      <3>2. PICK l \in Levels : c \in vouched[s][l]
          BY <1>2
      <3>3. /\ c[3] = TRUE /\ c[1] = t /\ c[2] = p /\ t \in Tokens /\ p \in Probs
            /\ c = <<c[1], c[2], c[3]>>
          BY <1>1, <3>1, <3>2
      <3>4. c = <<t, p, TRUE>>
          BY <3>3
      <3>5. QED
          BY <3>2, <3>3, <3>4 DEF WroteAt
    <2>2. ASSUME NEW l \in Levels, WroteAt(s, l, t, p)
          PROVE  <<t, p>> \in Wrote(AllVouched(s))
      <3> DEFINE c == <<t, p, TRUE>>
      <3>1. c \in AllVouched(s)
          BY <1>3, <2>2 DEF WroteAt
      <3>2. c[1] = t /\ c[2] = p /\ c[3]
          OBVIOUS
      <3> HIDE DEF c
      <3>3. c \in {d \in AllVouched(s) : d[3]}
          BY <3>1, <3>2
      <3>4. QED
          BY <3>2, <3>3 DEF Wrote, Pairs
    <2>3. QED
        BY <2>1, <2>2
  <1>5. ASSUME NEW t, NEW p
        PROVE  <<t, p>> \in Pairs(AllVouched(s)) <=>
                 /\ t \in Tokens /\ p \in Probs
                 /\ \E l \in Levels, b \in BOOLEAN : <<t, p, b>> \in vouched[s][l]
    <2>1. ASSUME <<t, p>> \in Pairs(AllVouched(s))
          PROVE  /\ t \in Tokens /\ p \in Probs
                 /\ \E l \in Levels, b \in BOOLEAN : <<t, p, b>> \in vouched[s][l]
      <3>1. PICK c \in AllVouched(s) : <<c[1], c[2]>> = <<t, p>>
          BY <2>1 DEF Pairs
      <3>2. QED
          BY <1>1, <1>2, <3>1
    <2>2. ASSUME NEW l \in Levels, NEW b \in BOOLEAN, <<t, p, b>> \in vouched[s][l]
          PROVE  <<t, p>> \in Pairs(AllVouched(s))
        BY <1>3, <2>2 DEF Pairs
    <2>3. QED
        BY <1>1, <2>1, <2>2
  <1>6. Pairs(AllVouched(s)) \subseteq Tokens \X Probs
      BY <1>1, <1>2 DEF Pairs
  <1>7. Wrote(AllVouched(s)) \subseteq Tokens \X Probs
      BY <1>1, <1>2 DEF Wrote, Pairs
  <1>8. QED
      BY <1>4, <1>5, <1>6, <1>7

\* The two parts of OneOwner, by entry.
LEMMA OwnerFacts ==
    ASSUME TypeOK, OneOwner
    PROVE  /\ \A s, r \in Sessions : \A i \in Pending(s), j \in Pending(r) :
                 writes[s][i].token = writes[r][j].token => s = r /\ i = j
           /\ \A s \in Sessions : \A i \in Pending(s) :
                 /\ i \in 1..Len(writes[s]) /\ writes[s][i].token \in Tokens
                 /\ prob[writes[s][i].token] # NaN
                 /\ \A p \in Probs : <<writes[s][i].token, p>> \notin kept
BY SessionFacts DEF OneOwner, Pending

LEMMA OwnerShrinks ==
    ASSUME TypeOK, OneOwner, \A r \in Sessions : Shrinks(r),
           \A r \in Sessions : \A i \in Pending(r)' :
              /\ prob'[writes[r][i].token] = prob[writes[r][i].token]
              /\ \A p \in Probs : <<writes[r][i].token, p>> \notin kept' \ kept
    PROVE  OneOwner'
  <1>1. \A r \in Sessions : \A i \in Pending(r)' :
           i \in Pending(r) /\ writes'[r][i].token = writes[r][i].token
      BY DEF Shrinks
  <1>2. ASSUME NEW s \in Sessions, NEW r \in Sessions,
               NEW i \in Pending(s)', NEW j \in Pending(r)',
               writes'[s][i].token = writes'[r][j].token
        PROVE  s = r /\ i = j
      BY <1>1, <1>2, OwnerFacts
  <1>3. ASSUME NEW s \in Sessions, NEW i \in Pending(s)'
        PROVE  /\ prob'[writes'[s][i].token] # NaN
               /\ \A p \in Probs : <<writes'[s][i].token, p>> \notin kept'
      BY <1>1, OwnerFacts
  <1>4. QED
      BY <1>2, <1>3 DEF OneOwner

\* All but a set_prob only remove pending entries.
LEMMA StepShrinks ==
    ASSUME TypeOK, ListInv, Next
    PROVE  \/ \A r \in Sessions : Shrinks(r)
           \/ \E s \in Sessions : Accepts(s)
  <1>1. \A r \in Sessions : Same(r) \/ Ends(r) => Shrinks(r)
      BY ShrinkSame, ShrinkEnds
  <1>2. ASSUME NEW s \in Sessions, Others(s), Shrinks(s)
        PROVE  \A r \in Sessions : Shrinks(r)
      BY <1>1, <1>2 DEF Others
  <1>3. ASSUME NEW s \in Sessions,
               \/ Moves(s) \/ Unwind(s) \/ UnwindDone(s) \/ UnwindFails(s)
               \/ Commit(s) \/ Prepare(s)
        PROVE  Others(s) /\ Shrinks(s)
    <2>1. CASE Moves(s)
        BY <2>1, ShrinkMoves DEF Moves
    <2>2. CASE Unwind(s)
        BY <2>2, TurnsEffect, ShrinkTurns
    <2>3. CASE UnwindDone(s)
        BY <1>1, <2>3, CutsEffect, ShrinkCuts
    <2>4. CASE UnwindFails(s)
        BY <1>1, <2>4, FailsEffect, ShrinkRestarts
    <2>5. CASE Commit(s) \/ Prepare(s)
        BY <1>1, <2>5, CommitEffect
    <2>6. QED
        BY <1>3, <2>1, <2>2, <2>3, <2>4, <2>5
  <1>4. CASE Quiet
      BY <1>1, <1>4 DEF Quiet
  <1>5. CASE Crash
      BY <1>1, <1>5, CrashEffect
  <1>6. QED
      BY <1>2, <1>3, <1>4, <1>5, Steps

\* What changes in the store, and in what is committed.
LEMMA StoreStep ==
    ASSUME TypeOK, ListInv, Next
    PROVE  \/ UNCHANGED <<prob, committed, kept>>
           \/ \E s \in Sessions :
                 \/ Unwind(s) \/ Accepts(s)
                 \/ (Commit(s) \/ Prepare(s)) /\ UNCHANGED prob
  <1>1. \A s \in Sessions : UnwindDone(s) => UNCHANGED <<prob, committed, kept>>
      BY CutsEffect
  <1>2. \A s \in Sessions : UnwindFails(s) => UNCHANGED <<prob, committed, kept>>
      BY FailsEffect
  <1>3. \A s \in Sessions : Commit(s) \/ Prepare(s) => UNCHANGED prob
      BY CommitEffect
  <1>4. \A s \in Sessions : Moves(s) => UNCHANGED <<prob, committed, kept>>
      BY DEF Moves, store
  <1>5. Quiet => UNCHANGED <<prob, committed, kept>>
      BY DEF Quiet, store
  <1>6. Crash => UNCHANGED <<prob, committed, kept>>
      BY CrashEffect
  <1>7. QED
      BY <1>1, <1>2, <1>3, <1>4, <1>5, <1>6, Steps

LEMMA OwnerStep ==
    ASSUME TypeOK, ListInv, LiveInv, OneOwner, CommittedWritesStand, Next
    PROVE  OneOwner'
  <1>1. CASE \E s \in Sessions : Accepts(s)
    <2>1. PICK s \in Sessions, t \in Tokens, p \in Probs : SetProb(s, t, p)
        BY <1>1 DEF Accepts
    <2>2. PICK b \in BOOLEAN :
             /\ Others(s) /\ Told(s, t, p, b) /\ kept' = kept
             /\ b => prob[t] = NaN
        BY <2>1, ToldEffect
    <2>3. /\ \A r \in Sessions : \A i \in Pending(r) :
                 prob'[writes[r][i].token] = prob[writes[r][i].token]
          /\ prob'[t] = p
          /\ b => \A r \in Sessions : \A i \in Pending(r) : writes[r][i].token # t
        BY <2>1, <2>2, ToldAlone
    <2>4. \A r \in Sessions \ {s} :
             writes'[r] = writes[r] /\ \A i : i \in Pending(r)' <=> i \in Pending(r)
        BY <2>2, ShrinkSame DEF Others, Same
    <2>5. /\ \A i : i \in Pending(s)' => i \in Pending(s) \/ (b /\ i = Len(writes[s]) + 1)
          /\ \A i \in Pending(s) : writes'[s][i] = writes[s][i]
          /\ b => writes'[s][Len(writes[s]) + 1].token = t
        BY <2>2, PendingTold
    <2>6. b => \A q \in Probs : <<t, q>> \notin kept
        BY <2>2, ProbAssumption DEF CommittedWritesStand
    <2>7. \A r \in Sessions : \A i \in Pending(r)' :
             \/ i \in Pending(r) /\ writes'[r][i].token = writes[r][i].token
             \/ b /\ r = s /\ i = Len(writes[s]) + 1 /\ writes'[r][i].token = t
        BY <2>4, <2>5
    <2>8. ASSUME NEW q \in Sessions, NEW r \in Sessions,
                 NEW i \in Pending(q)', NEW j \in Pending(r)',
                 writes'[q][i].token = writes'[r][j].token
          PROVE  q = r /\ i = j
        BY <2>3, <2>7, <2>8, OwnerFacts
    <2>9. ASSUME NEW r \in Sessions, NEW i \in Pending(r)'
          PROVE  /\ prob'[writes'[r][i].token] # NaN
                 /\ \A q \in Probs : <<writes'[r][i].token, q>> \notin kept'
        BY <2>2, <2>3, <2>6, <2>7, OwnerFacts, ProbAssumption
    <2>10. QED
        BY <2>8, <2>9 DEF OneOwner
  <1>2. CASE \A r \in Sessions : Shrinks(r)
    <2>1. CASE UNCHANGED <<prob, committed, kept>>
        BY <1>2, <2>1, OwnerShrinks
    <2>2. ASSUME NEW s \in Sessions, Unwind(s)
          PROVE  OneOwner'
        BY <1>2, <2>2, ClearedAlone, TurnsEffect, OwnerShrinks
    <2>3. ASSUME NEW s \in Sessions, Commit(s) \/ Prepare(s), UNCHANGED prob
          PROVE  OneOwner'
      <3>1. /\ Others(s) /\ Ends(s) /\ Active(s)
            /\ kept' = kept \/ kept' = kept \cup Wrote(AllVouched(s))
          BY <2>3, CommitEffect
      <3>2. Pending(s)' = {}
          BY <3>1, ShrinkEnds
      <3>3. ASSUME NEW r \in Sessions, NEW i \in Pending(r)', NEW p \in Probs,
                   <<writes[r][i].token, p>> \in Wrote(AllVouched(s))
            PROVE  FALSE
        <4>1. r # s /\ i \in Pending(r)
            BY <1>2, <3>2, <3>3 DEF Shrinks
        <4>2. PICK l \in Levels :
                 WroteAt(s, l, writes[r][i].token, p) /\ writes[r][i].token \in Tokens
            BY <3>3, VouchedFacts
        <4>3. PICK j \in Pending(s) : writes[s][j].token = writes[r][i].token
            BY <4>2, LiveWrite DEF LiveInv
        <4>4. QED
            BY <4>1, <4>3, OwnerFacts
      <3>4. QED
          BY <1>2, <2>3, <3>1, <3>3, OwnerShrinks
    <2>4. CASE \E s \in Sessions : Accepts(s)
        BY <1>1, <2>4
    <2>5. QED
        BY <2>1, <2>2, <2>3, <2>4, StoreStep
  <1>3. QED
      BY <1>1, <1>2, StepShrinks

LEMMA KeptStep ==
    ASSUME TypeOK, ListInv, LiveInv, OneOwner, CommittedWritesStand, Next
    PROVE  CommittedWritesStand'
  <1>1. \A w \in kept : /\ w[1] \in Tokens /\ w[2] \in Probs /\ w = <<w[1], w[2]>>
                        /\ prob[w[1]] = w[2] /\ prob[w[1]] # NaN
      BY ProbAssumption DEF CommittedWritesStand, TypeOK
  <1>2. CASE UNCHANGED <<prob, committed, kept>>
      BY <1>2 DEF CommittedWritesStand
  <1>3. ASSUME NEW s \in Sessions, Unwind(s)
        PROVE  CommittedWritesStand'
    <2>1. ASSUME NEW w \in kept
          PROVE  prob'[w[1]] = w[2]
      <3>1. \A i \in Pending(s) : writes[s][i].token # w[1]
          BY <1>1, OwnerFacts
      <3>2. QED
          BY <1>1, <1>3, <3>1, ClearedAlone
    <2>2. kept' = kept
        BY <1>3, TurnsEffect
    <2>3. QED
        BY <2>1, <2>2 DEF CommittedWritesStand
  <1>4. ASSUME NEW s \in Sessions, Accepts(s)
        PROVE  CommittedWritesStand'
    <2>1. PICK t \in Tokens, p \in Probs : SetProb(s, t, p)
        BY <1>4 DEF Accepts
    <2>2. kept' = kept /\ (prob[t] = NaN \/ prob[t] = p)
        BY <2>1, ToldEffect
    <2>3. prob'[t] = p /\ \A u \in Tokens \ {t} : prob'[u] = prob[u]
        BY <2>1, ToldAlone
    <2>4. QED
        BY <1>1, <2>2, <2>3 DEF CommittedWritesStand
  <1>5. ASSUME NEW s \in Sessions, Commit(s) \/ Prepare(s), UNCHANGED prob
        PROVE  CommittedWritesStand'
    <2>1. kept' = kept \/ kept' = kept \cup Wrote(AllVouched(s))
        BY <1>5, CommitEffect
    <2>2. ASSUME NEW w \in Wrote(AllVouched(s))
          PROVE  prob[w[1]] = w[2]
      <3>1. w[1] \in Tokens /\ w[2] \in Probs /\ w = <<w[1], w[2]>>
          BY VouchedFacts
      <3>2. PICK l \in Levels : WroteAt(s, l, w[1], w[2])
          BY <3>1, VouchedFacts
      <3>3. QED
          BY <3>1, <3>2 DEF LiveInv, Vouches
    <2>3. QED
        BY <1>1, <1>5, <2>1, <2>2 DEF CommittedWritesStand
  <1>6. QED
      BY <1>2, <1>3, <1>4, <1>5, StoreStep
-----------------------------------------------------------------------------
(* Every probability is accounted for *)

\* By a session that wrote it and is live, or that has yet to clear it.
Answers(s, t) ==
    \/ \E l \in Levels : WroteAt(s, l, t, prob[t])
    \/ undo[s] # NoUndo /\ \E i \in Pending(s) : writes[s][i].token = t

Accounted(t) ==
    <<t, prob[t]>> \in kept \/ t \in excused \/ \E s \in Sessions : Answers(s, t)

LEMMA AccountedFacts ==
    ASSUME TypeOK
    PROVE  RolledBackIsCleared <=> \A t \in Tokens : prob[t] # NaN => Accounted(t)
  <1>1. ASSUME NEW t \in Tokens, prob[t] # NaN
        PROVE  Accounted(t) <=>
                  \/ <<t, prob[t]>> \in kept
                  \/ \E s \in Sessions : <<t, prob[t]>> \in Wrote(AllVouched(s))
                  \/ \E s \in Sessions :
                        undo[s] # NoUndo /\ \E i \in Pending(s) : writes[s][i].token = t
                  \/ t \in excused
    <2>1. prob[t] \in Probs
        BY <1>1 DEF TypeOK
    <2>2. \A s \in Sessions : <<t, prob[t]>> \in Wrote(AllVouched(s)) <=>
             \E l \in Levels : WroteAt(s, l, t, prob[t])
        BY <2>1, VouchedFacts
    <2>3. QED
        BY <2>2 DEF Accounted, Answers
  <1>2. QED
      BY <1>1 DEF RolledBackIsCleared

\* What a session answers for in a step that leaves the gate alone.
AnswersOn(s, t) == Answers(s, t)' \/ t \in excused' \/ <<t, prob'[t]>> \in kept'

LEMMA AnswersSame ==
    ASSUME NEW s \in Sessions, NEW t \in Tokens, Same(s), Answers(s, t), prob'[t] = prob[t]
    PROVE  AnswersOn(s, t)
BY ShrinkSame DEF AnswersOn, Answers, Same, WroteAt

LEMMA AnswersMoves ==
    ASSUME TypeOK, ListInv, LiveInv, NEW s \in Sessions, NEW t \in Tokens,
           Opens(s) \/ Resumes(s) \/ Releases(s) \/ Aborts(s),
           Answers(s, t), prob'[t] = prob[t], prob[t] # NaN
    PROVE  AnswersOn(s, t)
  <1>1. undo[s] = NoUndo
      BY ShrinkMoves
  <1>2. PICK l \in Levels : WroteAt(s, l, t, prob[t])
      BY <1>1 DEF Answers
  <1>3. CASE Opens(s) \/ Resumes(s)
      BY <1>2, <1>3 DEF AnswersOn, Answers, Opens, Resumes, WroteAt
  <1>4. CASE Releases(s)
    <2>1. level[s] - 1 \in Levels
        BY <1>4, SessionFacts DEF Releases, Levels
    <2>2. <<t, prob[t], TRUE>> \in vouched'[s][IF l = level[s] THEN level[s] - 1 ELSE l]
        BY <1>2, <1>4, <2>1 DEF Releases, WroteAt
    <2>3. QED
        BY <2>1, <2>2 DEF AnswersOn, Answers, WroteAt
  <1>5. CASE Aborts(s)
    <2>1. CASE <<t, prob[t], TRUE>> \in vouched'[s][l]
        BY <2>1 DEF AnswersOn, Answers, WroteAt
    <2>2. CASE <<t, prob[t], TRUE>> \notin vouched'[s][l]
      <3>1. prob[t] \in Probs
          BY DEF TypeOK
      <3>2. PICK i \in Pending(s) : i \in 1..Len(writes[s]) /\ writes[s][i].token = t
          BY <1>2, <3>1, LiveWrite DEF LiveInv
      <3>3. i \in Pending(s)' /\ writes'[s][i].token = t
          BY <1>5, <3>2, ShrinkMoves
      <3>4. undo'[s] # NoUndo
          BY <1>5 DEF Aborts, Loop, NoUndo, Levels
      <3>5. QED
          BY <3>3, <3>4 DEF AnswersOn, Answers
    <2>3. QED
        BY <2>1, <2>2
  <1>6. QED
      BY <1>3, <1>4, <1>5

\* A turn drops a pending entry only with the probability it answers for.
LEMMA AnswersTurns ==
    ASSUME TypeOK, ListInv, NEW s \in Sessions, NEW t \in Tokens, Unwind(s),
           Answers(s, t), prob'[t] # NaN, prob'[t] = prob[t]
    PROVE  AnswersOn(s, t)
  <1>1. /\ Turns(s) /\ undo[s].at \in 1..Len(writes[s])
        /\ prob' = IF undo[s].clear /\ Doomed(s, writes[s][undo[s].at])
                   THEN [prob EXCEPT ![writes[s][undo[s].at].token] = NaN] ELSE prob
      BY TurnsEffect
  <1>2. CASE \E l \in Levels : WroteAt(s, l, t, prob[t])
      BY <1>1, <1>2 DEF AnswersOn, Answers, Turns, WroteAt
  <1>3. ASSUME undo[s] # NoUndo, NEW i \in Pending(s), writes[s][i].token = t
        PROVE  AnswersOn(s, t)
    <2>1. CASE i \in Pending(s)'
        BY <1>1, <1>3, <2>1 DEF AnswersOn, Answers, Turns
    <2>2. CASE i \notin Pending(s)'
      <3>1. i = undo[s].at /\ Doomed(s, writes[s][i])
          BY <1>1, <2>2, ShrinkTurns
      <3>2. undo[s].clear
          BY <1>3, <3>1, LoopPending
      <3>3. prob'[t] = NaN
          BY <1>1, <1>3, <3>1, <3>2 DEF TypeOK
      <3>4. QED
          BY <3>3
    <2>3. QED
        BY <2>1, <2>2
  <1>4. QED
      BY <1>2, <1>3 DEF Answers

\* An abort of the whole transaction leaves nobody to answer.
LEMMA TopAbort ==
    ASSUME TypeOK, ListInv, NEW s \in Sessions, undo[s] # NoUndo, level[s] = 1
    PROVE  /\ \A l \in Levels : vouched[s][l] = {}
           /\ \A i \in Pending(s) : i \in 1..Len(writes[s]) /\ i >= undo[s].at
                                    /\ Doomed(s, writes[s][i])
  <1>1. undo[s].goal = 1
      BY KeepBound
  <1>2. \A l \in Levels : l >= 1
      BY DEF Levels
  <1>3. \A l \in Levels : vouched[s][l] = {}
      BY <1>1, <1>2 DEF ListInv, InOrder, LoopInv
  <1>4. \A i \in 1..Len(writes[s]) : Doomed(s, writes[s][i])
      BY SessionFacts DEF Doomed, UnwindFrom, Levels
  <1>5. QED
      BY <1>3, <1>4, LoopPending

LEMMA AnswersCuts ==
    ASSUME TypeOK, ListInv, LiveInv', NEW s \in Sessions, NEW t \in Tokens, UnwindDone(s),
           Answers(s, t), prob'[t] = prob[t]
    PROVE  AnswersOn(s, t)
  <1>1. /\ (Ends(s) /\ level[s] = 1) \/ Cuts(s)
        /\ undo[s] # NoUndo /\ undo[s].at = Len(writes[s]) + 1
      BY CutsEffect
  <1>2. CASE level[s] = 1
    <2>1. PICK i \in Pending(s) : writes[s][i].token = t
        BY <1>1, <1>2, TopAbort DEF Answers, WroteAt
    <2>2. i \in 1..Len(writes[s]) /\ i >= Len(writes[s]) + 1 /\ Len(writes[s]) \in Nat
        BY <1>1, <1>2, TopAbort, SessionFacts
    <2>3. QED
        BY <2>2
  <1>3. CASE Cuts(s)
    <2>1. CASE \E l \in Levels : WroteAt(s, l, t, prob[t])
        BY <1>3, <2>1 DEF AnswersOn, Answers, Cuts, WroteAt
    <2>2. ASSUME NEW i \in Pending(s), writes[s][i].token = t
          PROVE  AnswersOn(s, t)
      <3>1. i \in Pending(s)' /\ i \in 1..Len(writes'[s]) /\ writes'[s][i].token = t
          BY <1>3, <2>2, ShrinkCuts
      <3>2. CASE undo'[s] # NoUndo
          BY <3>1, <3>2 DEF AnswersOn, Answers
      <3>3. CASE undo'[s] = NoUndo
        <4>1. LiveEntry(s, i)'
            BY <3>3 DEF LiveEntry
        <4>2. WroteAt(s, writes[s][i].nest_level, t, prob[t])'
            BY <3>1, <4>1 DEF LiveInv, Vouches
        <4>3. writes'[s][i].nest_level \in Levels
          <5>1. i \in 1..Len(writes[s]) /\ writes'[s][i] = writes[s][i]
              BY <1>3, <2>2, ShrinkCuts DEF Pending
          <5>2. QED
              BY <5>1, SessionFacts
        <4>4. QED
            BY <4>2, <4>3 DEF AnswersOn, Answers
      <3>4. QED
          BY <3>2, <3>3
    <2>3. QED
        BY <2>1, <2>2 DEF Answers
  <1>4. QED
      BY <1>1, <1>2, <1>3

LEMMA AnswersFails ==
    ASSUME TypeOK, ListInv, NEW s \in Sessions, NEW t \in Tokens, UnwindFails(s),
           Answers(s, t), prob'[t] = prob[t]
    PROVE  AnswersOn(s, t)
  <1>1. /\ (Ends(s) /\ level[s] = 1) \/ Restarts(s)
        /\ undo[s] # NoUndo
        /\ \A i \in 1..Len(writes[s]) :
              i >= undo[s].at /\ Doomed(s, writes[s][i]) => writes[s][i].token \in excused'
      BY FailsEffect
  <1>2. CASE level[s] = 1
    <2>1. PICK i \in Pending(s) : writes[s][i].token = t
        BY <1>1, <1>2, TopAbort DEF Answers, WroteAt
    <2>2. i \in 1..Len(writes[s]) /\ i >= undo[s].at /\ Doomed(s, writes[s][i])
        BY <1>1, <1>2, TopAbort
    <2>3. QED
        BY <1>1, <2>1, <2>2 DEF AnswersOn
  <1>3. CASE Restarts(s)
    <2>1. CASE \E l \in Levels : WroteAt(s, l, t, prob[t])
        BY <1>3, <2>1 DEF AnswersOn, Answers, Restarts, WroteAt
    <2>2. ASSUME NEW i \in Pending(s), writes[s][i].token = t
          PROVE  AnswersOn(s, t)
      <3>1. CASE Doomed(s, writes[s][i])
          BY <1>1, <2>2, <3>1, LoopPending DEF AnswersOn
      <3>2. CASE ~Doomed(s, writes[s][i])
        <4>1. i \in Pending(s)' /\ writes'[s][i].token = t
            BY <1>3, <2>2, <3>2, ShrinkRestarts DEF Restarts
        <4>2. undo'[s] # NoUndo
            BY <1>1, <1>3, KeepBound, NoUndoFacts DEF Restarts, Loop, Levels
        <4>3. QED
            BY <4>1, <4>2 DEF AnswersOn, Answers
      <3>3. QED
          BY <3>1, <3>2
    <2>3. QED
        BY <2>1, <2>2 DEF Answers
  <1>4. QED
      BY <1>1, <1>2, <1>3

LEMMA AnswersCommit ==
    ASSUME TypeOK, ListInv, LiveInv, NEW s \in Sessions, NEW t \in Tokens,
           Commit(s) \/ Prepare(s), Answers(s, t), prob[t] # NaN
    PROVE  AnswersOn(s, t)
  <1>1. /\ undo[s] = NoUndo /\ prob' = prob
        /\ Commit(s) => kept' = kept \cup Wrote(AllVouched(s))
        /\ Prepare(s) => writes[s] = <<>>
      BY CommitEffect DEF Active
  <1>2. PICK l \in Levels : WroteAt(s, l, t, prob[t])
      BY <1>1 DEF Answers
  <1>3. prob[t] \in Probs
      BY DEF TypeOK
  <1>4. CASE Commit(s)
      BY <1>1, <1>2, <1>3, <1>4, VouchedFacts DEF AnswersOn
  <1>5. CASE Prepare(s)
    <2>1. PICK i \in 1..Len(writes[s]) : writes[s][i].token = t
        BY <1>2, <1>3 DEF LiveInv, Vouches
    <2>2. Len(writes[s]) = 0
        BY <1>1, <1>5, EmptyList
    <2>3. QED
        BY <2>1, <2>2
  <1>6. QED
      BY <1>4, <1>5

LEMMA AnswersCrash ==
    ASSUME TypeOK, ListInv, LiveInv, NEW s \in Sessions, NEW t \in Tokens, Crash,
           Answers(s, t), prob[t] # NaN
    PROVE  AnswersOn(s, t)
  <1>1. \E i \in 1..Len(writes[s]) : writes[s][i].token = t
    <2>1. CASE \E l \in Levels : WroteAt(s, l, t, prob[t])
      <3>1. prob[t] \in Probs
          BY DEF TypeOK
      <3>2. QED
          BY <2>1, <3>1 DEF LiveInv, Vouches
    <2>2. CASE \E i \in Pending(s) : writes[s][i].token = t
        BY <2>2 DEF Pending
    <2>3. QED
        BY <2>1, <2>2 DEF Answers
  <1>2. QED
      BY <1>1, CrashEffect DEF AnswersOn

LEMMA AnswersTold ==
    ASSUME TypeOK, NEW s \in Sessions, NEW t \in Tokens, NEW u \in Tokens, NEW p \in Probs,
           SetProb(s, u, p), prob'[t] # NaN
    PROVE  /\ Answers(s, t) /\ prob'[t] = prob[t] => AnswersOn(s, t)
           /\ prob'[t] # prob[t] => AnswersOn(s, t)
  <1>1. PICK b \in BOOLEAN :
           /\ Told(s, u, p, b) /\ prob' = [prob EXCEPT ![u] = p]
           /\ prob' # prob => b
    <2>1. prob[u] = p => prob = [prob EXCEPT ![u] = p]
        BY DEF TypeOK
    <2>2. QED
        BY <2>1, ToldEffect
  <1>2. undo[s] = NoUndo /\ level[s] \in Levels
      BY <1>1, SessionFacts DEF Told, Active, Levels
  <1>6. \A l \in Levels : vouched'[s][l] =
          IF l = level[s] THEN vouched[s][l] \cup {<<u, p, b>>} ELSE vouched[s][l]
      BY <1>1, Zenon DEF Told
  <1>3. ASSUME Answers(s, t), prob'[t] = prob[t]
        PROVE  AnswersOn(s, t)
    <2>1. PICK l \in Levels : WroteAt(s, l, t, prob[t])
        BY <1>2, <1>3 DEF Answers
    <2>2. WroteAt(s, l, t, prob[t])'
        BY <1>6, <1>3, <2>1 DEF WroteAt
    <2>3. QED
        BY <2>2 DEF AnswersOn, Answers
  <1>4. ASSUME prob'[t] # prob[t]
        PROVE  AnswersOn(s, t)
    <2>1. t = u /\ prob'[t] = p /\ b = TRUE
        BY <1>1, <1>4 DEF TypeOK
    <2>2. <<t, prob'[t], TRUE>> \in vouched'[s][level[s]]
        BY <1>2, <1>6, <2>1
    <2>3. QED
        BY <1>2, <2>2 DEF AnswersOn, Answers, WroteAt
  <1>5. QED
      BY <1>3, <1>4

\* No record is lost, and no warning taken back.
LEMMA RecordsGrow ==
    ASSUME TypeOK, ListInv, Next
    PROVE  kept \subseteq kept' /\ excused \subseteq excused'
  <1>1. \A s \in Sessions : Moves(s) \/ Quiet => UNCHANGED <<kept, excused>>
      BY DEF Moves, Quiet, store
  <1>2. \A s \in Sessions : Unwind(s) => UNCHANGED <<kept, excused>>
      BY DEF Unwind, ghosts
  <1>3. \A s \in Sessions : UnwindDone(s) => UNCHANGED <<kept, excused>>
      BY CutsEffect
  <1>4. \A s \in Sessions : Accepts(s) => UNCHANGED <<kept, excused>>
      BY DEF Accepts, SetProb
  <1>5. CASE Quiet
      BY <1>5 DEF Quiet, store
  <1>6. QED
      BY <1>1, <1>2, <1>3, <1>4, <1>5, Steps, CrashEffect, FailsEffect, CommitEffect

LEMMA WroteIn ==
    ASSUME NEW V, NEW t, NEW p, <<t, p, TRUE>> \in V
    PROVE  <<t, p>> \in Wrote(V)
  <1> DEFINE c == <<t, p, TRUE>>
  <1>1. c[1] = t /\ c[2] = p /\ c[3]
      OBVIOUS
  <1> HIDE DEF c
  <1>2. c \in {d \in V : d[3]}
      BY <1>1 DEF c
  <1>3. QED
      BY <1>1, <1>2 DEF Wrote, Pairs

LEMMA ClearedStep ==
    ASSUME TypeOK, TypeOK', ListInv, LiveInv, LiveInv', OneOwner, RolledBackIsCleared, Next
    PROVE  RolledBackIsCleared'
  <1>1. SUFFICES ASSUME NEW t \in Tokens, prob'[t] # NaN
                 PROVE  Accounted(t)'
    <2>1. ASSUME NEW s, NEW t, NEW l \in Levels, WroteAt(s, l, t, prob[t])'
          PROVE  <<t, prob'[t]>> \in Wrote(AllVouched(s)')
      <3>1. <<t, prob'[t], TRUE>> \in AllVouched(s)'
          BY <2>1 DEF WroteAt, AllVouched
      <3>2. QED
          BY <3>1, WroteIn
    <2>2. QED
        BY <1>1, <2>1 DEF RolledBackIsCleared, Accounted, Answers
  <1>2. ASSUME NEW r \in Sessions, AnswersOn(r, t)
        PROVE  Accounted(t)'
      BY <1>2 DEF AnswersOn, Accounted
  <1>3. CASE prob'[t] = prob[t] /\ ~\E r \in Sessions : Answers(r, t)
    <2>1. Accounted(t) /\ prob[t] # NaN
        BY <1>1, <1>3, AccountedFacts
    <2>2. QED
        BY <1>3, <2>1, RecordsGrow DEF Accounted
  <1>4. ASSUME NEW r \in Sessions, Answers(r, t), prob'[t] = prob[t]
        PROVE  AnswersOn(r, t)
    <2>1. CASE Same(r)
        BY <1>4, <2>1, AnswersSame
    <2>2. ASSUME NEW s \in Sessions, Others(s), r # s
          PROVE  AnswersOn(r, t)
        BY <1>4, <2>2, AnswersSame DEF Others
    <2>3. CASE Quiet
        BY <2>1, <2>3 DEF Quiet
    <2>4. CASE Crash
        BY <1>1, <1>4, <2>4, AnswersCrash
    <2>5. ASSUME NEW s \in Sessions,
                 \/ Moves(s) \/ Unwind(s) \/ UnwindDone(s) \/ UnwindFails(s)
                 \/ Commit(s) \/ Prepare(s)
          PROVE  AnswersOn(r, t)
      <3>1. Others(s)
          BY <2>5, TurnsEffect, CutsEffect, FailsEffect, CommitEffect DEF Moves
      <3>2. CASE r = s
          BY <1>1, <1>4, <2>5, <3>2, AnswersMoves, AnswersTurns, AnswersCuts, AnswersFails,
             AnswersCommit DEF Moves
      <3>3. QED
          BY <2>2, <3>1, <3>2
    <2>6. ASSUME NEW s \in Sessions, Accepts(s)
          PROVE  AnswersOn(r, t)
      <3>1. PICK u \in Tokens, p \in Probs : SetProb(s, u, p)
          BY <2>6 DEF Accepts
      <3>2. CASE r = s
          BY <1>1, <1>4, <3>1, <3>2, AnswersTold
      <3>3. QED
          BY <2>2, <3>1, <3>2, ToldEffect
    <2>7. QED
        BY <2>3, <2>4, <2>5, <2>6, Steps
  <1>5. CASE prob'[t] # prob[t]
    <2>1. ~ UNCHANGED <<prob, committed, kept>>
        BY <1>5
    <2>2. PICK s \in Sessions : Unwind(s) \/ Accepts(s)
        BY <1>5, <2>1, StoreStep
    <2>3. ~ Unwind(s)
        BY <1>1, <1>5, ClearedAlone
    <2>4. PICK u \in Tokens, p \in Probs : SetProb(s, u, p)
        BY <2>2, <2>3 DEF Accepts
    <2>5. QED
        BY <1>1, <1>2, <1>5, <2>4, AnswersTold
  <1>6. QED
      BY <1>2, <1>3, <1>4, <1>5
-----------------------------------------------------------------------------
(* What a gate's only writer was told *)

\* The gates the session touches are among those it touched.
Lessens(s) ==
    /\ \A i \in 1..Len(writes'[s]) :
          i \in 1..Len(writes[s]) /\ writes'[s][i].token = writes[s][i].token
    /\ \A l \in Levels : \A c \in vouched'[s][l] : \E m \in Levels : c \in vouched[s][m]

LEMMA OwnLessens ==
    ASSUME NEW s \in Sessions, OwnGates(s), Lessens(s)
    PROVE  OwnGates(s)'
  <1>1. \A i \in 1..Len(writes'[s]) : s \in Writers(writes'[s][i].token)
      BY DEF OwnGates, Lessens
  <1>2. \A l \in Levels : \A c \in vouched'[s][l] : s \in Writers(c[1])
      BY DEF OwnGates, Lessens
  <1>3. QED
      BY <1>1, <1>2 DEF OwnGates, Writers

LEMMA EffectsLessen ==
    ASSUME TypeOK, ListInv, NEW s \in Sessions,
           \/ Same(s) \/ Opens(s) \/ Resumes(s) \/ Releases(s) \/ Aborts(s)
           \/ Turns(s) \/ Cuts(s) \/ Restarts(s) \/ Ends(s)
    PROVE  Lessens(s)
  <1>1. CASE Same(s) \/ Opens(s) \/ Resumes(s) \/ Turns(s) \/ Restarts(s)
      BY <1>1 DEF Lessens, Same, Opens, Resumes, Turns, Restarts
  <1>2. CASE Releases(s)
    <2>1. level[s] \in Levels
        BY <1>2, SessionFacts DEF Releases, Levels
    <2>2. QED
        BY <1>2, <2>1 DEF Lessens, Releases
  <1>3. CASE Aborts(s)
      BY <1>3 DEF Lessens, Aborts
  <1>4. CASE Cuts(s)
    <2>1. undo[s].keep \in Nat /\ undo[s].keep <= Len(writes[s]) /\ Len(writes[s]) \in Nat
        BY <1>4, KeepBound, SessionFacts DEF Cuts
    <2>2. \A i \in 1..undo[s].keep : i \in 1..Len(writes[s])
        BY <2>1
    <2>3. QED
        BY <1>4, <2>2 DEF Lessens, Cuts
  <1>5. CASE Ends(s)
      BY <1>5, EmptyList DEF Lessens, Ends
  <1>6. QED
      BY <1>1, <1>2, <1>3, <1>4, <1>5

LEMMA OwnTold ==
    ASSUME TypeOK, NEW s \in Sessions, OwnGates(s), NEW t \in Tokens, NEW p \in Probs,
           NEW b \in BOOLEAN, Told(s, t, p, b), s \in Writers(t)
    PROVE  OwnGates(s)'
  <1>1. ASSUME NEW i \in 1..Len(writes'[s])
        PROVE  s \in Writers(writes'[s][i].token)
    <2>1. CASE i \in 1..Len(writes[s])
        BY <2>1 DEF OwnGates, Told
    <2>2. CASE i \notin 1..Len(writes[s])
      <3>1. b /\ i = Len(writes[s]) + 1
          BY <1>1, <2>2, SessionFacts DEF Told
      <3>2. QED
          BY <3>1 DEF Told
    <2>3. QED
        BY <2>1, <2>2
  <1>2. ASSUME NEW l \in Levels, NEW c \in vouched'[s][l]
        PROVE  s \in Writers(c[1])
    <2>1. c \in vouched[s][l] \/ c = <<t, p, b>>
        BY <1>2, Zenon DEF Told
    <2>2. QED
        BY <2>1 DEF OwnGates
  <1>3. QED
      BY <1>1, <1>2 DEF OwnGates, Writers

LEMMA OwnStep ==
    ASSUME TypeOK, ListInv, SoleInv, Next
    PROVE  \A s \in Sessions : OwnGates(s)'
  <1>1. \A s \in Sessions : OwnGates(s)
      BY DEF SoleInv
  <1>2. \A s \in Sessions : Same(s) \/ Ends(s) => OwnGates(s)'
      BY <1>1, EffectsLessen, OwnLessens
  <1>3. ASSUME NEW s \in Sessions, Others(s), OwnGates(s)'
        PROVE  \A r \in Sessions : OwnGates(r)'
      BY <1>2, <1>3 DEF Others
  <1>4. ASSUME NEW s \in Sessions,
               \/ Moves(s) \/ Unwind(s) \/ UnwindDone(s) \/ UnwindFails(s)
               \/ Commit(s) \/ Prepare(s)
        PROVE  Others(s) /\ OwnGates(s)'
    <2>1. CASE Moves(s)
        BY <1>1, <2>1, EffectsLessen, OwnLessens DEF Moves
    <2>2. CASE Unwind(s)
        BY <1>1, <2>2, TurnsEffect, EffectsLessen, OwnLessens
    <2>3. CASE UnwindDone(s)
        BY <1>1, <2>3, CutsEffect, EffectsLessen, OwnLessens
    <2>4. CASE UnwindFails(s)
        BY <1>1, <2>4, FailsEffect, EffectsLessen, OwnLessens
    <2>5. CASE Commit(s) \/ Prepare(s)
        BY <1>2, <2>5, CommitEffect
    <2>6. QED
        BY <1>4, <2>1, <2>2, <2>3, <2>4, <2>5
  <1>5. ASSUME NEW s \in Sessions, Accepts(s)
        PROVE  Others(s) /\ OwnGates(s)'
    <2>1. PICK t \in Tokens, p \in Probs : s \in Writers(t) /\ SetProb(s, t, p)
        BY <1>5 DEF Accepts
    <2>2. PICK b \in BOOLEAN : Others(s) /\ Told(s, t, p, b)
        BY <2>1, ToldEffect
    <2>3. QED
        BY <1>1, <2>1, <2>2, OwnTold
  <1>6. CASE Quiet
      BY <1>2, <1>6 DEF Quiet
  <1>7. CASE Crash
      BY <1>2, <1>7, CrashEffect
  <1>8. QED
      BY <1>3, <1>4, <1>5, <1>6, <1>7, Steps

\* No pending entry rises, nothing is added to what the session was told.
Fades(s) ==
    /\ \A i \in Pending(s)' : i \in Pending(s) /\ writes'[s][i] = writes[s][i]
    /\ \A l \in Levels : vouched'[s][l] \subseteq vouched[s][l]

LEMMA EffectsFade ==
    ASSUME TypeOK, ListInv, NEW s \in Sessions,
           \/ Same(s) \/ Opens(s) \/ Resumes(s) \/ Aborts(s)
           \/ Turns(s) \/ Cuts(s) \/ Restarts(s) \/ Ends(s)
    PROVE  Fades(s)
  <1>1. \A i \in Pending(s)' : i \in Pending(s) /\ writes'[s][i] = writes[s][i]
    <2>1. CASE Same(s) \/ Opens(s) \/ Resumes(s) \/ Aborts(s) \/ Turns(s) \/ Restarts(s)
      <3>1. Shrinks(s)
          BY <2>1, ShrinkSame, ShrinkMoves, ShrinkTurns, ShrinkRestarts
      <3>2. writes'[s] = writes[s]
          BY <2>1 DEF Same, Opens, Resumes, Aborts, Turns, Restarts
      <3>3. QED
          BY <3>1, <3>2 DEF Shrinks
    <2>2. CASE Cuts(s)
        BY <2>2, ShrinkCuts
    <2>3. CASE Ends(s)
        BY <2>3, ShrinkEnds
    <2>4. QED
        BY <2>1, <2>2, <2>3
  <1>2. \A l \in Levels : vouched'[s][l] \subseteq vouched[s][l]
      BY DEF Same, Opens, Resumes, Aborts, Turns, Cuts, Restarts, Ends
  <1>3. QED
      BY <1>1, <1>2 DEF Fades

LEMMA OutlivedFades ==
    ASSUME NEW s \in Sessions, NEW t \in Tokens, Outlived(s, t), Fades(s), prob'[t] = prob[t],
           \A p \in Probs : <<t, p>> \in committed' => <<t, p>> \in committed
    PROVE  Outlived(s, t)'
  <1>1. \A l \in Levels, p \in Probs : ToldAt(s, l, t, p)' => ToldAt(s, l, t, p)
      BY DEF ToldAt, Fades
  <1>2. QED
      BY <1>1 DEF Outlived, Fades

LEMMA OutlivedReleases ==
    ASSUME TypeOK, ListInv, NEW s \in Sessions, NEW t \in Tokens, Outlived(s, t), Releases(s),
           prob'[t] = prob[t], committed' = committed
    PROVE  Outlived(s, t)'
  <1> DEFINE n == level[s]
  <1>1. /\ n \in Levels /\ n - 1 \in Levels /\ Shrinks(s)
        /\ \A i \in Pending(s) :
              /\ i \in 1..Len(writes[s]) /\ writes[s][i].nest_level \in Levels
              /\ writes'[s][i].nest_level = IF writes[s][i].nest_level >= n
                                            THEN n - 1 ELSE writes[s][i].nest_level
    <2>1. n \in Levels /\ n - 1 \in Levels
        BY SessionFacts DEF Releases, Levels
    <2>2. QED
        BY <2>1, SessionFacts, ShrinkMoves DEF Releases, Pending
  <1>2. ASSUME NEW p \in Probs, <<t, p>> \in committed'
        PROVE  prob'[t] = p /\ \A i \in Pending(s)' : writes'[s][i].token # t
      BY <1>1, <1>2 DEF Outlived, Shrinks
  <1>3. ASSUME NEW l \in Levels, NEW p \in Probs, ToldAt(s, l, t, p)'
        PROVE  /\ prob'[t] = p
               /\ \A i \in Pending(s)' :
                     writes'[s][i].token = t => writes'[s][i].nest_level <= l
    <2>1. CASE l = n - 1
      <3>1. ToldAt(s, l, t, p) \/ ToldAt(s, n, t, p)
          BY <1>1, <1>3, <2>1 DEF ToldAt, Releases
      <3>2. prob[t] = p
          BY <1>1, <3>1 DEF Outlived
      <3>3. \A i \in Pending(s) : writes'[s][i].nest_level <= n - 1
          BY <1>1 DEF Levels
      <3>4. QED
          BY <1>1, <2>1, <3>2, <3>3 DEF Shrinks
    <2>2. CASE l # n - 1
      <3>1. ToldAt(s, l, t, p)
          BY <1>3, <2>2 DEF ToldAt, Releases
      <3>2. l # n
        <4>1. n # n - 1
            BY <1>1 DEF Levels
        <4>2. vouched'[s][n] = {}
            BY <1>1, <4>1 DEF Releases
        <4>3. QED
            BY <1>3, <4>2 DEF ToldAt
      <3>3. prob[t] = p /\ \A i \in Pending(s) :
               writes[s][i].token = t => writes[s][i].nest_level <= l
          BY <3>1 DEF Outlived
      <3>4. \A i \in Pending(s) : writes'[s][i].nest_level <= writes[s][i].nest_level
                                  /\ writes'[s][i].nest_level \in Levels
          BY <1>1 DEF Levels
      <3>5. \A i \in Pending(s)' : writes'[s][i].token = t => writes'[s][i].nest_level <= l
        <4>1. TAKE i \in Pending(s)'
        <4>2. HAVE writes'[s][i].token = t
        <4>3. /\ writes[s][i].nest_level <= l
              /\ writes'[s][i].nest_level <= writes[s][i].nest_level
              /\ writes'[s][i].nest_level \in Levels /\ writes[s][i].nest_level \in Levels
            BY <1>1, <3>3, <3>4, <4>2 DEF Shrinks
        <4>4. QED
            BY <4>3 DEF Levels
      <3>6. QED
          BY <3>3, <3>5
    <2>3. QED
        BY <2>1, <2>2
  <1>4. QED
      BY <1>2, <1>3 DEF Outlived

\* A loop that clears a write finds nobody who was told of it: who was told in a
\* committed transaction left no entry, who was told in a live one is above the loop.
LEMMA OutlivedCleared ==
    ASSUME TypeOK, ListInv, OneOwner, SoleInv, NEW s \in Sessions, NEW t \in Tokens,
           Writers(t) = {s}, NEW r \in Sessions, Unwind(r), prob'[t] # prob[t]
    PROVE  Outlived(s, t)'
  <1> DEFINE a == undo[r].at
  <1>1. /\ undo[r] # NoUndo /\ a \in Pending(r) /\ a \in 1..Len(writes[r])
        /\ writes[r][a].token = t /\ Doomed(r, writes[r][a])
      BY ClearedAlone
  <1>2. r = s
      BY <1>1 DEF SoleInv, OwnGates
  <1>3. Outlived(s, t)
      BY DEF SoleInv
  <1>4. \A p \in Probs : <<t, p>> \notin committed
      BY <1>1, <1>2, <1>3 DEF Outlived
  <1>5. \A l \in Levels, p \in Probs : ~ToldAt(s, l, t, p)
    <2>1. SUFFICES ASSUME NEW l \in Levels, NEW p \in Probs, ToldAt(s, l, t, p)
                   PROVE  FALSE
        OBVIOUS
    <2>2. writes[s][a].nest_level <= l /\ writes[s][a].nest_level \in Levels
        BY <1>1, <1>2, <1>3, <2>1, SessionFacts DEF Outlived
    <2>3. ~(l >= undo[s].goal)
      <3>1. l >= undo[s].goal => vouched[s][l] = {}
          BY <1>1, <1>2 DEF ListInv, InOrder, LoopInv
      <3>2. vouched[s][l] # {}
          BY <2>1 DEF ToldAt
      <3>3. QED
          BY <3>1, <3>2
    <2>4. undo[s].goal \in 1..level[s] /\ level[s] \in Levels
        BY <1>1, <1>2, KeepBound
    <2>5. level[s] # 1
        BY <2>3, <2>4 DEF Levels
    <2>6. writes[s][a].nest_level >= level[s]
        BY <1>1, <1>2, <2>5 DEF Doomed, UnwindFrom
    <2>7. QED
        BY <2>2, <2>3, <2>4, <2>6 DEF Levels
  <1>6. committed' = committed /\ vouched'[s] = vouched[s]
      BY <1>2, TurnsEffect DEF Turns
  <1>7. \A l \in Levels, p \in Probs : ~ToldAt(s, l, t, p)'
      BY <1>5, <1>6 DEF ToldAt
  <1>8. QED
      BY <1>4, <1>6, <1>7 DEF Outlived

LEMMA OutlivedEnds ==
    ASSUME TypeOK, NEW s \in Sessions, NEW t \in Tokens, Outlived(s, t),
           Commit(s) \/ Prepare(s)
    PROVE  Outlived(s, t)'
  <1>1. /\ prob' = prob /\ Ends(s)
        /\ committed' \in {committed, committed \cup Pairs(AllVouched(s))}
      BY CommitEffect
  <1>2. Pending(s)' = {} /\ \A l \in Levels : vouched'[s][l] = {}
      BY <1>1, ShrinkEnds DEF Ends
  <1>3. ASSUME NEW p \in Probs, <<t, p>> \in committed'
        PROVE  prob[t] = p
    <2>1. CASE <<t, p>> \in committed
        BY <2>1 DEF Outlived
    <2>2. CASE <<t, p>> \in Pairs(AllVouched(s))
        BY <2>2, VouchedFacts DEF Outlived, ToldAt
    <2>3. QED
        BY <1>1, <1>3, <2>1, <2>2
  <1>4. QED
      BY <1>1, <1>2, <1>3 DEF Outlived, ToldAt

LEMMA OutlivedTold ==
    ASSUME TypeOK, ListInv, OneOwner, NEW s \in Sessions, NEW t \in Tokens, Outlived(s, t),
           NEW u \in Tokens, NEW p \in Probs, SetProb(s, u, p)
    PROVE  Outlived(s, t)'
  <1>1. PICK b \in BOOLEAN :
           /\ Told(s, u, p, b) /\ committed' = committed
           /\ (b /\ prob[u] = NaN) \/ (~b /\ prob[u] = p)
      BY ToldEffect
  <1>2. /\ prob'[u] = p /\ \A v \in Tokens \ {u} : prob'[v] = prob[v]
        /\ b => \A i \in Pending(s) : writes[s][i].token # u
      BY <1>1, ToldAlone
  <1>3. /\ \A i \in Pending(s)' : i \in Pending(s) \/ (b /\ i = Len(writes[s]) + 1)
        /\ \A i \in Pending(s) : i \in 1..Len(writes[s]) /\ writes'[s][i] = writes[s][i]
        /\ b => /\ writes'[s][Len(writes[s]) + 1].token = u
                /\ writes'[s][Len(writes[s]) + 1].nest_level = level[s]
    <2>1. /\ \A i : i \in Pending(s) <=> i \in 1..Len(writes[s])
          /\ \A i : i \in Pending(s)' <=>
                i \in 1..Len(writes[s]) \/ (b /\ i = Len(writes[s]) + 1)
          /\ \A i \in 1..Len(writes[s]) : writes'[s][i] = writes[s][i]
        BY <1>1, PendingTold
    <2>2. b => /\ writes'[s][Len(writes[s]) + 1].token = u
               /\ writes'[s][Len(writes[s]) + 1].nest_level = level[s]
        BY <1>1, Zenon DEF Told
    <2>3. QED
        BY <2>1, <2>2
  <1>4. level[s] \in Levels
      BY <1>1, SessionFacts DEF Told, Active, Levels
  <1>5. \A l \in Levels, q \in Probs : ToldAt(s, l, t, q)' =>
           ToldAt(s, l, t, q) \/ (l = level[s] /\ t = u /\ q = p)
    <2>1. TAKE l \in Levels, q \in Probs
    <2>2. HAVE ToldAt(s, l, t, q)'
    <2>3. PICK c \in BOOLEAN : <<t, q, c>> \in vouched'[s][l]
        BY <2>2 DEF ToldAt
    <2>4. <<t, q, c>> \in vouched[s][l] \/ (l = level[s] /\ <<t, q, c>> = <<u, p, b>>)
        BY <1>1, <2>3, Zenon DEF Told
    <2>5. QED
        BY <2>4 DEF ToldAt
  <1>6. CASE t # u
    <2>1. \A l \in Levels, q \in Probs : ToldAt(s, l, t, q)' => ToldAt(s, l, t, q)
        BY <1>5, <1>6
    <2>2. \A i \in Pending(s)' : writes'[s][i].token = t =>
             i \in Pending(s) /\ writes'[s][i] = writes[s][i]
        BY <1>3, <1>6
    <2>3. QED
        BY <1>1, <1>2, <1>6, <2>1, <2>2 DEF Outlived
  <1>7. CASE t = u /\ ~b
    <2>1. prob'[t] = p /\ prob[t] = p
        BY <1>1, <1>2, <1>7
    <2>2. \A i \in Pending(s)' : i \in Pending(s) /\ writes'[s][i] = writes[s][i]
        BY <1>3, <1>7
    <2>3. \A i \in Pending(s) : writes[s][i].nest_level <= level[s]
        BY DEF Pending, ListInv, InOrder
    <2>4. ASSUME NEW l \in Levels, NEW q \in Probs, ToldAt(s, l, t, q)'
          PROVE  /\ prob'[t] = q
                 /\ \A i \in Pending(s)' :
                       writes'[s][i].token = t => writes'[s][i].nest_level <= l
      <3>1. CASE ToldAt(s, l, t, q)
          BY <2>1, <2>2, <3>1 DEF Outlived
      <3>2. CASE l = level[s] /\ q = p
          BY <2>1, <2>2, <2>3, <3>2
      <3>3. QED
          BY <1>5, <2>4, <3>1, <3>2
    <2>5. QED
        BY <1>1, <2>1, <2>2, <2>4 DEF Outlived
  <1>8. CASE t = u /\ b
    <2>1. /\ \A q \in Probs : <<t, q>> \notin committed
          /\ \A l \in Levels, q \in Probs : ~ToldAt(s, l, t, q)
        BY <1>1, <1>8, ProbAssumption DEF Outlived
    <2>2. \A i \in Pending(s)' : writes'[s][i].token = t => writes'[s][i].nest_level = level[s]
        BY <1>2, <1>3, <1>8
    <2>3. ASSUME NEW l \in Levels, NEW q \in Probs, ToldAt(s, l, t, q)'
          PROVE  /\ prob'[t] = q
                 /\ \A i \in Pending(s)' :
                       writes'[s][i].token = t => writes'[s][i].nest_level <= l
      <3>1. l = level[s] /\ q = p
          BY <1>5, <2>1, <2>3
      <3>2. l <= l
          BY DEF Levels
      <3>3. QED
          BY <1>2, <1>8, <2>2, <3>1, <3>2
    <2>4. QED
        BY <1>1, <2>1, <2>3 DEF Outlived
  <1>9. QED
      BY <1>6, <1>7, <1>8

LEMMA OutlivedStep ==
    ASSUME TypeOK, ListInv, OneOwner, SoleInv, Next,
           NEW s \in Sessions, NEW t \in Tokens, Writers(t) = {s}
    PROVE  Outlived(s, t)'
  <1>1. Outlived(s, t) /\ s \in Writers(t)
      BY DEF SoleInv
  <1>2. Same(s) \/ Ends(s) => Fades(s)
      BY EffectsFade
  <1>3. ASSUME Fades(s), prob'[t] = prob[t],
               \A p \in Probs : <<t, p>> \in committed' => <<t, p>> \in committed
        PROVE  Outlived(s, t)'
      BY <1>1, <1>3, OutlivedFades
  <1>4. ASSUME NEW r \in Sessions, Moves(r)
        PROVE  Outlived(s, t)'
    <2>1. UNCHANGED <<prob, committed>>
        BY <1>4 DEF Moves, store
    <2>2. CASE r # s
        BY <1>2, <1>3, <1>4, <2>1, <2>2 DEF Moves, Others
    <2>3. CASE r = s /\ Releases(s)
        BY <1>1, <2>1, <2>3, OutlivedReleases
    <2>4. CASE r = s /\ ~Releases(s)
        BY <1>3, <1>4, <2>1, <2>4, EffectsFade DEF Moves
    <2>5. QED
        BY <2>2, <2>3, <2>4
  <1>5. ASSUME NEW r \in Sessions, Unwind(r)
        PROVE  Outlived(s, t)'
    <2>1. CASE prob'[t] # prob[t]
        BY <1>5, <2>1, OutlivedCleared
    <2>2. CASE prob'[t] = prob[t]
      <3>1. committed' = committed /\ Turns(r) /\ Others(r)
          BY <1>5, TurnsEffect
      <3>2. Fades(s)
          BY <1>2, <3>1, EffectsFade DEF Others
      <3>3. QED
          BY <1>3, <2>2, <3>1, <3>2
    <2>3. QED
        BY <2>1, <2>2
  <1>6. ASSUME NEW r \in Sessions, UnwindDone(r) \/ UnwindFails(r)
        PROVE  Outlived(s, t)'
    <2>1. /\ UNCHANGED <<prob, committed>> /\ Others(r)
          /\ Ends(r) \/ Cuts(r) \/ Restarts(r)
        BY <1>6, CutsEffect, FailsEffect
    <2>2. Fades(s)
        BY <1>2, <2>1, EffectsFade DEF Others
    <2>3. QED
        BY <1>3, <2>1, <2>2
  <1>7. ASSUME NEW r \in Sessions, Commit(r) \/ Prepare(r)
        PROVE  Outlived(s, t)'
    <2>1. CASE r = s
        BY <1>1, <1>7, <2>1, OutlivedEnds
    <2>2. CASE r # s
      <3>1. /\ prob' = prob /\ Others(r)
            /\ committed' \in {committed, committed \cup Pairs(AllVouched(r))}
          BY <1>7, CommitEffect
      <3>2. ASSUME NEW p \in Probs
            PROVE  <<t, p>> \notin Pairs(AllVouched(r))
        <4>1. SUFFICES ASSUME <<t, p>> \in Pairs(AllVouched(r))
                       PROVE  FALSE
            OBVIOUS
        <4>2. PICK l \in Levels, b \in BOOLEAN : <<t, p, b>> \in vouched[r][l]
            BY <4>1, VouchedFacts
        <4>3. r \in Writers(t)
          <5>1. r \in Writers(<<t, p, b>>[1])
              BY <4>2 DEF SoleInv, OwnGates
          <5>2. QED
              BY <5>1
        <4>4. QED
            BY <2>2, <4>3
      <3>3. QED
          BY <1>2, <1>3, <2>2, <3>1, <3>2 DEF Others
    <2>3. QED
        BY <2>1, <2>2
  <1>8. ASSUME NEW r \in Sessions, Accepts(r)
        PROVE  Outlived(s, t)'
    <2>1. PICK u \in Tokens, p \in Probs : r \in Writers(u) /\ SetProb(r, u, p)
        BY <1>8 DEF Accepts
    <2>2. CASE r = s
        BY <1>1, <2>1, <2>2, OutlivedTold
    <2>3. CASE r # s
      <3>1. u # t
          BY <2>1, <2>3
      <3>2. prob'[t] = prob[t] /\ committed' = committed /\ Others(r)
        <4>1. prob'[t] = prob[t]
            BY <2>1, <3>1, ToldAlone
        <4>2. committed' = committed /\ Others(r)
            BY <2>1, ToldEffect
        <4>3. QED
            BY <4>1, <4>2
      <3>3. QED
          BY <1>2, <1>3, <2>3, <3>2 DEF Others
    <2>4. QED
        BY <2>2, <2>3
  <1>9. CASE Quiet
      BY <1>2, <1>3, <1>9 DEF Quiet, store
  <1>10. CASE Crash
      BY <1>2, <1>3, <1>10, CrashEffect
  <1>11. QED
      BY <1>4, <1>5, <1>6, <1>7, <1>8, <1>9, <1>10, Steps

LEMMA SoleStep ==
    ASSUME TypeOK, ListInv, OneOwner, SoleInv, Next
    PROVE  SoleInv'
BY OwnStep, OutlivedStep DEF SoleInv, Writers
-----------------------------------------------------------------------------
(* The theorems *)

LEMMA InitWriteOnce == Init => WriteOnceInv
  <1> SUFFICES ASSUME Init PROVE WriteOnceInv
      OBVIOUS
  <1>1. /\ \A s \in Sessions :
              /\ level[s] = 0 /\ failed[s] = FALSE /\ writes[s] = <<>> /\ undo[s] = NoUndo
              /\ \A l \in Levels : vouched[s][l] = {}
        /\ \A t \in Tokens : prob[t] = NaN
        /\ committed = {} /\ kept = {} /\ excused = {}
      BY DEF Init
  <1>2. TypeOK
      BY EmptyList, NoUndoFacts DEF Init, TypeOK
  <1>3. \A s \in Sessions : Pending(s) = {}
      BY <1>1, EmptyList DEF Pending
  <1>4. OneOwner
      BY <1>3 DEF OneOwner
  <1>5. CommittedWritesStand /\ RolledBackIsCleared
      BY <1>1 DEF CommittedWritesStand, RolledBackIsCleared
  <1>6. ListInv
      BY <1>1, EmptyList DEF ListInv, InOrder
  <1>7. LiveInv
    <2>1. ASSUME NEW s \in Sessions
          PROVE  Vouches(s)
      <3>1. \A l \in Levels, t \in Tokens, p \in Probs : ~WroteAt(s, l, t, p)
        <4>1. TAKE l \in Levels, t \in Tokens, p \in Probs
        <4>2. QED
            BY <1>1 DEF WroteAt
      <3>2. ~\E i \in 1..Len(writes[s]) : TRUE
          BY <1>1, EmptyList
      <3>3. QED
          BY <3>1, <3>2 DEF Vouches
    <2>2. QED
        BY <2>1 DEF LiveInv
  <1>8. SoleInv
    <2>1. ASSUME NEW s \in Sessions
          PROVE  OwnGates(s) /\ \A t \in Tokens : Outlived(s, t)
      <3>1. \A l \in Levels, t \in Tokens, p \in Probs : ~ToldAt(s, l, t, p)
          BY <1>1 DEF ToldAt
      <3>2. OwnGates(s)
          BY <1>1, EmptyList DEF OwnGates
      <3>3. QED
          BY <1>1, <3>1, <3>2 DEF Outlived
    <2>2. QED
        BY <2>1 DEF SoleInv
  <1>9. QED
      BY <1>2, <1>4, <1>5, <1>6, <1>7, <1>8 DEF WriteOnceInv, ProbInv

LEMMA StepWriteOnce == WriteOnceInv /\ [Next]_vars => WriteOnceInv'
  <1> SUFFICES ASSUME WriteOnceInv, [Next]_vars PROVE WriteOnceInv'
      OBVIOUS
  <1>1. /\ TypeOK /\ OneOwner /\ CommittedWritesStand /\ RolledBackIsCleared
        /\ ListInv /\ LiveInv /\ SoleInv
      BY DEF WriteOnceInv, ProbInv
  <1>2. CASE Next
    <2>1. TypeOK' /\ ListInv'
        BY <1>1, <1>2, TypeStep, ListStep
    <2>2. OneOwner' /\ LiveInv' /\ CommittedWritesStand'
        BY <1>1, <1>2, OwnerStep, LiveStep, KeptStep
    <2>3. RolledBackIsCleared'
        BY <1>1, <1>2, <2>1, <2>2, ClearedStep
    <2>4. SoleInv'
        BY <1>1, <1>2, SoleStep
    <2>5. QED
        BY <2>1, <2>2, <2>3, <2>4 DEF WriteOnceInv, ProbInv
  <1>3. CASE UNCHANGED vars
    <2>1. UNCHANGED <<prob, writes, level, failed, registered, fresh, undo, xacts, faults,
                      vouched, committed, kept, excused>>
        BY <1>3 DEF vars, session, ghosts
    <2>2. TypeOK'
        BY <1>1, <2>1 DEF TypeOK
    <2>3. \A s \in Sessions : Pending(s)' = Pending(s) /\ AllVouched(s)' = AllVouched(s)
        BY <2>1 DEF Pending, Doomed, UnwindFrom, AllVouched
    <2>4. OneOwner' /\ CommittedWritesStand' /\ RolledBackIsCleared'
        BY <1>1, <2>1, <2>3 DEF OneOwner, CommittedWritesStand, RolledBackIsCleared
    <2>5. Quiet
        BY <2>1 DEF Quiet, Same, store
    <2>6. ListInv'
        BY <1>1, <2>5, OrderSame DEF Quiet, ListInv
    <2>7. LiveInv'
        BY <1>1, <2>5, VouchSame DEF Quiet, LiveInv, Untouched, store
    <2>8. \A s \in Sessions : OwnGates(s)'
        BY <1>1, <2>5, EffectsLessen, OwnLessens DEF SoleInv, Quiet
    <2>9. \A s \in Sessions, t \in Tokens : Writers(t) = {s} => Outlived(s, t)'
        BY <1>1, <2>5, EffectsFade, OutlivedFades DEF SoleInv, Quiet, store
    <2>10. SoleInv'
        BY <2>8, <2>9 DEF SoleInv, Writers
    <2>11. QED
        BY <2>2, <2>4, <2>6, <2>7, <2>10 DEF WriteOnceInv, ProbInv
  <1>4. QED
      BY <1>2, <1>3

\* In every run the lists are in order, every live write is in the list of the session
\* that wrote it, and everything below follows.
THEOREM WriteOnceInvariant == Spec => []WriteOnceInv
BY InitWriteOnce, StepWriteOnce, PTL DEF Spec

\* prob_writes of all sessions never name one gate twice while an abort could still
\* clear it, nor a gate a committed transaction wrote (probability_store.c).
THEOREM OneUndoPerProbability == Spec => []ProbInv
  <1>1. WriteOnceInv => ProbInv
      BY DEF WriteOnceInv
  <1>2. QED
      BY <1>1, WriteOnceInvariant, PTL

\* No prob_writes_unwind, of whatever session and level and with whatever failures,
\* clears a probability that a committed transaction wrote.
THEOREM CommittedWritesAlwaysStand == Spec => []CommittedWritesStand
  <1>1. WriteOnceInv => CommittedWritesStand
      BY DEF WriteOnceInv
  <1>2. QED
      BY <1>1, WriteOnceInvariant, PTL

\* What a rolled-back (sub)transaction wrote is cleared, at savepoint granularity,
\* unless a warning or a crash said otherwise.
THEOREM RolledBackIsAlwaysCleared == Spec => []RolledBackIsCleared
  <1>1. WriteOnceInv => RolledBackIsCleared
      BY DEF WriteOnceInv
  <1>2. QED
      BY <1>1, WriteOnceInvariant, PTL

\* What set_prob accepted for a gate of one session's own stands in its live
\* subtransactions and after its commits.
THEOREM AcceptedAlwaysStands == Spec => []AcceptedStands
  <1>1. ASSUME WriteOnceInv
        PROVE  AcceptedStands
    <2>1. TypeOK /\ SoleInv
        BY <1>1 DEF WriteOnceInv, ProbInv
    <2>2. ASSUME NEW s \in Sessions, NEW w \in committed \cup Pairs(AllVouched(s)),
                 Writers(w[1]) = {s}
          PROVE  prob[w[1]] = w[2]
      <3>1. w[1] \in Tokens /\ w[2] \in Probs /\ w = <<w[1], w[2]>>
          BY <2>1, VouchedFacts DEF TypeOK
      <3>2. Outlived(s, w[1])
          BY <2>1, <2>2, <3>1 DEF SoleInv
      <3>3. CASE w \in committed
          BY <3>1, <3>2, <3>3 DEF Outlived
      <3>4. CASE w \in Pairs(AllVouched(s))
        <4>1. \E l \in Levels, b \in BOOLEAN : <<w[1], w[2], b>> \in vouched[s][l]
            BY <2>1, <3>1, <3>4, VouchedFacts
        <4>2. QED
            BY <3>1, <3>2, <4>1 DEF Outlived, ToldAt
      <3>5. QED
          BY <2>2, <3>3, <3>4
    <2>3. QED
        BY <2>2 DEF AcceptedStands
  <1>2. QED
      BY <1>1, WriteOnceInvariant, PTL
=============================================================================
