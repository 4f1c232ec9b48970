------------------------ MODULE MMappedCircuitProofs ------------------------
(***************************************************************************)
(* For every set of tokens, every content, every bound, whatever messages  *)
(* arrive and whenever the worker is killed.  First StoreInv: the handler  *)
(* is where its locals say it is and the four files agree.  Then what they *)
(* say of each token, CircuitInv, from which the promises made to sessions *)
(* follow: children are read whole, acknowledged annotations stand, what   *)
(* was created reads back, and no other token is ever disturbed.           *)
(***************************************************************************)
EXTENDS MMappedCircuit, TLAPS

USE BoundAssumption

\* What a message holds, by its kind.
LEMMA MessageFields ==
    ASSUME NEW m \in Messages
    PROVE  /\ m.token \in Tokens
           /\ m.op = "C" => m.type \in GateTypes /\ m.children \in Seq(Tokens)
           /\ m.op = "P" => m.prob \in Probs \cup {NaN}
           /\ m.op = "I" => m.info1 \in Infos \cup {0} /\ m.info2 \in Infos \cup {0}
           /\ m.op = "E" => m.str \in Extras
    BY DEF Messages

\* A new record is a record.
LEMMA NewRecordType ==
    ASSUME NEW type \in GateTypes, NEW nb \in Nat, NEW idx \in Nat
    PROVE  NewRecord(type, nb, idx) \in GateInformation
    BY DEF NewRecord, GateInformation

LEMMA BlankRecordType == BlankRecord \in GateInformation
    BY NewRecordType, GateTypesAssumption DEF BlankRecord

\* FilesAgree says what AllInRange says.
LEMMA FilesAgreeMeans ==
    ASSUME FilesType
    PROVE  FilesAgree <=> AllInRange
  <1>0. /\ nb_wires \in Nat /\ nb_extra \in Nat
        /\ \A i \in 0..(nb_gates - 1) :
              /\ gates[i].children_idx \in Nat /\ gates[i].nb_children \in Nat
              /\ gates[i].extra_idx \in Nat /\ gates[i].extra_len \in Nat
    <2>1. \A i \in 0..(nb_gates - 1) : gates[i] \in GateInformation
        BY DEF FilesType
    <2>2. QED
        BY <2>1 DEF FilesType, GateInformation
  <1>1. DanglingIndices = {} <=> \A t \in Tokens : Mapped(t) => mapping[t] < nb_gates
      BY DEF DanglingIndices, FilesType, Mapped
  <1>2. BadWires = {} <=>
          \A i \in 0..(nb_gates - 1) : gates[i].children_idx + gates[i].nb_children <= nb_wires
      BY <1>0 DEF BadWires
  <1>3. BadExtra = {} <=>
          \A i \in 0..(nb_gates - 1) : gates[i].extra_idx + gates[i].extra_len <= nb_extra
      BY <1>0 DEF BadExtra
  <1>4. QED
      BY <1>1, <1>2, <1>3 DEF FilesAgree, AllInRange, InRange

LEMMA InitStoreInv == Init => StoreInv
  <1> SUFFICES ASSUME Init PROVE StoreInv
      OBVIOUS
  <1> USE DEF Init
  <1>1. FilesType /\ GhostType
      BY BlankRecordType DEF FilesType, GhostType, Promises
  <1>2. WorkerType
      BY DEF WorkerType, PCs
  <1>3. HeaderType
      BY DEF HeaderType
  <1>4. Control /\ Progress
      BY DEF Control, Progress, UpgradePCs, AppendPCs, ExtraPCs
  <1>5. Slots /\ AllInRange /\ OneRecordPerToken
      BY ValueAssumption DEF Slots, AllInRange, OneRecordPerToken, Mapped
  <1>6. QED
      BY <1>1, <1>2, <1>3, <1>4, <1>5 DEF StoreInv, TypeOK

-----------------------------------------------------------------------------
(* What a step does to the files: nothing, a vector grows, a record changes. *)

FilesInv == FilesType /\ AllInRange /\ OneRecordPerToken
            /\ \A i \in 0..(MaxGates - 1) : i >= nb_gates => gates[i] = BlankRecord

LEMMA NoStore ==
    ASSUME FilesInv, UNCHANGED files PROVE FilesInv'
    BY DEF FilesInv, files, FilesType, AllInRange, OneRecordPerToken, Mapped

\* The fields of a stored record that are numbers.
LEMMA RecordFields ==
    ASSUME NEW r \in GateInformation
    PROVE  /\ r.children_idx \in Nat /\ r.nb_children \in Nat
           /\ r.extra_idx \in Nat /\ r.extra_len \in Nat
    BY DEF GateInformation

\* A longer vector puts no record out of range.
LEMMA VectorsGrow ==
    ASSUME FilesInv,
           nb_wires' \in nb_wires..MaxWires, nb_extra' \in nb_extra..MaxExtra,
           wires' \in [0..(MaxWires - 1) -> Tokens \cup {NOTHING}],
           extra' \in [0..(MaxExtra - 1) -> Bytes \cup {NOTHING}],
           UNCHANGED <<mapping, gates, nb_gates>>
    PROVE  FilesInv'
  <1>1. FilesType'
      BY DEF FilesInv, FilesType
  <1>2. AllInRange'
    <2>1. SUFFICES ASSUME NEW i \in 0..(nb_gates - 1)
                   PROVE  InRange(gates[i], nb_wires', nb_extra')
        BY DEF FilesInv, AllInRange, Mapped
    <2>2. gates[i] \in GateInformation /\ InRange(gates[i], nb_wires, nb_extra)
        BY DEF FilesInv, FilesType, AllInRange
    <2>3. QED
        BY <2>2, RecordFields DEF FilesInv, FilesType, InRange
  <1>3. QED
      BY <1>1, <1>2 DEF FilesInv, OneRecordPerToken, Mapped

\* A record in use is replaced by one that is in range.
LEMMA RecordStored ==
    ASSUME FilesInv, NEW i \in 0..(nb_gates - 1), NEW r \in GateInformation,
           InRange(r, nb_wires, nb_extra),
           gates' = [gates EXCEPT ![i] = r],
           UNCHANGED <<mapping, nb_gates, wires, nb_wires, extra, nb_extra>>
    PROVE  FilesInv' /\ gates'[i] = r
  <1>1. i \in 0..(MaxGates - 1)
      BY DEF FilesInv, FilesType
  <1>2. FilesType'
      BY <1>1 DEF FilesInv, FilesType
  <1>3. AllInRange'
      BY <1>1 DEF FilesInv, FilesType, AllInRange, Mapped
  <1>4. QED
      BY <1>1, <1>2, <1>3 DEF FilesInv, FilesType, OneRecordPerToken, Mapped

-----------------------------------------------------------------------------
(* Facts several handlers use. *)

\* A token the table knows leads to a record that is in range.
LEMMA KnownToken ==
    ASSUME FilesInv, NEW t \in Tokens, Mapped(t)
    PROVE  /\ mapping[t] \in 0..(nb_gates - 1) /\ mapping[t] \in 0..(MaxGates - 1)
           /\ RecordOf(t) \in GateInformation
           /\ InRange(RecordOf(t), nb_wires, nb_extra)
    BY DEF FilesInv, FilesType, AllInRange, Mapped, RecordOf

\* A handler that returns leaves nothing to remember.
LEMMA Returning ==
    ASSUME FilesInv', HeaderType', GhostType', kills' \in 0..MaxKills, Return
    PROVE  StoreInv'
  <1> USE DEF Return
  <1>1. WorkerType'
      BY DEF WorkerType, PCs
  <1>2. Control' /\ Progress' /\ Slots'
      BY DEF Control, Progress, Slots, UpgradePCs, AppendPCs, ExtraPCs, FilesInv
  <1>3. QED
      BY <1>1, <1>2 DEF StoreInv, TypeOK, FilesInv

LEMMA FilesInvHolds == StoreInv => FilesInv
    BY DEF StoreInv, TypeOK, FilesInv, Slots

-----------------------------------------------------------------------------
(* One lemma per action. *)

LEMMA ReceiveStep ==
    ASSUME StoreInv, NEW m \in Offered, Receive(m) PROVE StoreInv'
  <1> USE DEF StoreInv, TypeOK, Receive, locals, ghosts
  <1>1. m \in Messages
      BY OfferedAssumption
  <1>2. FilesInv'
      BY NoStore DEF FilesInv, Slots
  <1>3. WorkerType' /\ GhostType'
      BY <1>1 DEF WorkerType, GhostType, PCs
  <1>4. HeaderType'
      BY Zenon DEF HeaderType
  <1>5. (Control /\ Progress)'
      BY <1>1 DEF Control, Progress, UpgradePCs, AppendPCs, ExtraPCs
  <1>6. QED
      BY <1>2, <1>3, <1>4, <1>5 DEF FilesInv, Slots

LEMMA AppendWiresStep ==
    ASSUME StoreInv, AppendWires PROVE StoreInv'
  <1> USE DEF StoreInv, TypeOK, AppendWires, header, ghosts
  <1>1. frame \in Frames /\ frame.children \in Seq(Tokens) /\ Len(frame.children) \in Nat
      BY DEF Control, AppendPCs, Frames
  <1>2. wires' \in [0..(MaxWires - 1) -> Tokens \cup {NOTHING}] /\ nb_wires' \in nb_wires..MaxWires
    <2>1. CASE k < Len(frame.children)
      <3>1. frame.children[k + 1] \in Tokens
          BY <1>1, <2>1 DEF WorkerType
      <3>2. QED
          BY <2>1, <3>1 DEF FilesType
    <2>2. CASE ~(k < Len(frame.children))
        BY <2>2 DEF FilesType
    <2>3. QED
        BY <2>1, <2>2
  <1>3. FilesInv'
      BY <1>2, VectorsGrow DEF FilesInv, Slots, FilesType
  <1>4. WorkerType' /\ GhostType'
      BY DEF WorkerType, GhostType, PCs
  <1>5. HeaderType'
      BY DEF HeaderType
  <1>6. Control' /\ Slots'
      BY DEF Control, UpgradePCs, AppendPCs, ExtraPCs, Mapped, Slots
  <1>7. Progress'
    <2>0. k <= Len(frame.children) /\ base + k = nb_wires /\ k \in Nat
        BY DEF Progress, WorkerType
    <2>1. pc' = "append_wires" => k' <= Len(frame.children) /\ base + k' = nb_wires'
        BY <1>1, <2>0 DEF FilesType, WorkerType
    <2>2. pc' = "append_record" => base + Len(frame.children) = nb_wires'
      <3>1. CASE k < Len(frame.children)
          BY <3>1
      <3>2. CASE ~(k < Len(frame.children))
          BY <1>1, <2>0, <3>2
      <3>3. QED
          BY <3>1, <3>2
    <2>3. QED
        BY <2>1, <2>2 DEF Progress, ExtraPCs
  <1>8. QED
      BY <1>3, <1>4, <1>5, <1>6, <1>7 DEF FilesInv

LEMMA AppendRecordStep ==
    ASSUME StoreInv, AppendRecord PROVE StoreInv'
  <1> USE DEF StoreInv, TypeOK, AppendRecord, header, ghosts, locals
  <1> DEFINE r == NewRecord(frame.type, Len(frame.children), base)
  <1>1. frame \in Frames /\ frame.type \in GateTypes /\ Len(frame.children) \in Nat
      BY DEF Control, AppendPCs, Frames
  <1>2. r \in GateInformation /\ InRange(r, nb_wires, nb_extra)
    <2>1. r \in GateInformation
        BY <1>1, NewRecordType DEF WorkerType
    <2>2. base + Len(frame.children) = nb_wires
        BY DEF Progress
    <2>3. QED
        BY <1>1, <2>1, <2>2 DEF InRange, NewRecord, FilesType, WorkerType
  <1>3. FilesInv'
    <2>1. FilesType'
        BY <1>2 DEF FilesType
    <2>2. AllInRange'
      <3>1. \A t \in Tokens : Mapped(t)' => mapping'[t] < nb_gates'
          BY DEF AllInRange, Mapped, FilesType
      <3>2. \A i \in 0..(nb_gates' - 1) : InRange(gates'[i], nb_wires', nb_extra')
          BY <1>2 DEF AllInRange, FilesType
      <3>3. QED
          BY <3>1, <3>2 DEF AllInRange
    <2>3. QED
        BY <2>1, <2>2 DEF FilesInv, OneRecordPerToken, Mapped, Slots, FilesType
  <1>4. WorkerType' /\ GhostType'
      BY DEF WorkerType, GhostType, PCs
  <1>5. HeaderType'
      BY DEF HeaderType
  <1>6. Control'
      BY DEF Control, UpgradePCs, AppendPCs, ExtraPCs
  <1>7. Progress'
      BY DEF Progress, ExtraPCs
  <1>8. Slots'
    <2>1. nb_gates' > 0 /\ nb_gates' - 1 = nb_gates
        BY DEF FilesType
    <2>2. \A t \in Tokens : mapping[t] # nb_gates
      <3>1. nb_gates \in Nat
          BY DEF FilesType
      <3>2. \A t \in Tokens : mapping[t] = NOTHING \/ mapping[t] < nb_gates
          BY DEF AllInRange, Mapped
      <3> HIDE DEF StoreInv, TypeOK, AppendRecord
      <3>3. QED
          BY <3>1, <3>2, ValueAssumption
    <2>3. QED
        BY <1>3, <2>1, <2>2 DEF Slots, FilesInv
  <1>9. QED
      BY <1>3, <1>4, <1>5, <1>6, <1>7, <1>8 DEF FilesInv

LEMMA AppendPublishStep ==
    ASSUME StoreInv, AppendPublish PROVE StoreInv'
  <1> USE DEF StoreInv, TypeOK, AppendPublish, header, ghosts, locals
  <1>1. frame \in Frames /\ frame.token \in Tokens /\ frame.return \in {"kids", "prob"}
      BY DEF Control, AppendPCs, Frames
  <1>2. nb_gates > 0 /\ nb_gates - 1 \in Nat /\ \A t \in Tokens : mapping[t] # nb_gates - 1
      BY DEF Slots, FilesType
  <1>3. /\ mapping' \in [Tokens -> Nat \cup {NOTHING}]
        /\ \A t \in Tokens : t # frame.token => mapping'[t] = mapping[t]
        /\ mapping'[frame.token] =
              IF Mapped(frame.token) THEN mapping[frame.token] ELSE nb_gates - 1
      BY <1>1, <1>2 DEF FilesType
  <1>4. FilesInv'
    <2>1. FilesType'
        BY <1>3 DEF FilesType
    <2>2. \A t \in Tokens : Mapped(t)' => mapping'[t] < nb_gates
        BY <1>2, <1>3 DEF AllInRange, Mapped, FilesType
    <2>3. OneRecordPerToken'
        BY <1>1, <1>2, <1>3 DEF OneRecordPerToken, Mapped
    <2>4. QED
        BY <2>1, <2>2, <2>3 DEF FilesInv, Slots, AllInRange
  <1>5. WorkerType' /\ GhostType'
      BY <1>1 DEF WorkerType, GhostType, PCs
  <1>6. HeaderType'
      BY DEF HeaderType
  <1>7. Mapped(frame.token)'
      BY <1>2, <1>3, ValueAssumption DEF Mapped
  <1>8. Control'
      BY <1>1, <1>7 DEF Control, UpgradePCs, AppendPCs, ExtraPCs
  <1>9. Progress' /\ Slots'
      BY <1>1, <1>4 DEF Progress, ExtraPCs, Slots, FilesInv
  <1>10. QED
      BY <1>4, <1>5, <1>6, <1>8, <1>9 DEF FilesInv

\* Entering appendGate, from createGate or from setProb.
LEMMA Calling ==
    ASSUME StoreInv, UNCHANGED <<files, header, kills, msg>>, GhostType', kid' \in Nat,
           NEW token \in Tokens, NEW type \in GateTypes, NEW children \in Seq(Tokens),
           NEW return \in {"kids", "prob"},
           pc # "idle",
           return = "kids" => msg.op = "C",
           return = "prob" => msg.op = "P" /\ token = msg.token,
           CallAppend(token, type, children, return)
    PROVE  StoreInv'
  <1> USE DEF StoreInv, TypeOK, CallAppend, header
  <1>1. FilesInv'
      BY NoStore, FilesInvHolds
  <1>2. WorkerType'
      BY DEF WorkerType, PCs, Frames, FilesType
  <1>3. HeaderType'
      BY DEF HeaderType
  <1>4. Control'
      BY DEF Control, UpgradePCs, AppendPCs, ExtraPCs, Frames
  <1>5. nb_wires' = nb_wires /\ nb_wires \in Nat /\ Len(children) \in Nat
      BY DEF files, FilesType
  <1>6. Progress'
      BY <1>5 DEF Progress, ExtraPCs
  <1>7. QED
      BY <1>1, <1>2, <1>3, <1>4, <1>6 DEF FilesInv, Slots

LEMMA CreateGateStep ==
    ASSUME StoreInv, CreateGate PROVE StoreInv'
  <1> USE DEF StoreInv, TypeOK, CreateGate
  <1>1. /\ msg \in Messages /\ msg.token \in Tokens
        /\ msg.type \in GateTypes /\ msg.children \in Seq(Tokens) /\ Len(msg.children) \in Nat
      BY MessageFields DEF Control
  <1>2. FilesInv' /\ HeaderType' /\ GhostType' /\ kills' \in 0..MaxKills
    <2>1. FilesInv'
        BY NoStore, FilesInvHolds
    <2>2. HeaderType' /\ GhostType' /\ kills' \in 0..MaxKills
        BY <1>1 DEF HeaderType, GhostType, WorkerType, header
    <2>3. QED
        BY <2>1, <2>2
  <1>3. CASE ~Mapped(msg.token)
    <2>1. CallAppend(msg.token, msg.type, msg.children, "kids") /\ UNCHANGED <<msg, kid>>
        BY <1>3
    <2>2. QED
        BY <1>1, <1>2, <2>1, Calling DEF WorkerType
  <1>4. CASE Mapped(msg.token) /\ Placeholder(RecordOf(msg.token)) /\ RealCreate(msg)
    <2>1. /\ base' = nb_wires /\ k' = 0 /\ pc' = "upgrade_wires"
          /\ UNCHANGED <<msg, frame, kid, files>>
        BY <1>4
    <2>2. WorkerType'
        BY <1>2, <2>1 DEF WorkerType, PCs, FilesType
    <2>3. Control'
        BY <1>1, <1>4, <2>1 DEF Control, UpgradePCs, AppendPCs, ExtraPCs, Mapped, files
    <2>4. Progress'
      <3>1. nb_wires' = nb_wires /\ nb_wires \in Nat /\ RecordOf(msg.token)' = RecordOf(msg.token)
          BY <2>1 DEF files, FilesType, RecordOf
      <3>2. QED
          BY <1>1, <1>4, <2>1, <3>1 DEF Progress, ExtraPCs, Placeholder
    <2>5. QED
        BY <1>2, <2>1, <2>2, <2>3, <2>4 DEF FilesInv, Slots
  <1>5. CASE Mapped(msg.token) /\ ~(Placeholder(RecordOf(msg.token)) /\ RealCreate(msg))
      BY <1>2, <1>5, Returning
  <1>6. QED
      BY <1>3, <1>4, <1>5

LEMMA UpgradeWiresStep ==
    ASSUME StoreInv, UpgradeWires PROVE StoreInv'
  <1> USE DEF StoreInv, TypeOK, UpgradeWires, header, ghosts
  <1>1. /\ msg \in Messages /\ msg.token \in Tokens /\ msg.op = "C"
        /\ msg.children \in Seq(Tokens) /\ Len(msg.children) \in Nat
      BY MessageFields DEF Control, UpgradePCs
  <1>2. wires' \in [0..(MaxWires - 1) -> Tokens \cup {NOTHING}] /\ nb_wires' \in nb_wires..MaxWires
    <2>1. CASE k < Len(msg.children)
      <3>1. msg.children[k + 1] \in Tokens
          BY <1>1, <2>1 DEF WorkerType
      <3>2. QED
          BY <2>1, <3>1 DEF FilesType
    <2>2. CASE ~(k < Len(msg.children))
        BY <2>2 DEF FilesType
    <2>3. QED
        BY <2>1, <2>2
  <1>3. FilesInv'
      BY <1>2, VectorsGrow, FilesInvHolds DEF FilesType
  <1>4. WorkerType' /\ GhostType'
      BY DEF WorkerType, GhostType, PCs
  <1>5. HeaderType'
      BY DEF HeaderType
  <1>6. Control' /\ Slots'
      BY DEF Control, UpgradePCs, AppendPCs, ExtraPCs, Mapped, Slots
  <1>7. Progress'
    <2>0. /\ k <= Len(msg.children) /\ base + k = nb_wires /\ k \in Nat
          /\ RecordOf(msg.token).nb_children = 0 /\ RecordOf(msg.token)' = RecordOf(msg.token)
        BY DEF Progress, WorkerType, RecordOf
    <2>1. pc' = "upgrade_wires" => k' <= Len(msg.children) /\ base + k' = nb_wires'
      <3>1. CASE k < Len(msg.children)
          BY <1>1, <2>0, <3>1 DEF WorkerType
      <3>2. CASE ~(k < Len(msg.children))
          BY <3>2
      <3>3. QED
          BY <3>1, <3>2
    <2>2. pc' = "upgrade_idx" => base + Len(msg.children) = nb_wires'
      <3>1. CASE k < Len(msg.children)
          BY <3>1
      <3>2. CASE ~(k < Len(msg.children))
          BY <1>1, <2>0, <3>2
      <3>3. QED
          BY <3>1, <3>2
    <2>3. QED
        BY <2>0, <2>1, <2>2 DEF Progress, ExtraPCs
  <1>8. QED
      BY <1>3, <1>4, <1>5, <1>6, <1>7 DEF FilesInv
\* The record of the message's token is replaced and the handler goes on.
LEMMA FieldStored ==
    ASSUME StoreInv, msg.token \in Tokens, Mapped(msg.token),
           NEW r \in GateInformation, InRange(r, nb_wires, nb_extra),
           gates' = [gates EXCEPT ![mapping[msg.token]] = r],
           UNCHANGED <<mapping, nb_gates, wires, nb_wires, extra, nb_extra, msg>>
    PROVE  FilesInv' /\ Mapped(msg.token)' /\ RecordOf(msg.token)' = r
  <1>1. FilesInv /\ mapping[msg.token] \in 0..(nb_gates - 1)
      BY KnownToken, FilesInvHolds
  <1>2. FilesInv' /\ gates'[mapping[msg.token]] = r
      BY <1>1, RecordStored
  <1>3. QED
      BY <1>2 DEF Mapped, RecordOf

LEMMA FieldStep ==
    ASSUME StoreInv, msg.token \in Tokens, Mapped(msg.token),
           NEW r \in GateInformation, InRange(r, nb_wires, nb_extra),
           NEW to \in PCs \ {"append_publish"},
           gates' = [gates EXCEPT ![mapping[msg.token]] = r], pc' = to,
           UNCHANGED <<mapping, nb_gates, wires, nb_wires, extra, nb_extra, header, msg, locals,
                       kills, ghosts>>
    PROVE  /\ FilesInv' /\ WorkerType' /\ HeaderType' /\ GhostType' /\ Slots'
           /\ Mapped(msg.token)' /\ RecordOf(msg.token)' = r
  <1> USE DEF StoreInv, TypeOK, header, locals, ghosts
  <1>1. FilesInv' /\ Mapped(msg.token)' /\ RecordOf(msg.token)' = r
      BY FieldStored
  <1>2. WorkerType' /\ GhostType'
      BY DEF WorkerType, GhostType
  <1>3. HeaderType'
      BY DEF HeaderType
  <1>4. Slots'
      BY <1>1 DEF Slots, FilesInv
  <1>5. QED
      BY <1>1, <1>2, <1>3, <1>4

LEMMA UpgradeRecordStep ==
    ASSUME StoreInv, UpgradeRecord PROVE StoreInv'
  <1> USE DEF StoreInv, TypeOK
  <1>0. pc \in {"upgrade_idx", "upgrade_nb", "upgrade_type"}
      BY DEF UpgradeRecord, StoreField
  <1>1. /\ msg \in Messages /\ msg.token \in Tokens /\ msg.op = "C" /\ msg.type \in GateTypes
        /\ msg.children \in Seq(Tokens) /\ Len(msg.children) \in Nat
        /\ Mapped(msg.token)
      BY <1>0, MessageFields DEF Control, UpgradePCs
  <1>2. /\ RecordOf(msg.token) \in GateInformation
        /\ InRange(RecordOf(msg.token), nb_wires, nb_extra)
        /\ base + Len(msg.children) = nb_wires /\ base \in Nat /\ nb_wires \in Nat
      BY <1>0, <1>1, KnownToken, FilesInvHolds DEF Progress, WorkerType, FilesType
  <1> DEFINE old == RecordOf(msg.token)
  <1>3. CASE StoreField("upgrade_idx", "children_idx", base, "upgrade_nb")
    <2> DEFINE r == [old EXCEPT !.children_idx = base]
    <2>1. /\ gates' = [gates EXCEPT ![mapping[msg.token]] = r] /\ pc' = "upgrade_nb"
          /\ UNCHANGED <<mapping, nb_gates, wires, nb_wires, extra, nb_extra, header, msg, locals,
                         kills, ghosts>>
        BY <1>3 DEF StoreField, RecordOf
    <2>2. r \in GateInformation /\ r.children_idx = base
        BY <1>2 DEF GateInformation
    <2>3. InRange(r, nb_wires, nb_extra)
        BY <1>1, <1>2, <1>3 DEF InRange, GateInformation, Progress, StoreField
    <2>4. /\ FilesInv' /\ WorkerType' /\ HeaderType' /\ GhostType' /\ Slots'
          /\ Mapped(msg.token)' /\ RecordOf(msg.token)' = r
      <3> HIDE DEF r, StoreInv, TypeOK
      <3>1. pc' \in PCs \ {"append_publish"}
          BY <2>1 DEF PCs
      <3>2. QED
          BY <1>1, <2>1, <2>2, <2>3, <3>1, FieldStep
    <2>5. Control'
        BY <1>1, <2>1, <2>4 DEF Control, UpgradePCs, AppendPCs, ExtraPCs
    <2>6. Progress'
        BY <1>1, <1>2, <2>1, <2>2, <2>4 DEF Progress, ExtraPCs, locals
    <2>7. QED
        BY <2>4, <2>5, <2>6 DEF FilesInv
  <1>4. CASE StoreField("upgrade_nb", "nb_children", Len(msg.children), "upgrade_type")
    <2> DEFINE r == [old EXCEPT !.nb_children = Len(msg.children)]
    <2>1. /\ gates' = [gates EXCEPT ![mapping[msg.token]] = r] /\ pc' = "upgrade_type"
          /\ UNCHANGED <<mapping, nb_gates, wires, nb_wires, extra, nb_extra, header, msg, locals,
                         kills, ghosts>>
        BY <1>4 DEF StoreField, RecordOf
    <2>2. r \in GateInformation /\ r.children_idx = base
        BY <1>1, <1>2, <1>4 DEF GateInformation, Progress, StoreField
    <2>3. InRange(r, nb_wires, nb_extra)
        BY <1>1, <1>2, <2>2 DEF InRange, GateInformation
    <2>4. /\ FilesInv' /\ WorkerType' /\ HeaderType' /\ GhostType' /\ Slots'
          /\ Mapped(msg.token)' /\ RecordOf(msg.token)' = r
      <3> HIDE DEF r, StoreInv, TypeOK
      <3>1. pc' \in PCs \ {"append_publish"}
          BY <2>1 DEF PCs
      <3>2. QED
          BY <1>1, <2>1, <2>2, <2>3, <3>1, FieldStep
    <2>5. Control'
        BY <1>1, <2>1, <2>4 DEF Control, UpgradePCs, AppendPCs, ExtraPCs
    <2>6. Progress'
        BY <1>1, <1>2, <2>1, <2>2, <2>4 DEF Progress, ExtraPCs, locals
    <2>7. QED
        BY <2>4, <2>5, <2>6 DEF FilesInv
  <1>5. CASE StoreField("upgrade_type", "type", msg.type, "kids")
    <2> DEFINE r == [old EXCEPT !.type = msg.type]
    <2>1. /\ gates' = [gates EXCEPT ![mapping[msg.token]] = r] /\ pc' = "kids"
          /\ UNCHANGED <<mapping, nb_gates, wires, nb_wires, extra, nb_extra, header, msg, locals,
                         kills, ghosts>>
        BY <1>5 DEF StoreField, RecordOf
    <2>2. r \in GateInformation
        BY <1>1, <1>2 DEF GateInformation
    <2>3. InRange(r, nb_wires, nb_extra)
        BY <1>2 DEF InRange, GateInformation
    <2>4. /\ FilesInv' /\ WorkerType' /\ HeaderType' /\ GhostType' /\ Slots'
          /\ Mapped(msg.token)' /\ RecordOf(msg.token)' = r
      <3> HIDE DEF r, StoreInv, TypeOK
      <3>1. pc' \in PCs \ {"append_publish"}
          BY <2>1 DEF PCs
      <3>2. QED
          BY <1>1, <2>1, <2>2, <2>3, <3>1, FieldStep
    <2>5. Control' /\ Progress'
        BY <1>1, <2>1, <2>4 DEF Control, Progress, UpgradePCs, AppendPCs, ExtraPCs
    <2>6. QED
        BY <2>4, <2>5 DEF FilesInv
  <1>6. QED
      BY <1>3, <1>4, <1>5 DEF UpgradeRecord

LEMMA KidsStep ==
    ASSUME StoreInv, Kids PROVE StoreInv'
  <1> USE DEF StoreInv, TypeOK, Kids
  <1>1. /\ msg \in Messages /\ msg.token \in Tokens /\ msg.op = "C"
        /\ msg.children \in Seq(Tokens) /\ Len(msg.children) \in Nat
      BY MessageFields DEF Control
  <1>2. FilesInv' /\ GhostType' /\ HeaderType' /\ kills' \in 0..MaxKills
    <2>1. FilesInv'
        BY NoStore, FilesInvHolds
    <2>2. GhostType' /\ kills' \in 0..MaxKills
        BY <1>1 DEF GhostType, WorkerType
    <2>3. HeaderType'
        BY DEF HeaderType, header
    <2>4. QED
        BY <2>1, <2>2, <2>3
  <1>3. CASE kid < Len(msg.children) /\ Mapped(msg.children[kid + 1])
    <2>1. kid' = kid + 1 /\ UNCHANGED <<pc, frame, base, k, msg, kills>>
        BY <1>1, <1>3 DEF WorkerType
    <2>2. WorkerType'
        BY <2>1 DEF WorkerType
    <2>3. Control' /\ Progress' /\ Slots'
        BY <1>2, <2>1 DEF Control, Progress, Slots, UpgradePCs, AppendPCs, ExtraPCs, FilesInv
    <2>4. QED
        BY <1>2, <2>2, <2>3 DEF FilesInv
  <1>4. CASE kid < Len(msg.children) /\ ~Mapped(msg.children[kid + 1])
    <2>1. /\ CallAppend(msg.children[kid + 1], "gate_input", <<>>, "kids")
          /\ kid' = kid + 1 /\ UNCHANGED <<files, header, kills, msg>>
        BY <1>1, <1>4 DEF WorkerType
    <2>2. msg.children[kid + 1] \in Tokens /\ kid' \in Nat
        BY <1>1, <1>4, <2>1 DEF WorkerType
    <2>3. QED
      <3> HIDE DEF StoreInv, TypeOK, Kids
      <3>1. <<>> \in Seq(Tokens) /\ "gate_input" \in GateTypes /\ pc # "idle"
          BY GateTypesAssumption DEF Kids
      <3>2. QED
          BY <1>1, <1>2, <2>1, <2>2, <3>1, Calling
  <1>5. CASE kid = Len(msg.children)
      BY <1>1, <1>2, <1>5, Returning
  <1>6. QED
      BY <1>3, <1>4, <1>5

LEMMA SetProbLookupStep ==
    ASSUME StoreInv, SetProbLookup PROVE StoreInv'
  <1>1. msg \in Messages /\ msg.token \in Tokens /\ msg.op = "P" /\ pc = "dispatch"
      BY MessageFields DEF StoreInv, Control, SetProbLookup
  <1>2. FilesInv' /\ GhostType' /\ HeaderType'
    <2>1. FilesInv'
        BY NoStore, FilesInvHolds DEF SetProbLookup
    <2>2. GhostType' /\ HeaderType'
        BY DEF StoreInv, TypeOK, GhostType, HeaderType, SetProbLookup, ghosts, header
    <2>3. QED
        BY <2>1, <2>2
  <1>3. CASE Mapped(msg.token)
    <2>1. pc' = "prob" /\ UNCHANGED <<frame, base, k, msg, kid, kills, mapping>>
        BY <1>3 DEF SetProbLookup, files
    <2>2. WorkerType'
        BY <2>1 DEF StoreInv, TypeOK, WorkerType, PCs
    <2>3. Control' /\ Progress' /\ Slots'
        BY <1>1, <1>2, <1>3, <2>1
        DEF Control, Progress, Slots, UpgradePCs, AppendPCs, ExtraPCs, FilesInv, Mapped
    <2>4. QED
        BY <1>2, <2>2, <2>3 DEF StoreInv, TypeOK, FilesInv
  <1>4. CASE ~Mapped(msg.token)
    <2>1. /\ CallAppend(msg.token, "gate_input", <<>>, "prob")
          /\ UNCHANGED <<files, header, kills, msg>> /\ kid' \in Nat
        BY <1>4 DEF SetProbLookup, StoreInv, TypeOK, WorkerType
    <2>2. <<>> \in Seq(Tokens) /\ "gate_input" \in GateTypes
        BY GateTypesAssumption
    <2>3. QED
        BY <1>1, <1>2, <2>1, <2>2, Calling
  <1>5. QED
      BY <1>3, <1>4

LEMMA SetProbStep ==
    ASSUME StoreInv, SetProb PROVE StoreInv'
  <1>1. /\ msg \in Messages /\ msg.token \in Tokens /\ msg.prob \in Probs \cup {NaN}
        /\ Mapped(msg.token)
      BY MessageFields DEF StoreInv, Control, SetProb
  <1>2. RecordOf(msg.token) \in GateInformation /\ InRange(RecordOf(msg.token), nb_wires, nb_extra)
      BY <1>1, KnownToken, FilesInvHolds
  <1>3. FilesInv'
    <2> DEFINE r == [RecordOf(msg.token) EXCEPT !.prob = msg.prob]
    <2>1. CASE gates' = gates
        BY <2>1, NoStore, FilesInvHolds DEF SetProb, files
    <2>2. CASE gates' = [gates EXCEPT ![mapping[msg.token]].prob = msg.prob]
      <3>1. gates' = [gates EXCEPT ![mapping[msg.token]] = r]
          BY <2>2 DEF RecordOf
      <3>2. r \in GateInformation /\ InRange(r, nb_wires, nb_extra)
          BY <1>1, <1>2 DEF GateInformation, InRange
      <3>3. mapping[msg.token] \in 0..(nb_gates - 1) /\ FilesInv
          BY <1>1, KnownToken, FilesInvHolds
      <3> HIDE DEF r
      <3>4. QED
          BY <3>1, <3>2, <3>3, RecordStored DEF SetProb
    <2>3. QED
        BY <2>1, <2>2 DEF SetProb
  <1>4. GhostType'
    <2>1. promised \in [Tokens -> Promises] /\ promised[msg.token] \in Promises
        BY <1>1 DEF StoreInv, TypeOK, GhostType
    <2>2. \A q \in Probs \cup {NaN} : [promised[msg.token] EXCEPT !.prob = q] \in Promises
        BY <2>1 DEF Promises
    <2>3. \E q \in Probs \cup {NaN} :
             \/ promised' = promised
             \/ promised' = [promised EXCEPT ![msg.token] = [promised[msg.token] EXCEPT !.prob = q]]
      <3>1. promised[msg.token].prob \in Probs \cup {NaN}
          BY <2>1 DEF Promises
      <3>2. QED
          BY <1>1, <3>1 DEF SetProb
    <2>4. promised' \in [Tokens -> Promises]
        BY <2>1, <2>2, <2>3
    <2>5. QED
        BY <2>4 DEF GhostType, SetProb, StoreInv, TypeOK
  <1>5. HeaderType' /\ kills' \in 0..MaxKills /\ Return
      BY DEF SetProb, StoreInv, TypeOK, WorkerType, HeaderType, header
  <1>6. QED
      BY <1>3, <1>4, <1>5, Returning

LEMMA SetInfosStep ==
    ASSUME StoreInv, SetInfos PROVE StoreInv'
  <1>1. msg \in Messages /\ msg.token \in Tokens /\ msg.op = "I" /\ pc = "dispatch"
      BY MessageFields DEF StoreInv, Control, SetInfos
  <1>2. FilesInv' /\ GhostType' /\ HeaderType' /\ kills' \in 0..MaxKills
    <2>1. FilesInv'
        BY NoStore, FilesInvHolds DEF SetInfos
    <2>2. GhostType' /\ HeaderType' /\ kills' \in 0..MaxKills
        BY DEF StoreInv, TypeOK, GhostType, HeaderType, WorkerType, SetInfos, ghosts, header
    <2>3. QED
        BY <2>1, <2>2
  <1>3. CASE InfosToWrite(msg)
    <2>1. pc' = "info1" /\ UNCHANGED <<msg, locals, kills, mapping>> /\ Mapped(msg.token)
        BY <1>3 DEF SetInfos, InfosToWrite, files
    <2>2. WorkerType'
        BY <2>1 DEF StoreInv, TypeOK, WorkerType, PCs, locals
    <2>3. Control' /\ Progress' /\ Slots'
        BY <1>1, <1>2, <2>1
        DEF Control, Progress, Slots, UpgradePCs, AppendPCs, ExtraPCs, FilesInv, Mapped
    <2>4. QED
        BY <1>2, <2>2, <2>3 DEF StoreInv, TypeOK, FilesInv
  <1>4. CASE ~InfosToWrite(msg)
      BY <1>2, <1>4, Returning DEF SetInfos
  <1>5. QED
      BY <1>3, <1>4

LEMMA StoreInfo1Step ==
    ASSUME StoreInv, StoreInfo1 PROVE StoreInv'
  <1>1. /\ msg \in Messages /\ msg.token \in Tokens /\ msg.op = "I" /\ Mapped(msg.token)
        /\ msg.info1 \in Infos \cup {0}
      BY MessageFields DEF StoreInv, Control, StoreInfo1, StoreField
  <1>2. RecordOf(msg.token) \in GateInformation /\ InRange(RecordOf(msg.token), nb_wires, nb_extra)
      BY <1>1, KnownToken, FilesInvHolds
  <1> DEFINE v == Merge(msg.info1, RecordOf(msg.token).info1)
             r == [RecordOf(msg.token) EXCEPT !.info1 = v]
  <1>3. /\ gates' = [gates EXCEPT ![mapping[msg.token]] = r] /\ pc' = "info2"
        /\ UNCHANGED <<mapping, nb_gates, wires, nb_wires, extra, nb_extra, header, msg, locals,
                       kills, ghosts>>
      BY DEF StoreInfo1, StoreField, RecordOf
  <1>4. r \in GateInformation /\ InRange(r, nb_wires, nb_extra)
      BY <1>1, <1>2 DEF GateInformation, InRange, Merge
  <1>5. pc' \in PCs \ {"append_publish"}
      BY <1>3 DEF PCs
  <1> HIDE DEF r
  <1>6. /\ FilesInv' /\ WorkerType' /\ HeaderType' /\ GhostType' /\ Slots'
        /\ Mapped(msg.token)'
      BY <1>1, <1>3, <1>4, <1>5, FieldStep
  <1>7. Control' /\ Progress'
      BY <1>1, <1>3, <1>6 DEF Control, Progress, UpgradePCs, AppendPCs, ExtraPCs
  <1>8. QED
      BY <1>6, <1>7 DEF StoreInv, TypeOK, FilesInv

LEMMA StoreInfo2Step ==
    ASSUME StoreInv, StoreInfo2 PROVE StoreInv'
  <1>1. /\ msg \in Messages /\ msg.token \in Tokens /\ msg.op = "I" /\ Mapped(msg.token)
        /\ msg.info2 \in Infos \cup {0}
      BY MessageFields DEF StoreInv, Control, StoreInfo2
  <1>2. RecordOf(msg.token) \in GateInformation /\ InRange(RecordOf(msg.token), nb_wires, nb_extra)
      BY <1>1, KnownToken, FilesInvHolds
  <1> DEFINE v == Merge(msg.info2, RecordOf(msg.token).info2)
             r == [RecordOf(msg.token) EXCEPT !.info2 = v]
  <1>3. v \in Infos \cup {0} /\ RecordOf(msg.token).info1 \in Infos \cup {0}
      BY <1>1, <1>2 DEF Merge, GateInformation
  <1>4. FilesInv'
    <2>1. gates' = [gates EXCEPT ![mapping[msg.token]] = r]
        BY DEF StoreInfo2, RecordOf
    <2>2. r \in GateInformation /\ InRange(r, nb_wires, nb_extra)
        BY <1>2, <1>3 DEF GateInformation, InRange
    <2>3. mapping[msg.token] \in 0..(nb_gates - 1) /\ FilesInv
        BY <1>1, KnownToken, FilesInvHolds
    <2> HIDE DEF r
    <2>4. QED
        BY <2>1, <2>2, <2>3, RecordStored DEF StoreInfo2
  <1>5. GhostType'
    <2>1. promised \in [Tokens -> Promises] /\ promised[msg.token] \in Promises
        BY <1>1 DEF StoreInv, TypeOK, GhostType
    <2> DEFINE pr == [[promised[msg.token] EXCEPT !.info1 = RecordOf(msg.token).info1]
                        EXCEPT !.info2 = v]
    <2>2. pr \in Promises
        BY <1>3, <2>1 DEF Promises
    <2>3. promised' = [promised EXCEPT ![msg.token] = pr]
        BY <1>1, <2>1 DEF StoreInfo2, GhostType
    <2> HIDE DEF pr
    <2>4. promised' \in [Tokens -> Promises]
        BY <2>1, <2>2, <2>3
    <2>5. QED
        BY <2>4 DEF GhostType, StoreInfo2, StoreInv, TypeOK
  <1>6. HeaderType' /\ kills' \in 0..MaxKills /\ Return
      BY DEF StoreInfo2, StoreInv, TypeOK, WorkerType, HeaderType, header
  <1>7. QED
      BY <1>4, <1>5, <1>6, Returning

\* What the handler of an 'E' message knows of it.
LEMMA ExtraMessage ==
    ASSUME StoreInv, pc # "idle", msg.op = "E"
    PROVE  /\ msg \in Messages /\ msg.token \in Tokens
           /\ msg.str \in Extras /\ msg.str \in Seq(Bytes) /\ Len(msg.str) \in Nat
    BY MessageFields, ValueAssumption DEF StoreInv, Control

\* Acknowledging the string of an 'E' message.
LEMMA ExtraPromised ==
    ASSUME StoreInv, msg.token \in Tokens, msg.str \in Extras, UNCHANGED created,
           promised' = [promised EXCEPT ![msg.token].extra = msg.str]
    PROVE  GhostType'
  <1>1. promised \in [Tokens -> Promises] /\ promised[msg.token] \in Promises
      BY DEF StoreInv, TypeOK, GhostType
  <1> DEFINE pr == [promised[msg.token] EXCEPT !.extra = msg.str]
  <1>2. pr \in Promises
      BY <1>1 DEF Promises
  <1>3. promised' = [promised EXCEPT ![msg.token] = pr]
      OBVIOUS
  <1> HIDE DEF pr
  <1>4. promised' \in [Tokens -> Promises]
      BY <1>1, <1>2, <1>3
  <1>5. QED
      BY <1>4 DEF GhostType, StoreInv, TypeOK

LEMMA SetExtraStep ==
    ASSUME StoreInv, SetExtra PROVE StoreInv'
  <1>1. /\ msg \in Messages /\ msg.token \in Tokens /\ msg.op = "E" /\ pc = "dispatch"
        /\ msg.str \in Extras /\ Len(msg.str) \in Nat
      BY ExtraMessage DEF SetExtra
  <1>2. FilesInv' /\ HeaderType' /\ kills' \in 0..MaxKills
    <2>1. FilesInv'
        BY NoStore, FilesInvHolds DEF SetExtra
    <2>2. HeaderType' /\ kills' \in 0..MaxKills
        BY DEF StoreInv, TypeOK, HeaderType, WorkerType, SetExtra, header
    <2>3. QED
        BY <2>1, <2>2
  <1>3. CASE Mapped(msg.token) /\ RecordOf(msg.token).extra_len = 0
    <2>1. /\ base' = nb_extra /\ k' = 0 /\ pc' = "extra_idx"
          /\ UNCHANGED <<msg, frame, kid, promised, files, kills, created>>
        BY <1>3 DEF SetExtra
    <2>2. WorkerType' /\ GhostType'
        BY <2>1 DEF StoreInv, TypeOK, WorkerType, GhostType, PCs, FilesType
    <2>3. Control'
        BY <1>1, <1>3, <2>1 DEF Control, UpgradePCs, AppendPCs, ExtraPCs, Mapped, files
    <2>4. Progress'
      <3>1. nb_extra' = nb_extra /\ nb_extra \in Nat /\ RecordOf(msg.token)' = RecordOf(msg.token)
          BY <2>1 DEF files, StoreInv, TypeOK, FilesType, RecordOf
      <3>2. QED
          BY <1>1, <1>3, <2>1, <3>1 DEF Progress, ExtraPCs
    <2>5. QED
        BY <1>2, <2>1, <2>2, <2>3, <2>4 DEF StoreInv, TypeOK, FilesInv, Slots
  <1>4. CASE ~(Mapped(msg.token) /\ RecordOf(msg.token).extra_len = 0)
    <2>1. GhostType'
      <3>1. CASE promised' = promised
          BY <3>1 DEF GhostType, StoreInv, TypeOK, SetExtra
      <3>2. CASE promised' = [promised EXCEPT ![msg.token].extra = msg.str]
          BY <1>1, <3>2, ExtraPromised DEF SetExtra
      <3>3. QED
          BY <1>4, <3>1, <3>2 DEF SetExtra
    <2>2. Return
        BY <1>4 DEF SetExtra
    <2>3. QED
        BY <1>2, <2>1, <2>2, Returning
  <1>5. QED
      BY <1>3, <1>4

LEMMA StoreExtraIdxStep ==
    ASSUME StoreInv, StoreExtraIdx PROVE StoreInv'
  <1>1. /\ msg \in Messages /\ msg.token \in Tokens /\ msg.op = "E" /\ Mapped(msg.token)
        /\ Len(msg.str) \in Nat /\ pc = "extra_idx"
    <2>1. pc = "extra_idx" /\ msg.op = "E" /\ Mapped(msg.token)
        BY DEF StoreInv, Control, ExtraPCs, StoreExtraIdx, StoreField
    <2>2. QED
        BY <2>1, ExtraMessage
  <1>2. RecordOf(msg.token) \in GateInformation /\ InRange(RecordOf(msg.token), nb_wires, nb_extra)
      BY <1>1, KnownToken, FilesInvHolds
  <1>3. /\ RecordOf(msg.token).extra_len = 0 /\ k = 0 /\ base = nb_extra
        /\ base \in Nat /\ nb_extra \in Nat
      BY <1>1 DEF StoreInv, TypeOK, Progress, ExtraPCs, WorkerType, FilesType
  <1> DEFINE r == [RecordOf(msg.token) EXCEPT !.extra_idx = base]
  <1>4. /\ gates' = [gates EXCEPT ![mapping[msg.token]] = r] /\ pc' = "extra_bytes"
        /\ UNCHANGED <<mapping, nb_gates, wires, nb_wires, extra, nb_extra, header, msg, locals,
                       kills, ghosts>>
      BY DEF StoreExtraIdx, StoreField, RecordOf
  <1>5. r \in GateInformation /\ InRange(r, nb_wires, nb_extra) /\ r.extra_idx = base /\ r.extra_len = 0
      BY <1>2, <1>3 DEF GateInformation, InRange
  <1>6. pc' \in PCs \ {"append_publish"}
      BY <1>4 DEF PCs
  <1> HIDE DEF r
  <1>7. /\ FilesInv' /\ WorkerType' /\ HeaderType' /\ GhostType' /\ Slots'
        /\ Mapped(msg.token)' /\ RecordOf(msg.token)' = r
      BY <1>1, <1>4, <1>5, <1>6, FieldStep
  <1>8. Control'
      BY <1>1, <1>4, <1>7 DEF Control, UpgradePCs, AppendPCs, ExtraPCs
  <1>9. Progress'
      BY <1>1, <1>3, <1>4, <1>5, <1>7 DEF Progress, ExtraPCs, locals
  <1>10. QED
      BY <1>7, <1>8, <1>9 DEF StoreInv, TypeOK, FilesInv

LEMMA StoreExtraBytesStep ==
    ASSUME StoreInv, StoreExtraBytes PROVE StoreInv'
  <1> USE DEF StoreExtraBytes, header, ghosts
  <1>1. /\ msg.token \in Tokens /\ msg.op = "E" /\ msg.str \in Seq(Bytes)
        /\ Len(msg.str) \in Nat /\ pc = "extra_bytes"
    <2>1. pc = "extra_bytes" /\ msg.op = "E"
        BY DEF StoreInv, Control, ExtraPCs
    <2>2. QED
        BY <2>1, ExtraMessage
  <1>2. extra' \in [0..(MaxExtra - 1) -> Bytes \cup {NOTHING}] /\ nb_extra' \in nb_extra..MaxExtra
    <2>1. CASE k < Len(msg.str)
      <3>1. msg.str[k + 1] \in Bytes
          BY <1>1, <2>1 DEF StoreInv, TypeOK, WorkerType
      <3>2. QED
          BY <2>1, <3>1 DEF StoreInv, TypeOK, FilesType
    <2>2. CASE ~(k < Len(msg.str))
        BY <2>2 DEF StoreInv, TypeOK, FilesType
    <2>3. QED
        BY <2>1, <2>2
  <1>3. FilesInv'
      BY <1>2, VectorsGrow, FilesInvHolds DEF StoreInv, TypeOK, FilesType
  <1>4. WorkerType' /\ GhostType'
      BY DEF StoreInv, TypeOK, WorkerType, GhostType, PCs
  <1>5. HeaderType'
      BY DEF StoreInv, TypeOK, HeaderType
  <1>6. Control' /\ Slots'
      BY DEF StoreInv, Control, UpgradePCs, AppendPCs, ExtraPCs, Mapped, Slots
  <1>7. Progress'
    <2>0. /\ k <= Len(msg.str) /\ base + k = nb_extra /\ k \in Nat /\ base \in Nat
          /\ RecordOf(msg.token).extra_len = 0 /\ RecordOf(msg.token).extra_idx = base
          /\ RecordOf(msg.token)' = RecordOf(msg.token)
        BY DEF StoreInv, TypeOK, Progress, ExtraPCs, WorkerType, RecordOf
    <2>1. pc' = "extra_bytes" => k' <= Len(msg.str) /\ base + k' = nb_extra'
      <3>1. CASE k < Len(msg.str)
          BY <1>1, <2>0, <3>1
      <3>2. CASE ~(k < Len(msg.str))
          BY <3>2
      <3>3. QED
          BY <3>1, <3>2
    <2>2. pc' = "extra_len" => base + Len(msg.str) = nb_extra'
      <3>1. CASE k < Len(msg.str)
          BY <3>1
      <3>2. CASE ~(k < Len(msg.str))
          BY <1>1, <2>0, <3>2
      <3>3. QED
          BY <3>1, <3>2
    <2>3. QED
        BY <2>0, <2>1, <2>2 DEF Progress, ExtraPCs
  <1>8. QED
      BY <1>3, <1>4, <1>5, <1>6, <1>7 DEF StoreInv, TypeOK, FilesInv

LEMMA StoreExtraLenStep ==
    ASSUME StoreInv, StoreExtraLen PROVE StoreInv'
  <1>1. /\ msg.token \in Tokens /\ msg.op = "E" /\ msg.str \in Extras /\ Mapped(msg.token)
        /\ Len(msg.str) \in Nat /\ pc = "extra_len"
    <2>1. pc = "extra_len" /\ msg.op = "E" /\ Mapped(msg.token)
        BY DEF StoreInv, Control, ExtraPCs, StoreExtraLen
    <2>2. QED
        BY <2>1, ExtraMessage
  <1>2. /\ RecordOf(msg.token) \in GateInformation
        /\ InRange(RecordOf(msg.token), nb_wires, nb_extra)
        /\ mapping[msg.token] \in 0..(nb_gates - 1) /\ FilesInv
      BY <1>1, KnownToken, FilesInvHolds
  <1>3. base + Len(msg.str) = nb_extra /\ RecordOf(msg.token).extra_idx = base
      BY <1>1 DEF StoreInv, Progress
  <1> DEFINE r == [RecordOf(msg.token) EXCEPT !.extra_len = Len(msg.str)]
  <1>4. FilesInv'
    <2>1. gates' = [gates EXCEPT ![mapping[msg.token]] = r]
        BY DEF StoreExtraLen, RecordOf
    <2>2. r \in GateInformation
        BY <1>1, <1>2 DEF GateInformation
    <2>3. InRange(r, nb_wires, nb_extra)
        BY <1>1, <1>2, <1>3 DEF GateInformation, InRange, StoreInv, TypeOK, FilesType
    <2> HIDE DEF r
    <2>4. QED
        BY <1>2, <2>1, <2>2, <2>3, RecordStored DEF StoreExtraLen
  <1>5. GhostType'
      BY <1>1, ExtraPromised DEF StoreExtraLen
  <1>6. HeaderType' /\ kills' \in 0..MaxKills /\ Return
      BY DEF StoreExtraLen, StoreInv, TypeOK, WorkerType, HeaderType, header
  <1>7. QED
      BY <1>4, <1>5, <1>6, Returning

LEMMA TerminateStep ==
    ASSUME StoreInv, Terminate PROVE StoreInv'
  <1>1. FilesInv'
      BY NoStore, FilesInvHolds DEF Terminate
  <1>2. HeaderType'
      BY DEF Terminate, StoreInv, TypeOK, HeaderType
  <1>3. WorkerType' /\ GhostType'
      BY DEF Terminate, StoreInv, TypeOK, WorkerType, GhostType, locals, ghosts
  <1>4. Control' /\ Progress' /\ Slots'
      BY <1>1 DEF Terminate, Control, Progress, Slots, UpgradePCs, AppendPCs, ExtraPCs, FilesInv
  <1>5. QED
      BY <1>1, <1>2, <1>3, <1>4 DEF StoreInv, TypeOK, FilesInv

\* A counted slot nothing was stored in is blank, and blank is in range.
LEMMA TornAddFiles ==
    ASSUME StoreInv, TornAdd PROVE FilesInv'
  <1>1. CASE UNCHANGED files
      BY <1>1, NoStore, FilesInvHolds
  <1>2. CASE /\ nb_gates < MaxGates /\ nb_gates' = nb_gates + 1
             /\ UNCHANGED <<mapping, gates, wires, nb_wires, extra, nb_extra>>
    <2>1. FilesType' /\ nb_gates \in Nat
        BY <1>2 DEF StoreInv, TypeOK, FilesType
    <2>2. \A t \in Tokens : Mapped(t)' => mapping'[t] < nb_gates'
        BY <1>2, <2>1 DEF StoreInv, TypeOK, FilesType, AllInRange, Mapped
    <2>3. InRange(BlankRecord, nb_wires, nb_extra)
        BY DEF InRange, BlankRecord, NewRecord, StoreInv, TypeOK, FilesType
    <2>4. \A i \in 0..(nb_gates' - 1) : InRange(gates'[i], nb_wires', nb_extra')
        BY <1>2, <2>1, <2>3 DEF StoreInv, AllInRange, Slots
    <2>5. QED
        BY <1>2, <2>1, <2>2, <2>4
        DEF FilesInv, AllInRange, OneRecordPerToken, Mapped, Slots, StoreInv
  <1>3. CASE /\ \/ nb_wires < MaxWires /\ nb_wires' = nb_wires + 1 /\ nb_extra' = nb_extra
                \/ nb_extra < MaxExtra /\ nb_extra' = nb_extra + 1 /\ nb_wires' = nb_wires
             /\ UNCHANGED <<mapping, gates, nb_gates, wires, extra>>
    <2>1. FilesInv /\ FilesType
        BY FilesInvHolds DEF StoreInv, TypeOK
    <2>2. /\ nb_wires' \in nb_wires..MaxWires /\ nb_extra' \in nb_extra..MaxExtra
          /\ wires' \in [0..(MaxWires - 1) -> Tokens \cup {NOTHING}]
          /\ extra' \in [0..(MaxExtra - 1) -> Bytes \cup {NOTHING}]
        BY <1>3, <2>1 DEF FilesType
    <2>3. QED
        BY <1>3, <2>1, <2>2, VectorsGrow
  <1>4. QED
      BY <1>1, <1>2, <1>3 DEF TornAdd

LEMMA KillStep ==
    ASSUME StoreInv, Kill PROVE StoreInv'
  <1>1. FilesInv'
      BY TornAddFiles DEF Kill
  <1>2. HeaderType' /\ GhostType'
      BY DEF Kill, StoreInv, TypeOK, HeaderType, GhostType, ghosts
  <1>3. kills' \in 0..MaxKills
      BY DEF Kill, StoreInv, TypeOK, WorkerType
  <1>4. QED
      BY <1>1, <1>2, <1>3, Returning DEF Kill

LEMMA StutterStep ==
    ASSUME StoreInv, UNCHANGED vars PROVE StoreInv'
  <1> USE DEF vars, files, header, locals, ghosts
  <1>1. FilesInv'
      BY NoStore, FilesInvHolds
  <1>2. HeaderType' /\ WorkerType' /\ GhostType'
      BY DEF StoreInv, TypeOK, HeaderType, WorkerType, GhostType
  <1>3. Control' /\ Progress' /\ Slots'
      BY DEF StoreInv, Control, Progress, Slots, Mapped, RecordOf
  <1>4. QED
      BY <1>1, <1>2, <1>3 DEF StoreInv, TypeOK, FilesInv

-----------------------------------------------------------------------------
\* Every step preserves StoreInv.
LEMMA StoreStep ==
    ASSUME StoreInv, [Next]_vars PROVE StoreInv'
  <1>1. CASE \E m \in Offered : Receive(m)
      BY <1>1, ReceiveStep
  <1>2. CASE Work
    <2>1. CASE CreateGate \/ UpgradeWires \/ UpgradeRecord \/ Kids
        BY <2>1, CreateGateStep, UpgradeWiresStep, UpgradeRecordStep, KidsStep
    <2>2. CASE AppendGate
        BY <2>2, AppendWiresStep, AppendRecordStep, AppendPublishStep DEF AppendGate
    <2>3. CASE SetProbLookup \/ SetProb
        BY <2>3, SetProbLookupStep, SetProbStep
    <2>4. CASE SetInfos \/ StoreInfos
        BY <2>4, SetInfosStep, StoreInfo1Step, StoreInfo2Step DEF StoreInfos
    <2>5. CASE SetExtra \/ StoreExtra
        BY <2>5, SetExtraStep, StoreExtraIdxStep, StoreExtraBytesStep, StoreExtraLenStep
        DEF StoreExtra
    <2>6. QED
        BY <1>2, <2>1, <2>2, <2>3, <2>4, <2>5 DEF Work
  <1>3. CASE Terminate
      BY <1>3, TerminateStep
  <1>4. CASE Kill
      BY <1>4, KillStep
  <1>5. CASE UNCHANGED vars
      BY <1>5, StutterStep
  <1>6. QED
      BY <1>1, <1>2, <1>3, <1>4, <1>5 DEF Next

\* StoreInv is inductive: it holds of an empty store and every store to memory,
\* every message and every death of the worker preserves it.
THEOREM StoreInvariant == Spec => []StoreInv
  <1>1. StoreInv /\ [Next]_vars => StoreInv'
      BY StoreStep
  <1>2. QED
      BY <1>1, InitStoreInv, PTL DEF Spec

\* Type correctness: in particular no handler stores outside a file.
THEOREM TypeCorrect == Spec => []TypeOK
  <1>1. StoreInv => TypeOK
      BY DEF StoreInv
  <1>2. QED
      BY <1>1, StoreInvariant, PTL

\* Killed at any instant, the worker leaves four files that agree: appendGate,
\* the in-place upgrade of createGate and setExtra store what is pointed at
\* before what points at it.
THEOREM FilesAlwaysAgree == Spec => []FilesAgree
  <1>1. StoreInv => FilesAgree
      BY FilesAgreeMeans DEF StoreInv, TypeOK
  <1>2. QED
      BY <1>1, StoreInvariant, PTL

\* No two tokens ever lead to the same record: the index appendGate publishes
\* is the one of the record it has just added, also after a kill that left an
\* unreferenced record behind.
THEOREM RecordsNeverShared == Spec => []OneRecordPerToken
  <1>1. StoreInv => OneRecordPerToken
      BY DEF StoreInv
  <1>2. QED
      BY <1>1, StoreInvariant, PTL

-----------------------------------------------------------------------------
(* What a step leaves alone of a token.                                     *)

\* The elements that are in the vectors stay where they are.
WiresStay == \A i \in 0..(nb_wires - 1) : wires'[i] = wires[i]
ExtraStays == \A i \in 0..(nb_extra - 1) : extra'[i] = extra[i]
Extends ==
    /\ mapping' = mapping /\ WiresStay /\ ExtraStays
    /\ \A i \in 0..(nb_gates - 1) : gates'[i] = gates[i]

LEMMA WiresKept ==
    ASSUME nb_wires \in Nat, WiresStay, NEW from \in Nat, NEW n \in Nat, from + n <= nb_wires,
           NEW children, WiresHold(from, children, n)
    PROVE  WiresHold(from, children, n)'
BY DEF WiresStay, WiresHold

LEMMA BytesKept ==
    ASSUME nb_extra \in Nat, ExtraStays, NEW from \in Nat, NEW n \in Nat, from + n <= nb_extra,
           NEW str, BytesHold(from, str, n)
    PROVE  BytesHold(from, str, n)'
BY DEF ExtraStays, BytesHold

\* What TypeOK says of the vectors, and what AllInRange says of a token's record.
LEMMA StoreTypes ==
    ASSUME StoreInv
    PROVE  /\ nb_wires \in Nat /\ nb_extra \in Nat /\ nb_gates \in Nat
           /\ base \in Nat /\ k \in Nat /\ kid \in Nat
           /\ promised \in [Tokens -> Promises]
           /\ \A t \in Tokens : Mapped(t) =>
                 /\ mapping[t] \in 0..(nb_gates - 1) /\ mapping[t] \in 0..(MaxGates - 1)
                 /\ RecordOf(t) = gates[mapping[t]] /\ RecordOf(t) \in GateInformation
                 /\ InRange(RecordOf(t), nb_wires, nb_extra)
  <1>1. /\ nb_wires \in Nat /\ nb_extra \in Nat /\ nb_gates \in Nat
        /\ base \in Nat /\ k \in Nat /\ kid \in Nat
        /\ promised \in [Tokens -> Promises]
      BY DEF StoreInv, TypeOK, FilesType, WorkerType, GhostType
  <1>2. \A t \in Tokens : Mapped(t) =>
                 /\ mapping[t] \in 0..(nb_gates - 1) /\ mapping[t] \in 0..(MaxGates - 1)
                 /\ RecordOf(t) = gates[mapping[t]] /\ RecordOf(t) \in GateInformation
                 /\ InRange(RecordOf(t), nb_wires, nb_extra)
      BY FilesInvHolds, KnownToken DEF RecordOf
  <1>3. QED
      BY <1>1, <1>2

\* A token whose record, children and string stay where they are reads the same.
LEMMA Undisturbed ==
    ASSUME StoreInv, NEW t \in Tokens, Mapped(t), WiresStay, ExtraStays,
           mapping'[t] = mapping[t], gates'[mapping[t]] = gates[mapping[t]]
    PROVE  /\ Mapped(t)' /\ RecordOf(t)' = RecordOf(t) /\ Reading(t)' = Reading(t)
           /\ RecordFits(t, RecordOf(t)) => RecordFits(t, RecordOf(t))'
           /\ \A p \in Promises : Keeps(p, RecordOf(t)) => Keeps(p, RecordOf(t))'
  <1> DEFINE r == RecordOf(t)
  <1>1. /\ nb_wires \in Nat /\ nb_extra \in Nat /\ r \in GateInformation
        /\ InRange(r, nb_wires, nb_extra)
      BY StoreTypes
  <1>2. /\ r.children_idx \in Nat /\ r.nb_children \in Nat /\ r.extra_idx \in Nat
        /\ r.extra_len \in Nat
        /\ r.children_idx + r.nb_children <= nb_wires /\ r.extra_idx + r.extra_len <= nb_extra
      BY <1>1, RecordFields DEF InRange
  <1>3. Mapped(t)' /\ RecordOf(t)' = r
      BY DEF Mapped, RecordOf
  <1>4. Reading(t)' = Reading(t)
    <2>1. getChildren(t)' = getChildren(t)
      <3>1. \A i \in 1..r.nb_children : wires'[r.children_idx + i - 1] = wires[r.children_idx + i - 1]
          BY <1>1, <1>2 DEF WiresStay
      <3> HIDE DEF r
      <3>2. QED
          BY <1>3, <3>1 DEF getChildren, r
    <2>2. getExtra(t)' = getExtra(t)
      <3>1. \A i \in 1..r.extra_len : extra'[r.extra_idx + i - 1] = extra[r.extra_idx + i - 1]
          BY <1>1, <1>2 DEF ExtraStays
      <3> HIDE DEF r
      <3>2. QED
          BY <1>3, <3>1 DEF getExtra, ExtraAt, r
    <2>3. getGateType(t)' = getGateType(t) /\ hasProb(t)' = hasProb(t) /\ getInfos(t)' = getInfos(t)
        BY <1>3 DEF getGateType, hasProb, getInfos
    <2>4. QED
        BY <2>1, <2>2, <2>3 DEF Reading
  <1>5. RecordFits(t, RecordOf(t)) => RecordFits(t, RecordOf(t))'
      BY <1>1, <1>2, <1>3, WiresKept DEF RecordFits
  <1>6. ASSUME NEW p \in Promises, Keeps(p, RecordOf(t))
        PROVE  Keeps(p, RecordOf(t))'
      BY <1>1, <1>2, <1>3, <1>6, BytesKept DEF Keeps
  <1>7. QED
      BY <1>3, <1>4, <1>5, <1>6

\* A token that stays unknown reads the same.
LEMMA StaysUnknown ==
    ASSUME NEW t, ~Mapped(t), ~Mapped(t)'
    PROVE  Reading(t)' = Reading(t)
BY DEF Reading, getGateType, getChildren, hasProb, getInfos, getExtra

\* A step that only adds to the files changes nothing of any token.
LEMMA ExtendsKeeps ==
    ASSUME StoreInv, Extends
    PROVE  \A t \in Tokens :
               /\ Reading(t)' = Reading(t)
               /\ Mapped(t)' <=> Mapped(t)
               /\ Mapped(t) => RecordOf(t)' = RecordOf(t)
               /\ Complete(t) => Complete(t)'
               /\ promised'[t] = promised[t] /\ TokenInv(t) => TokenInv(t)'
  <1> SUFFICES ASSUME NEW t \in Tokens
               PROVE  /\ Reading(t)' = Reading(t)
                      /\ Mapped(t)' <=> Mapped(t)
                      /\ Mapped(t) => RecordOf(t)' = RecordOf(t)
                      /\ Complete(t) => Complete(t)'
                      /\ promised'[t] = promised[t] /\ TokenInv(t) => TokenInv(t)'
      OBVIOUS
  <1>1. Mapped(t)' <=> Mapped(t)
      BY DEF Extends, Mapped
  <1>2. CASE ~Mapped(t)
      BY <1>1, <1>2, StaysUnknown DEF TokenInv, Complete
  <1>3. CASE Mapped(t)
    <2>1. mapping'[t] = mapping[t] /\ gates'[mapping[t]] = gates[mapping[t]]
        BY <1>3, StoreTypes DEF Extends
    <2>2. promised[t] \in Promises
        BY StoreTypes
    <2>3. /\ Mapped(t)' /\ RecordOf(t)' = RecordOf(t) /\ Reading(t)' = Reading(t)
          /\ RecordFits(t, RecordOf(t)) => RecordFits(t, RecordOf(t))'
          /\ \A p \in Promises : Keeps(p, RecordOf(t)) => Keeps(p, RecordOf(t))'
        BY <1>3, <2>1, Undisturbed DEF Extends
    <2>4. promised'[t] = promised[t] /\ TokenInv(t) => TokenInv(t)'
      <3>1. PICK p \in Promises : p = promised[t]
          BY <2>2
      <3>2. QED
          BY <1>3, <2>3, <3>1 DEF TokenInv, Keeps
    <2>5. QED
        BY <1>3, <2>3, <2>4 DEF Complete
  <1>4. QED
      BY <1>2, <1>3

-----------------------------------------------------------------------------
(* Steps that only add to the files.                                        *)

\* Only the token the message names may read differently.
Steady == \A t \in Tokens : t # msg.token => Reading(t)' = Reading(t)

\* A 'C' message says what its token is derived from.
LEMMA CreateSays ==
    ASSUME CircuitInv, pc # "idle", msg.op = "C"
    PROVE  /\ msg.token \in Tokens
           /\ msg.type = Content[msg.token].type /\ msg.children = Content[msg.token].children
           /\ msg.children \in Seq(Tokens) /\ Len(msg.children) \in Nat
  <1>1. msg \in Offered /\ msg \in Messages
      BY DEF CircuitInv, ContentInv, HandlerInv, StoreInv, Control
  <1>2. QED
      BY <1>1, MessageFields, OfferedAssumption

LEMMA TokensKept ==
    ASSUME CircuitInv, Extends, promised' = promised
    PROVE  Steady /\ \A t \in Tokens : TokenInv(t)'
  <1>1. \A t \in Tokens : Reading(t)' = Reading(t) /\ (TokenInv(t) => TokenInv(t)')
      BY ExtendsKeeps DEF CircuitInv
  <1>2. \A t \in Tokens : TokenInv(t)
      BY DEF CircuitInv, ContentInv
  <1>3. QED
      BY <1>1, <1>2 DEF Steady

LEMMA CreatedKept ==
    ASSUME CircuitInv, StoreInv', Extends, pc' # "upgrade_type",
           kills' = 0 =>
               /\ kills = 0 /\ pc # "upgrade_type"
               /\ \A t \in created' : t \in created \/ Complete(t)
               /\ pc' \in UpgradePCs => msg'.token \notin created'
               /\ pc' = "kids" => msg'.token \in Tokens /\ Complete(msg'.token)
               /\ pc' \in AppendPCs /\ frame'.return = "kids" /\ frame'.token # msg'.token =>
                     msg'.token \in Tokens /\ Complete(msg'.token)
    PROVE  CreatedInv'
  <1> SUFFICES ASSUME kills' = 0
               PROVE  /\ \A t \in Tokens : Mapped(t)' =>
                            Placeholder(RecordOf(t))' \/ Complete(t)'
                      /\ \A t \in created' : Complete(t)'
                      /\ pc' \in UpgradePCs => msg'.token \notin created'
                      /\ pc' = "kids" => Complete(msg.token)'
                      /\ pc' \in AppendPCs /\ frame'.return = "kids" /\ frame'.token # msg'.token =>
                            Complete(msg.token)'
      BY DEF CreatedInv
  <1>1. /\ \A t \in Tokens : Mapped(t) => Placeholder(RecordOf(t)) \/ Complete(t)
        /\ \A t \in created : Complete(t)
      BY DEF CircuitInv, ContentInv, CreatedInv
  <1>2. \A t \in Tokens :
            /\ Mapped(t)' <=> Mapped(t)
            /\ Mapped(t) => RecordOf(t)' = RecordOf(t)
            /\ Complete(t) => Complete(t)'
      BY ExtendsKeeps DEF CircuitInv
  <1>3. created' \subseteq Tokens
      BY DEF StoreInv, TypeOK, GhostType
  <1>4. \A t \in Tokens : Mapped(t)' => Placeholder(RecordOf(t))' \/ Complete(t)'
      BY <1>1, <1>2 DEF Placeholder
  <1>5. \A t \in created' : Complete(t)'
      BY <1>1, <1>2, <1>3
  <1>6. msg'.token \in Tokens /\ Complete(msg'.token) => Complete(msg.token)'
    <2>1. \A t \in Tokens : Complete(t) /\ t = msg'.token => Complete(msg.token)'
        BY <1>2 DEF Complete, Mapped, RecordOf
    <2>2. QED
        BY <2>1
  <1>7. QED
      BY <1>4, <1>5, <1>6

\* A handler that returns, or has not begun, has nothing in progress.
LEMMA NothingInProgress ==
    ASSUME pc' \in {"idle", "dispatch", "prob"}, pc' # "idle" => msg' \in Offered,
           CreatedInv', \A t \in Tokens : TokenInv(t)'
    PROVE  ContentInv'
  <1>1. AppendInv' /\ HandlerInv'
      BY DEF AppendInv, HandlerInv, AppendPCs
  <1>2. QED
      BY <1>1 DEF ContentInv

LEMMA ReceiveContent ==
    ASSUME CircuitInv, StoreInv', NEW m \in Offered, Receive(m) PROVE ContentInv' /\ Steady
  <1>1. Extends
      BY DEF Receive, files, Extends, WiresStay, ExtraStays
  <1>2. Steady /\ \A t \in Tokens : TokenInv(t)'
      BY <1>1, TokensKept DEF Receive, ghosts
  <1>3. pc = "idle" /\ pc' = "dispatch" /\ kills' = kills /\ created' = created /\ msg' = m
      BY DEF Receive, ghosts
  <1>4. CreatedInv'
      BY <1>1, <1>3, CreatedKept DEF UpgradePCs, AppendPCs
  <1>5. QED
      BY <1>2, <1>3, <1>4, NothingInProgress

LEMMA AppendWiresContent ==
    ASSUME CircuitInv, StoreInv', AppendWires PROVE ContentInv' /\ Steady
  <1>1. /\ frame \in Frames /\ frame.children \in Seq(Tokens) /\ Len(frame.children) \in Nat
        /\ k <= Len(frame.children) /\ base + k = nb_wires /\ pc = "append_wires"
      BY DEF CircuitInv, StoreInv, Control, Progress, AppendPCs, Frames, AppendWires
  <1>2. /\ wires \in [0..(MaxWires - 1) -> Tokens \cup {NOTHING}] /\ nb_wires \in Nat
        /\ k \in Nat /\ base \in Nat
      BY DEF CircuitInv, StoreInv, TypeOK, FilesType, WorkerType
  <1>3. Extends
    <2>1. wires' = wires \/ wires' = [wires EXCEPT ![nb_wires] = frame.children[k + 1]]
        BY DEF AppendWires
    <2>2. WiresStay
        BY <1>2, <2>1 DEF WiresStay
    <2>3. QED
        BY <2>2 DEF Extends, ExtraStays, AppendWires
  <1>4. Steady /\ \A t \in Tokens : TokenInv(t)'
      BY <1>3, TokensKept DEF AppendWires, ghosts
  <1>5. /\ pc' \in {"append_wires", "append_record"} /\ UNCHANGED <<msg, frame, base, kills, created>>
        /\ \A t \in Tokens : Mapped(t)' <=> Mapped(t)
      BY <1>1 DEF AppendWires, ghosts, Mapped
  <1>6. WiresHold(base, frame.children, IF pc = "append_wires" THEN k ELSE Len(frame.children))'
    <2>1. WiresHold(base, frame.children, k)
        BY <1>1 DEF CircuitInv, ContentInv, AppendInv, AppendPCs
    <2>2. CASE k < Len(frame.children)
      <3>1. /\ nb_wires < MaxWires /\ wires' = [wires EXCEPT ![nb_wires] = frame.children[k + 1]]
            /\ k' = k + 1 /\ pc' = "append_wires"
          BY <1>1, <2>2 DEF AppendWires
      <3>2. \A i \in 1..(k + 1) : wires'[base + i - 1] = frame.children[i]
          BY <1>1, <1>2, <2>1, <3>1 DEF WiresHold
      <3>3. QED
          BY <1>5, <3>1, <3>2 DEF WiresHold
    <2>3. CASE ~(k < Len(frame.children))
      <3>1. k = Len(frame.children) /\ wires' = wires /\ pc' = "append_record"
          BY <1>1, <1>2, <2>3 DEF AppendWires
      <3>2. QED
          BY <1>5, <2>1, <3>1 DEF WiresHold
    <2>4. QED
        BY <2>2, <2>3
  <1>7. AppendInv'
    <2>1. frame.token \in Tokens
        BY <1>1 DEF Frames
    <2>2. msg.token \in Tokens
        BY <1>1, MessageFields DEF CircuitInv, StoreInv, Control
    <2>3. QED
        BY <1>1, <1>5, <1>6, <2>1, <2>2 DEF CircuitInv, ContentInv, AppendInv, AppendPCs, Mapped
  <1>8. HandlerInv'
      BY <1>1, <1>5 DEF CircuitInv, ContentInv, HandlerInv
  <1>9. CreatedInv'
    <2>1. msg.token \in Tokens
        BY <1>1, MessageFields DEF CircuitInv, StoreInv, Control
    <2>2. kills = 0 => /\ frame.return = "kids" /\ frame.token # msg.token => Complete(msg.token)
        BY <1>1 DEF CircuitInv, ContentInv, CreatedInv, AppendPCs
    <2>3. QED
        BY <1>1, <1>3, <1>5, <2>1, <2>2, CreatedKept DEF UpgradePCs
  <1>10. QED
      BY <1>4, <1>7, <1>8, <1>9 DEF ContentInv

LEMMA AppendRecordContent ==
    ASSUME CircuitInv, StoreInv', AppendRecord PROVE ContentInv' /\ Steady
  <1>1. /\ frame \in Frames /\ frame.token \in Tokens /\ pc = "append_record"
        /\ msg.token \in Tokens
      BY MessageFields DEF CircuitInv, StoreInv, Control, AppendPCs, Frames, AppendRecord
  <1>2. gates \in [0..(MaxGates - 1) -> GateInformation] /\ nb_gates \in Nat /\ nb_gates < MaxGates
      BY DEF CircuitInv, StoreInv, TypeOK, FilesType, AppendRecord
  <1> DEFINE r == NewRecord(frame.type, Len(frame.children), base)
  <1>3. /\ gates' = [gates EXCEPT ![nb_gates] = r] /\ nb_gates' = nb_gates + 1
        /\ pc' = "append_publish"
        /\ UNCHANGED <<mapping, wires, nb_wires, extra, nb_extra, msg, frame, base, k, kills,
                       created, promised>>
      BY DEF AppendRecord, locals, ghosts
  <1> HIDE DEF r
  <1>4. Extends /\ gates'[nb_gates' - 1] = r
      BY <1>2, <1>3 DEF Extends, WiresStay, ExtraStays
  <1>5. Steady /\ \A t \in Tokens : TokenInv(t)'
      BY <1>3, <1>4, TokensKept
  <1>6. /\ ~Mapped(frame.token)'
        /\ Mapped(msg.token)' <=> Mapped(msg.token)
        /\ WiresHold(base, frame.children, Len(frame.children)) <=>
              WiresHold(base, frame.children, Len(frame.children))'
      BY <1>1, <1>3 DEF CircuitInv, ContentInv, AppendInv, AppendPCs, Mapped, WiresHold
  <1>7. AppendInv'
      BY <1>1, <1>3, <1>4, <1>6 DEF CircuitInv, ContentInv, AppendInv, AppendPCs, r
  <1>8. HandlerInv'
      BY <1>1, <1>3 DEF CircuitInv, ContentInv, HandlerInv
  <1>9. CreatedInv'
    <2>1. kills = 0 => /\ frame.return = "kids" /\ frame.token # msg.token => Complete(msg.token)
        BY <1>1 DEF CircuitInv, ContentInv, CreatedInv, AppendPCs
    <2>2. QED
        BY <1>1, <1>3, <1>4, <2>1, CreatedKept DEF UpgradePCs
  <1>10. QED
      BY <1>5, <1>7, <1>8, <1>9 DEF ContentInv

\* The worker starts an append for the token of the message or for a child.
LEMMA CallContent ==
    ASSUME CircuitInv, StoreInv', NEW token \in Tokens, NEW type, NEW children,
           NEW return \in {"kids", "prob"}, CallAppend(token, type, children, return),
           pc \in {"dispatch", "kids"}, UNCHANGED <<files, kills, msg, created, promised>>,
           ~Mapped(token),
           IF return = "kids" /\ token = msg.token
           THEN type = msg.type /\ children = msg.children
           ELSE type = "gate_input" /\ children = <<>>,
           return = "kids" /\ token # msg.token =>
               pc = "kids" /\ Mapped(msg.token) /\ (kills = 0 => Complete(msg.token))
    PROVE  ContentInv' /\ Steady
  <1>1. /\ frame' = [token |-> token, type |-> type, children |-> children, return |-> return]
        /\ base' = nb_wires /\ k' = 0 /\ pc' = "append_wires"
      BY DEF CallAppend
  <1>2. Extends /\ \A t \in Tokens : Mapped(t)' <=> Mapped(t)
      BY DEF files, Extends, WiresStay, ExtraStays, Mapped
  <1>3. Steady /\ \A t \in Tokens : TokenInv(t)'
      BY <1>2, TokensKept
  <1>4. msg \in Offered /\ msg.token \in Tokens
    <2>1. msg \in Messages
        BY DEF CircuitInv, StoreInv, Control
    <2>2. QED
        BY <2>1, MessageFields DEF CircuitInv, ContentInv, HandlerInv
  <1>5. WiresHold(base, frame.children, IF pc = "append_wires" THEN k ELSE Len(frame.children))'
      BY <1>1 DEF WiresHold
  <1>6. AppendInv'
      BY <1>1, <1>2, <1>4, <1>5 DEF AppendInv, AppendPCs, Mapped
  <1>7. HandlerInv'
      BY <1>1, <1>4 DEF HandlerInv
  <1>8. CreatedInv'
      BY <1>1, <1>2, <1>4, CreatedKept DEF UpgradePCs
  <1>9. QED
      BY <1>3, <1>6, <1>7, <1>8 DEF ContentInv

LEMMA CreateGateContent ==
    ASSUME CircuitInv, StoreInv', CreateGate PROVE ContentInv' /\ Steady
  <1>1. /\ pc = "dispatch" /\ msg.op = "C" /\ UNCHANGED <<files, kills, promised>>
        /\ msg.token \in Tokens
        /\ msg.type = Content[msg.token].type /\ msg.children = Content[msg.token].children
        /\ msg.children \in Seq(Tokens) /\ Len(msg.children) \in Nat
      BY CreateSays DEF CreateGate
  <1>2. Extends /\ \A t \in Tokens : Mapped(t)' <=> Mapped(t)
      BY <1>1 DEF files, Extends, WiresStay, ExtraStays, Mapped
  <1>3. Steady /\ \A t \in Tokens : TokenInv(t)'
      BY <1>1, <1>2, TokensKept
  <1>4. CASE /\ ~Mapped(msg.token)
             /\ CallAppend(msg.token, msg.type, msg.children, "kids")
             /\ UNCHANGED <<msg, kid, created>>
    <2>1. PICK u \in Tokens : u = msg.token
        BY <1>1
    <2>2. CallAppend(u, msg.type, msg.children, "kids") /\ ~Mapped(u)
        BY <1>4, <2>1
    <2>3. QED
        BY <1>1, <1>4, <2>1, <2>2, CallContent
  <1>5. CASE /\ Mapped(msg.token)
             /\ Placeholder(RecordOf(msg.token)) /\ RealCreate(msg)
             /\ base' = nb_wires /\ k' = 0
             /\ pc' = "upgrade_wires"
             /\ UNCHANGED <<msg, frame, kid, created>>
    <2>1. msg \in Offered /\ Placeholder(RecordOf(msg.token))'
        BY <1>1, <1>5 DEF CircuitInv, ContentInv, HandlerInv, files, RecordOf
    <2>2. WiresHold(base, msg.children, k)'
        BY <1>5 DEF WiresHold
    <2>3. AppendInv' /\ HandlerInv'
        BY <1>5, <2>1, <2>2 DEF AppendInv, HandlerInv, AppendPCs
    <2>4. ASSUME kills' = 0
          PROVE  msg.token \notin created
      <3>1. Complete(msg.token) => ~Placeholder(RecordOf(msg.token)) \/ ~RealCreate(msg)
          BY <1>1 DEF Complete, Placeholder, RealCreate
      <3>2. \A t \in created : Complete(t)
          BY <1>1, <2>4 DEF CircuitInv, ContentInv, CreatedInv
      <3>3. QED
          BY <1>5, <3>1, <3>2
    <2>5. CreatedInv'
        BY <1>1, <1>2, <1>5, <2>4, CreatedKept DEF AppendPCs
    <2>6. QED
        BY <1>3, <2>3, <2>5 DEF ContentInv
  <1>6. CASE /\ Mapped(msg.token)
             /\ ~(Placeholder(RecordOf(msg.token)) /\ RealCreate(msg))
             /\ Return
             /\ created' = created \cup {msg.token}
    <2>1. ASSUME kills = 0
          PROVE  Complete(msg.token)
      <3>1. Placeholder(RecordOf(msg.token)) \/ Complete(msg.token)
          BY <1>1, <1>6, <2>1 DEF CircuitInv, ContentInv, CreatedInv
      <3>2. CASE Placeholder(RecordOf(msg.token))
          BY <1>1, <1>6, <3>2 DEF Placeholder, RealCreate, Complete
      <3>3. QED
          BY <3>1, <3>2
    <2>2. pc' = "idle"
        BY <1>6 DEF Return
    <2>3. CreatedInv'
        BY <1>1, <1>2, <1>6, <2>1, <2>2, CreatedKept DEF UpgradePCs, AppendPCs
    <2>4. QED
        BY <1>3, <2>2, <2>3, NothingInProgress
  <1>7. QED
      BY <1>4, <1>5, <1>6 DEF CreateGate

LEMMA UpgradeWiresContent ==
    ASSUME CircuitInv, StoreInv', UpgradeWires PROVE ContentInv' /\ Steady
  <1>1. /\ pc = "upgrade_wires" /\ msg.op = "C" /\ msg.token \in Tokens /\ Mapped(msg.token)
        /\ msg.children \in Seq(Tokens) /\ Len(msg.children) \in Nat
        /\ k <= Len(msg.children) /\ base + k = nb_wires
    <2>1. pc = "upgrade_wires" /\ msg.op = "C" /\ Mapped(msg.token)
          /\ k <= Len(msg.children) /\ base + k = nb_wires
        BY DEF CircuitInv, StoreInv, Control, Progress, UpgradePCs, UpgradeWires
    <2>2. QED
        BY <2>1, CreateSays
  <1>2. /\ wires \in [0..(MaxWires - 1) -> Tokens \cup {NOTHING}] /\ nb_wires \in Nat
        /\ k \in Nat /\ base \in Nat
      BY DEF CircuitInv, StoreInv, TypeOK, FilesType, WorkerType
  <1>3. Extends
    <2>1. wires' = wires \/ wires' = [wires EXCEPT ![nb_wires] = msg.children[k + 1]]
        BY DEF UpgradeWires
    <2>2. WiresStay
        BY <1>2, <2>1 DEF WiresStay
    <2>3. QED
        BY <2>2 DEF Extends, ExtraStays, UpgradeWires
  <1>4. Steady /\ \A t \in Tokens : TokenInv(t)'
      BY <1>3, TokensKept DEF UpgradeWires, ghosts
  <1>5. /\ pc' \in {"upgrade_wires", "upgrade_idx"}
        /\ UNCHANGED <<msg, base, kills, created, mapping, gates>>
      BY <1>1 DEF UpgradeWires, ghosts
  <1>6. WiresHold(base, msg.children, IF pc = "upgrade_wires" THEN k ELSE Len(msg.children))'
    <2>1. WiresHold(base, msg.children, k)
        BY <1>1 DEF CircuitInv, ContentInv, HandlerInv
    <2>2. CASE k < Len(msg.children)
      <3>1. /\ nb_wires < MaxWires /\ wires' = [wires EXCEPT ![nb_wires] = msg.children[k + 1]]
            /\ k' = k + 1 /\ pc' = "upgrade_wires"
          BY <1>1, <2>2 DEF UpgradeWires
      <3>2. \A i \in 1..(k + 1) : wires'[base + i - 1] = msg.children[i]
          BY <1>1, <1>2, <2>1, <3>1 DEF WiresHold
      <3>3. QED
          BY <1>5, <3>1, <3>2 DEF WiresHold
    <2>3. CASE ~(k < Len(msg.children))
      <3>1. k = Len(msg.children) /\ wires' = wires /\ pc' = "upgrade_idx"
          BY <1>1, <1>2, <2>3 DEF UpgradeWires
      <3>2. QED
          BY <1>5, <2>1, <3>1 DEF WiresHold
    <2>4. QED
        BY <2>2, <2>3
  <1>7. HandlerInv'
      BY <1>1, <1>5, <1>6 DEF CircuitInv, ContentInv, HandlerInv, RecordOf
  <1>8. AppendInv'
      BY <1>5 DEF AppendInv, AppendPCs
  <1>9. CreatedInv'
    <2>1. kills = 0 => msg.token \notin created
        BY <1>1 DEF CircuitInv, ContentInv, CreatedInv, UpgradePCs
    <2>2. QED
        BY <1>1, <1>3, <1>5, <2>1, CreatedKept DEF AppendPCs
  <1>10. QED
      BY <1>4, <1>7, <1>8, <1>9 DEF ContentInv

LEMMA KidsContent ==
    ASSUME CircuitInv, StoreInv', Kids PROVE ContentInv' /\ Steady
  <1>1. /\ pc = "kids" /\ msg.op = "C" /\ msg \in Offered /\ msg.token \in Tokens
        /\ Mapped(msg.token) /\ UNCHANGED <<files, kills, promised>>
        /\ msg.children \in Seq(Tokens) /\ Len(msg.children) \in Nat /\ kid \in Nat
    <2>1. pc = "kids" /\ msg.op = "C" /\ msg \in Offered /\ Mapped(msg.token)
        BY DEF CircuitInv, StoreInv, Control, Kids, ContentInv, HandlerInv
    <2>2. QED
        BY <2>1, CreateSays, StoreTypes DEF CircuitInv, Kids
  <1>2. kills = 0 => Complete(msg.token)
      BY <1>1 DEF CircuitInv, ContentInv, CreatedInv
  <1>3. Extends /\ \A t \in Tokens : Mapped(t)' <=> Mapped(t)
      BY <1>1 DEF files, Extends, WiresStay, ExtraStays, Mapped
  <1>4. Steady /\ \A t \in Tokens : TokenInv(t)'
      BY <1>1, <1>3, TokensKept
  <1>5. CASE kid < Len(msg.children) /\ Mapped(msg.children[kid + 1])
    <2>1. pc' = "kids" /\ UNCHANGED <<frame, base, k, msg, created>>
        BY <1>1, <1>5 DEF Kids
    <2>2. AppendInv' /\ HandlerInv'
        BY <1>1, <1>3, <2>1 DEF AppendInv, HandlerInv, AppendPCs, Mapped
    <2>3. CreatedInv'
        BY <1>1, <1>2, <1>3, <2>1, CreatedKept DEF AppendPCs, UpgradePCs
    <2>4. QED
        BY <1>4, <2>2, <2>3 DEF ContentInv
  <1>6. CASE kid < Len(msg.children) /\ ~Mapped(msg.children[kid + 1])
    <2>1. PICK u \in Tokens : u = msg.children[kid + 1]
        BY <1>1, <1>6
    <2>2. CallAppend(u, "gate_input", <<>>, "kids") /\ UNCHANGED <<msg, created>> /\ ~Mapped(u) /\ u # msg.token
        BY <1>1, <1>6, <2>1 DEF Kids
    <2>3. QED
        BY <1>1, <1>2, <2>2, CallContent
  <1>7. CASE kid = Len(msg.children)
    <2>1. Return /\ pc' = "idle" /\ created' = created \cup {msg.token}
        BY <1>1, <1>7 DEF Kids, Return
    <2>2. CreatedInv'
        BY <1>1, <1>2, <1>3, <2>1, CreatedKept DEF AppendPCs, UpgradePCs
    <2>3. QED
        BY <1>4, <2>1, <2>2, NothingInProgress
  <1>8. QED
      BY <1>1, <1>5, <1>6, <1>7 DEF Kids

LEMMA SetProbLookupContent ==
    ASSUME CircuitInv, StoreInv', SetProbLookup PROVE ContentInv' /\ Steady
  <1>1. /\ pc = "dispatch" /\ msg.op = "P" /\ msg \in Offered /\ msg.token \in Tokens
        /\ UNCHANGED <<files, msg, kills, created, promised>>
    <2>1. msg \in Messages
        BY DEF CircuitInv, StoreInv, Control, SetProbLookup
    <2>2. QED
        BY <2>1, MessageFields DEF CircuitInv, ContentInv, HandlerInv, SetProbLookup, ghosts
  <1>2. CASE Mapped(msg.token)
    <2>1. Extends /\ pc' = "prob"
        BY <1>1, <1>2 DEF SetProbLookup, files, Extends, WiresStay, ExtraStays
    <2>2. Steady /\ \A t \in Tokens : TokenInv(t)'
        BY <1>1, <2>1, TokensKept
    <2>3. CreatedInv'
        BY <1>1, <2>1, CreatedKept DEF AppendPCs, UpgradePCs
    <2>4. QED
        BY <1>1, <2>1, <2>2, <2>3, NothingInProgress
  <1>3. CASE ~Mapped(msg.token)
    <2>1. PICK u \in Tokens : u = msg.token
        BY <1>1
    <2>2. CallAppend(u, "gate_input", <<>>, "prob") /\ ~Mapped(u)
        BY <1>3, <2>1 DEF SetProbLookup
    <2>3. QED
        BY <1>1, <2>2, CallContent
  <1>4. QED
      BY <1>2, <1>3

LEMMA SetInfosContent ==
    ASSUME CircuitInv, StoreInv', SetInfos PROVE ContentInv' /\ Steady
  <1>1. /\ pc = "dispatch" /\ msg \in Offered /\ UNCHANGED <<files, kills, created, promised>>
      BY DEF CircuitInv, ContentInv, HandlerInv, SetInfos, ghosts
  <1>2. Extends /\ pc' \in {"idle", "info1"}
      BY <1>1 DEF SetInfos, Return, files, Extends, WiresStay, ExtraStays
  <1>3. Steady /\ \A t \in Tokens : TokenInv(t)'
      BY <1>1, <1>2, TokensKept
  <1>4. CreatedInv'
      BY <1>1, <1>2, CreatedKept DEF AppendPCs, UpgradePCs
  <1>5. CASE pc' = "idle"
      BY <1>3, <1>4, <1>5, NothingInProgress
  <1>6. CASE pc' # "idle"
    <2>1. InfosToWrite(msg) /\ pc' = "info1" /\ msg' = msg
        BY <1>6 DEF SetInfos, Return
    <2>2. ~InfosConflict(RecordOf(msg.token), msg)'
        BY <1>1, <2>1 DEF InfosToWrite, InfosConflict, RecordOf, files
    <2>3. AppendInv' /\ HandlerInv'
        BY <1>1, <2>1, <2>2 DEF AppendInv, HandlerInv, AppendPCs
    <2>4. QED
        BY <1>3, <1>4, <2>3 DEF ContentInv
  <1>7. QED
      BY <1>5, <1>6

LEMMA SetExtraContent ==
    ASSUME CircuitInv, StoreInv', SetExtra PROVE ContentInv' /\ Steady
  <1>1. /\ pc = "dispatch" /\ msg.op = "E" /\ msg \in Offered /\ msg.token \in Tokens
        /\ UNCHANGED <<files, kills, created>>
        /\ msg.str \in Extras /\ msg.str # <<>>
    <2>1. pc = "dispatch" /\ msg.op = "E" /\ msg \in Offered
        BY DEF CircuitInv, ContentInv, HandlerInv, SetExtra
    <2>2. QED
        BY <2>1, ExtraMessage, ValueAssumption DEF CircuitInv, SetExtra
  <1>2. Extends /\ pc' \in {"idle", "extra_idx"}
      BY <1>1 DEF SetExtra, Return, files, Extends, WiresStay, ExtraStays
  <1>3. CreatedInv'
      BY <1>1, <1>2, CreatedKept DEF AppendPCs, UpgradePCs
  <1>4. CASE promised' = promised
    <2>1. Steady /\ \A t \in Tokens : TokenInv(t)'
        BY <1>2, <1>4, TokensKept
    <2>2. CASE pc' = "idle"
        BY <1>3, <2>1, <2>2, NothingInProgress
    <2>3. CASE pc' # "idle"
      <3>1. pc' = "extra_idx" /\ msg' = msg
          BY <1>2, <2>3 DEF SetExtra, Return
      <3>2. AppendInv' /\ HandlerInv'
          BY <1>1, <3>1 DEF AppendInv, HandlerInv, AppendPCs
      <3>3. QED
          BY <1>3, <2>1, <3>2 DEF ContentInv
    <2>4. QED
        BY <2>2, <2>3
  <1>5. CASE promised' # promised
    <2>1. /\ getExtra(msg.token) = msg.str /\ Return
          /\ promised' = [promised EXCEPT ![msg.token].extra = msg.str]
        BY <1>5 DEF SetExtra
    <2>2. PICK u \in Tokens : u = msg.token
        BY <1>1
    <2>3. \A t \in Tokens : Reading(t)' = Reading(t) /\ (promised'[t] = promised[t] /\ TokenInv(t) => TokenInv(t)')
        BY <1>2, ExtendsKeeps DEF CircuitInv
    <2>4. Mapped(u)
        BY <1>1, <2>1, <2>2 DEF getExtra
    <2>5. /\ RecordOf(u)' = RecordOf(u) /\ Mapped(u)' /\ extra' = extra /\ wires' = wires
          /\ RecordOf(u) \in GateInformation
          /\ RecordFits(u, RecordOf(u)) /\ Keeps(promised[u], RecordOf(u))
      <3>1. RecordOf(u) \in GateInformation
          BY <2>4, StoreTypes DEF CircuitInv
      <3>2. TokenInv(u)
          BY DEF CircuitInv, ContentInv
      <3>3. QED
          BY <1>1, <2>4, <3>1, <3>2 DEF TokenInv, files, RecordOf, Mapped
    <2>6. /\ RecordOf(u).extra_len = Len(msg.str)
          /\ BytesHold(RecordOf(u).extra_idx, msg.str, RecordOf(u).extra_len)
      <3>1. ExtraAt(RecordOf(u)) = msg.str /\ RecordOf(u).extra_len \in Nat /\ msg.str \in Seq(Bytes)
          BY <1>1, <2>1, <2>2, <2>4, <2>5, RecordFields, ValueAssumption DEF getExtra
      <3>2. RecordOf(u).extra_len = Len(msg.str)
          BY <3>1 DEF ExtraAt
      <3>3. \A i \in 1..RecordOf(u).extra_len : extra[RecordOf(u).extra_idx + i - 1] = msg.str[i]
          BY <3>1 DEF ExtraAt
      <3>4. QED
          BY <3>2, <3>3 DEF BytesHold
    <2>7. /\ \A t \in Tokens : t # u => promised'[t] = promised[t]
          /\ promised'[u] = [promised[u] EXCEPT !.extra = msg.str]
        BY <2>1, <2>2, StoreTypes DEF CircuitInv
    <2>8. /\ promised'[u].prob = promised[u].prob /\ promised'[u].info1 = promised[u].info1
          /\ promised'[u].info2 = promised[u].info2 /\ promised'[u].extra = msg.str
        BY <2>7, StoreTypes DEF CircuitInv, Promises
    <2>9. Keeps(promised[u], RecordOf(u))'
        BY <2>5, <2>6, <2>8 DEF Keeps, BytesHold
    <2>10. RecordFits(u, RecordOf(u))'
        BY <2>5 DEF RecordFits, WiresHold
    <2>11. \A t \in Tokens : TokenInv(t)'
        BY <2>3, <2>5, <2>7, <2>9, <2>10 DEF TokenInv, CircuitInv, ContentInv
    <2>12. QED
        BY <1>3, <2>1, <2>3, <2>11, NothingInProgress DEF Return, Steady
  <1>6. QED
      BY <1>4, <1>5

LEMMA StoreExtraBytesContent ==
    ASSUME CircuitInv, StoreInv', StoreExtraBytes PROVE ContentInv' /\ Steady
  <1>1. /\ pc = "extra_bytes" /\ msg.op = "E" /\ msg.token \in Tokens
        /\ msg.str \in Seq(Bytes) /\ Len(msg.str) \in Nat
        /\ k <= Len(msg.str) /\ base + k = nb_extra
    <2>1. pc = "extra_bytes" /\ msg.op = "E" /\ k <= Len(msg.str) /\ base + k = nb_extra
        BY DEF CircuitInv, StoreInv, Control, Progress, ExtraPCs, StoreExtraBytes
    <2>2. QED
        BY <2>1, ExtraMessage DEF CircuitInv
  <1>2. /\ extra \in [0..(MaxExtra - 1) -> Bytes \cup {NOTHING}] /\ nb_extra \in Nat
        /\ k \in Nat /\ base \in Nat
      BY DEF CircuitInv, StoreInv, TypeOK, FilesType, WorkerType
  <1>3. Extends
    <2>1. extra' = extra \/ extra' = [extra EXCEPT ![nb_extra] = msg.str[k + 1]]
        BY DEF StoreExtraBytes
    <2>2. ExtraStays
        BY <1>2, <2>1 DEF ExtraStays
    <2>3. QED
        BY <2>2 DEF Extends, WiresStay, StoreExtraBytes
  <1>4. Steady /\ \A t \in Tokens : TokenInv(t)'
      BY <1>3, TokensKept DEF StoreExtraBytes, ghosts
  <1>5. /\ pc' \in {"extra_bytes", "extra_len"} /\ UNCHANGED <<msg, base, kills, created>>
      BY <1>1 DEF StoreExtraBytes, ghosts
  <1>6. BytesHold(base, msg.str, IF pc = "extra_bytes" THEN k ELSE Len(msg.str))'
    <2>1. BytesHold(base, msg.str, k)
        BY <1>1 DEF CircuitInv, ContentInv, HandlerInv
    <2>2. CASE k < Len(msg.str)
      <3>1. /\ nb_extra < MaxExtra /\ extra' = [extra EXCEPT ![nb_extra] = msg.str[k + 1]]
            /\ k' = k + 1 /\ pc' = "extra_bytes"
          BY <1>1, <2>2 DEF StoreExtraBytes
      <3>2. /\ \A i \in 1..k : base + i - 1 \in 0..(nb_extra - 1)
            /\ nb_extra \in DOMAIN extra /\ nb_extra = base + (k + 1) - 1
          BY <1>1, <1>2, <3>1
      <3>3. \A i \in 1..k : extra'[base + i - 1] = msg.str[i]
          BY <1>2, <2>1, <3>1, <3>2 DEF BytesHold
      <3>4. extra'[base + (k + 1) - 1] = msg.str[k + 1]
          BY <3>1, <3>2
      <3>5. \A i \in 1..(k + 1) : extra'[base + i - 1] = msg.str[i]
          BY <1>2, <3>3, <3>4
      <3>6. QED
          BY <1>5, <3>1, <3>5 DEF BytesHold
    <2>3. CASE ~(k < Len(msg.str))
      <3>1. k = Len(msg.str) /\ extra' = extra /\ pc' = "extra_len"
          BY <1>1, <1>2, <2>3 DEF StoreExtraBytes
      <3>2. QED
          BY <1>5, <2>1, <3>1 DEF BytesHold
    <2>4. QED
        BY <2>2, <2>3
  <1>7. AppendInv' /\ HandlerInv'
      BY <1>1, <1>5, <1>6 DEF CircuitInv, ContentInv, AppendInv, HandlerInv, AppendPCs
  <1>8. CreatedInv'
      BY <1>1, <1>3, <1>5, CreatedKept DEF UpgradePCs, AppendPCs
  <1>9. QED
      BY <1>4, <1>7, <1>8 DEF ContentInv

LEMMA TerminateContent ==
    ASSUME CircuitInv, StoreInv', Terminate PROVE ContentInv' /\ Steady
  <1>1. pc = "idle" /\ UNCHANGED <<files, pc, msg, kills, created, promised>>
      BY DEF Terminate, ghosts
  <1>2. Extends
      BY <1>1 DEF files, Extends, WiresStay, ExtraStays
  <1>3. Steady /\ \A t \in Tokens : TokenInv(t)'
      BY <1>1, <1>2, TokensKept
  <1>4. CreatedInv'
      BY <1>1, <1>2, CreatedKept DEF UpgradePCs, AppendPCs
  <1>5. QED
      BY <1>1, <1>3, <1>4, NothingInProgress

LEMMA KillContent ==
    ASSUME CircuitInv, StoreInv', Kill PROVE ContentInv' /\ Steady
  <1>1. /\ pc' = "idle" /\ kills \in Nat /\ kills' = kills + 1 /\ UNCHANGED <<created, promised>>
        /\ UNCHANGED <<mapping, gates, wires, extra>>
      BY DEF CircuitInv, StoreInv, TypeOK, WorkerType, Kill, Return, TornAdd, files, ghosts
  <1>2. Extends
      BY <1>1 DEF Extends, WiresStay, ExtraStays
  <1>3. Steady /\ \A t \in Tokens : TokenInv(t)'
      BY <1>1, <1>2, TokensKept
  <1>4. CreatedInv'
      BY <1>1 DEF CreatedInv
  <1>5. QED
      BY <1>1, <1>3, <1>4, NothingInProgress

LEMMA StutterContent ==
    ASSUME CircuitInv, UNCHANGED vars PROVE ContentInv' /\ Steady
  <1>1. Steady
      BY DEF vars, files, Steady, Reading, getGateType, getChildren, hasProb, getInfos, getExtra,
             ExtraAt, Mapped, RecordOf
  <1>2. AppendInv' /\ HandlerInv' /\ CreatedInv'
      BY DEF vars, files, locals, ghosts, CircuitInv, ContentInv, AppendInv, HandlerInv, CreatedInv,
             Mapped, RecordOf, WiresHold, BytesHold, Complete
  <1>3. \A t \in Tokens : TokenInv(t)'
      BY DEF vars, files, ghosts, CircuitInv, ContentInv, TokenInv, Mapped, RecordOf, RecordFits,
             Keeps, WiresHold, BytesHold
  <1>4. QED
      BY <1>1, <1>2, <1>3 DEF ContentInv

\* A token that gets a placeholder reads as it did when it was unknown; one that
\* gets its own record reads as what it is derived from.
LEMMA AppendPublishContent ==
    ASSUME CircuitInv, StoreInv', AppendPublish PROVE ContentInv' /\ Steady
  <1>1. /\ frame \in Frames /\ frame.token \in Tokens /\ frame.return \in {"kids", "prob"}
        /\ frame.children \in Seq(Tokens) /\ Len(frame.children) \in Nat
        /\ pc = "append_publish" /\ msg \in Offered /\ msg.token \in Tokens
        /\ frame.return = "kids" => msg.op = "C"
    <2>1. /\ pc = "append_publish" /\ frame \in Frames /\ msg \in Messages /\ msg \in Offered
          /\ frame.return = "kids" => msg.op = "C"
        BY DEF CircuitInv, StoreInv, Control, AppendPCs, AppendPublish, ContentInv, HandlerInv
    <2>2. QED
        BY <2>1, MessageFields DEF Frames
  <1> DEFINE r == NewRecord(frame.type, Len(frame.children), base)
             own == frame.return = "kids" /\ frame.token = msg.token
  <1>2. /\ ~Mapped(frame.token) /\ gates[nb_gates - 1] = r
        /\ WiresHold(base, frame.children, Len(frame.children))
        /\ own => frame.type = msg.type /\ frame.children = msg.children
        /\ ~own => frame.type = "gate_input" /\ frame.children = <<>>
        /\ frame.return = "kids" /\ ~own => Mapped(msg.token)
      BY <1>1 DEF CircuitInv, ContentInv, AppendInv, AppendPCs
  <1>3. /\ mapping \in [Tokens -> Nat \cup {NOTHING}] /\ nb_gates - 1 \in Nat
      BY <1>1 DEF CircuitInv, StoreInv, TypeOK, FilesType, Slots
  <1>4. /\ mapping' = [mapping EXCEPT ![frame.token] = nb_gates - 1] /\ pc' = frame.return
        /\ UNCHANGED <<gates, nb_gates, wires, nb_wires, extra, nb_extra, msg, frame, base, k,
                       kills, created, promised>>
      BY <1>2 DEF AppendPublish, locals, ghosts
  <1>5. /\ \A t \in Tokens : t # frame.token => mapping'[t] = mapping[t]
        /\ Mapped(frame.token)' /\ RecordOf(frame.token)' = r
    <2>1. mapping'[frame.token] = nb_gates - 1 /\ gates' = gates /\ frame' = frame
        BY <1>1, <1>3, <1>4
    <2>2. QED
        BY <1>2, <1>3, <1>4, <2>1, ValueAssumption DEF Mapped, RecordOf
  <1>6. WiresStay /\ ExtraStays
      BY <1>4 DEF WiresStay, ExtraStays
  <1>7. ASSUME NEW t \in Tokens, t # frame.token
        PROVE  /\ Reading(t)' = Reading(t) /\ (Mapped(t)' <=> Mapped(t))
               /\ Mapped(t) => RecordOf(t)' = RecordOf(t)
               /\ TokenInv(t)'
    <2>1. TokenInv(t) /\ promised'[t] = promised[t] /\ mapping'[t] = mapping[t]
        BY <1>4, <1>5, <1>7 DEF CircuitInv, ContentInv
    <2>2. CASE ~Mapped(t)
      <3>1. ~Mapped(t)'
          BY <2>1, <2>2 DEF Mapped
      <3>2. QED
          BY <2>1, <2>2, <3>1, StaysUnknown DEF TokenInv
    <2>3. CASE Mapped(t)
      <3>1. PICK p \in Promises : p = promised[t]
          BY StoreTypes DEF CircuitInv
      <3>2. /\ Mapped(t)' /\ RecordOf(t)' = RecordOf(t) /\ Reading(t)' = Reading(t)
            /\ RecordFits(t, RecordOf(t)) => RecordFits(t, RecordOf(t))'
            /\ \A q \in Promises : Keeps(q, RecordOf(t)) => Keeps(q, RecordOf(t))'
          BY <1>4, <1>6, <2>1, <2>3, Undisturbed DEF CircuitInv
      <3>3. QED
          BY <2>1, <2>3, <3>1, <3>2 DEF TokenInv, Keeps
    <2>4. QED
        BY <2>2, <2>3
  <1>8. own => /\ frame.type = Content[frame.token].type /\ frame.children = Content[frame.token].children
      BY <1>1, <1>2, CreateSays DEF CircuitInv
  <1>9. /\ r.type = frame.type /\ r.nb_children = Len(frame.children) /\ r.children_idx = base
        /\ r.prob = NaN /\ r.info1 = 0 /\ r.info2 = 0 /\ r.extra_len = 0
      BY DEF NewRecord
  <1>10. ~own => Placeholder(r) /\ Len(frame.children) = 0
      BY <1>2, <1>9 DEF Placeholder
  <1>11. TokenInv(frame.token)'
    <2>1. PICK u \in Tokens : u = frame.token
        BY <1>1
    <2>2. TokenInv(u) /\ promised'[u] = NoPromise
        BY <1>2, <1>4, <2>1 DEF CircuitInv, ContentInv, TokenInv
    <2>3. Keeps(promised[u], RecordOf(u))'
        BY <2>2 DEF Keeps, NoPromise
    <2>4. WiresHold(base, frame.children, Len(frame.children))'
        BY <1>2, <1>4 DEF WiresHold
    <2>5. RecordFits(u, RecordOf(u))'
      <3>1. RecordOf(u)' = r
          BY <1>4, <1>5, <2>1
      <3>2. r.type \in {"gate_input", Content[u].type}
          BY <1>2, <1>8, <1>9, <2>1
      <3>3. r.nb_children # 0 => r.nb_children = Len(Content[u].children) /\ frame.children = Content[u].children
          BY <1>8, <1>9, <1>10, <2>1
      <3> HIDE DEF r
      <3>4. r.nb_children # 0 =>
                /\ r.nb_children = Len(Content[u].children)
                /\ \A i \in 1..r.nb_children : wires'[r.children_idx + i - 1] = Content[u].children[i]
          BY <1>4, <1>9, <2>4, <3>3 DEF WiresHold
      <3>5. QED
          BY <3>1, <3>2, <3>4 DEF RecordFits, WiresHold
    <2>6. Mapped(u)' /\ frame' = frame
        BY <1>4, <1>5, <2>1
    <2>7. QED
        BY <2>1, <2>3, <2>5, <2>6 DEF TokenInv
  <1> HIDE DEF r, own
  <1>12. Steady
    <2>1. ASSUME NEW u \in Tokens, u = frame.token, u # msg.token
          PROVE  Reading(u)' = Reading(u)
      <3>2. Mapped(u)' /\ RecordOf(u)' = r /\ ~Mapped(u) /\ frame' = frame
          BY <1>2, <1>4, <1>5, <2>1
      <3>3. r.type = "gate_input" /\ r.nb_children = 0
          BY <1>10, <2>1 DEF own, Placeholder
      <3>4. /\ getGateType(u)' = getGateType(u) /\ hasProb(u)' = hasProb(u)
            /\ getInfos(u)' = getInfos(u)
          BY <1>9, <3>2, <3>3 DEF getGateType, hasProb, getInfos, carriesProb
      <3>5. getChildren(u)' = getChildren(u)
          BY <3>2, <3>3 DEF getChildren
      <3>6. getExtra(u)' = getExtra(u)
          BY <1>9, <3>2 DEF getExtra, ExtraAt
      <3>7. QED
          BY <3>4, <3>5, <3>6 DEF Reading
    <2>2. \A t \in Tokens : t # frame.token => Reading(t)' = Reading(t)
        BY <1>7
    <2>3. QED
        BY <2>1, <2>2 DEF Steady
  <1>13. \A t \in Tokens : TokenInv(t)'
    <2>1. ASSUME NEW t \in Tokens, t = frame.token
          PROVE  TokenInv(t)'
        BY <1>4, <1>11, <2>1
    <2>2. QED
        BY <1>7, <2>1
  <1>14. AppendInv' /\ HandlerInv'
    <2>1. frame.return = "kids" => Mapped(msg.token)'
      <3>1. CASE own
        <4>1. frame' = frame /\ msg' = msg /\ frame.token = msg.token
            BY <1>4, <3>1 DEF own
        <4>2. QED
            BY <1>5, <4>1
      <3>2. CASE ~own
          BY <1>1, <1>2, <1>4, <1>7, <3>2 DEF own
      <3>3. QED
          BY <3>1, <3>2
    <2>2. pc' \in {"kids", "prob"}
        BY <1>1, <1>4
    <2>3. QED
        BY <1>1, <1>4, <2>1, <2>2 DEF AppendInv, HandlerInv, AppendPCs
  <1>15. CreatedInv'
    <2> SUFFICES ASSUME kills' = 0
                 PROVE  CreatedInv'
        BY DEF CreatedInv
    <2>1. /\ \A t \in Tokens : Mapped(t) => Placeholder(RecordOf(t)) \/ Complete(t)
          /\ \A t \in created : Complete(t)
          /\ frame.return = "kids" /\ ~own => Complete(msg.token)
        BY <1>1, <1>4 DEF CircuitInv, ContentInv, CreatedInv, AppendPCs, own
    <2>2. \A t \in Tokens : Complete(t) => Complete(t)' /\ t # frame.token
        BY <1>2, <1>7 DEF Complete
    <2>3. PICK u \in Tokens : u = frame.token
        BY <1>1
    <2>4. Mapped(u)' /\ RecordOf(u)' = r /\ frame' = frame
        BY <1>4, <1>5, <2>3
    <2>5. own => Complete(u)'
        BY <1>8, <1>9, <2>3, <2>4 DEF Complete
    <2>6. \A t \in Tokens : Mapped(t)' => Placeholder(RecordOf(t))' \/ Complete(t)'
      <3>1. Placeholder(RecordOf(u))' \/ Complete(u)'
          BY <1>10, <2>4, <2>5 DEF Placeholder
      <3>2. \A t \in Tokens : t # u /\ Mapped(t)' => Placeholder(RecordOf(t))' \/ Complete(t)'
          BY <1>7, <2>1, <2>2, <2>3 DEF Placeholder
      <3>3. QED
          BY <3>1, <3>2
    <2>7. \A t \in created' : Complete(t)'
      <3>1. created' = created /\ created \subseteq Tokens
          BY <1>4 DEF CircuitInv, StoreInv, TypeOK, GhostType
      <3>2. QED
          BY <2>1, <2>2, <3>1
    <2>8. pc' = "kids" => Complete(msg.token)'
      <3>1. CASE own
        <4>1. msg' = msg /\ u = msg.token
            BY <1>4, <2>3, <3>1 DEF own
        <4>2. Complete(u)' /\ u = msg'.token
            BY <2>5, <3>1, <4>1
        <4>3. QED
            BY <4>2 DEF Complete, Mapped, RecordOf
      <3>2. CASE ~own
        <4>1. pc' = "kids" => Complete(msg.token) /\ msg' = msg
            BY <1>4, <2>1, <3>2
        <4>2. \A t \in Tokens : t = msg'.token /\ Complete(t)' => Complete(msg.token)'
            BY DEF Complete, Mapped, RecordOf
        <4>3. QED
            BY <1>1, <2>2, <4>1, <4>2
      <3>3. QED
          BY <3>1, <3>2
    <2>9. pc' \in {"kids", "prob"}
        BY <1>1, <1>4
    <2>10. QED
        BY <2>6, <2>7, <2>8, <2>9 DEF CreatedInv, UpgradePCs, AppendPCs
  <1>16. QED
      BY <1>12, <1>13, <1>14, <1>15 DEF ContentInv

-----------------------------------------------------------------------------
(* Steps that store a field of the record of the message's token.           *)

\* A record that still fits its token and keeps what was promised may replace it;
\* nothing else is disturbed, since no other token leads to it.
LEMMA RecordChanges ==
    ASSUME CircuitInv, NEW u \in Tokens, Mapped(u), NEW r \in GateInformation,
           gates' = [gates EXCEPT ![mapping[u]] = r],
           UNCHANGED <<mapping, nb_gates, wires, nb_wires, extra, nb_extra>>,
           NEW p \in Promises, promised' = [promised EXCEPT ![u] = p],
           RecordFits(u, r), Keeps(p, r)
    PROVE  /\ Mapped(u)' /\ RecordOf(u)' = r
           /\ \A t \in Tokens : TokenInv(t)'
           /\ \A t \in Tokens : t # u =>
                 /\ Reading(t)' = Reading(t)
                 /\ Mapped(t)' <=> Mapped(t)
                 /\ Mapped(t) => RecordOf(t)' = RecordOf(t)
  <1>1. /\ mapping[u] \in 0..(MaxGates - 1) /\ promised \in [Tokens -> Promises]
        /\ gates \in [0..(MaxGates - 1) -> GateInformation]
      BY StoreTypes DEF CircuitInv, StoreInv, TypeOK, FilesType
  <1>2. Mapped(u)' /\ RecordOf(u)' = r
    <2>1. gates'[mapping[u]] = r
        BY <1>1
    <2>2. QED
        BY <2>1 DEF Mapped, RecordOf
  <1>3. WiresStay /\ ExtraStays
      BY DEF WiresStay, ExtraStays
  <1>4. ASSUME NEW t \in Tokens, t # u
        PROVE  /\ Reading(t)' = Reading(t)
               /\ Mapped(t)' <=> Mapped(t)
               /\ Mapped(t) => RecordOf(t)' = RecordOf(t)
               /\ TokenInv(t)'
    <2>1. TokenInv(t) /\ promised'[t] = promised[t] /\ (Mapped(t)' <=> Mapped(t))
        BY <1>1, <1>4 DEF CircuitInv, ContentInv, Mapped
    <2>2. CASE ~Mapped(t)
        BY <2>1, <2>2, StaysUnknown DEF TokenInv
    <2>3. CASE Mapped(t)
      <3>1. mapping'[t] = mapping[t] /\ gates'[mapping[t]] = gates[mapping[t]]
        <4>1. mapping[t] # mapping[u]
            BY <1>4, <2>3 DEF CircuitInv, StoreInv, OneRecordPerToken
        <4>2. mapping[t] \in 0..(MaxGates - 1)
            BY <2>3, StoreTypes DEF CircuitInv
        <4>3. QED
            BY <1>1, <4>1, <4>2
      <3>2. /\ Mapped(t)' /\ RecordOf(t)' = RecordOf(t) /\ Reading(t)' = Reading(t)
            /\ RecordFits(t, RecordOf(t)) => RecordFits(t, RecordOf(t))'
            /\ \A q \in Promises : Keeps(q, RecordOf(t)) => Keeps(q, RecordOf(t))'
          BY <1>3, <2>3, <3>1, Undisturbed DEF CircuitInv
      <3>3. PICK q \in Promises : q = promised[t]
          BY <1>1
      <3>4. QED
          BY <2>1, <2>3, <3>2, <3>3 DEF TokenInv, Keeps
    <2>4. QED
        BY <2>2, <2>3
  <1>5. TokenInv(u)'
    <2>1. promised'[u] = p
        BY <1>1
    <2>2. RecordFits(u, RecordOf(u))'
        BY <1>2 DEF RecordFits, WiresHold
    <2>3. Keeps(promised[u], RecordOf(u))'
        BY <1>2, <2>1 DEF Keeps, BytesHold
    <2>4. QED
        BY <1>2, <2>2, <2>3 DEF TokenInv
  <1>6. \A t \in Tokens : TokenInv(t)'
      BY <1>4, <1>5
  <1>7. QED
      BY <1>2, <1>4, <1>6

\* The record of the gate token t is derived from, as Complete asks for it.
Whole(t, r) == r.type = Content[t].type /\ r.nb_children = Len(Content[t].children)

LEMMA RecordCreated ==
    ASSUME CircuitInv, NEW u \in Tokens, NEW r, Mapped(u)', RecordOf(u)' = r,
           \A t \in Tokens : t # u =>
                 /\ Mapped(t)' <=> Mapped(t)
                 /\ Mapped(t) => RecordOf(t)' = RecordOf(t),
           kills' = kills, created' = created, pc' \notin AppendPCs,
           pc = "upgrade_type" => msg.token = u,
           pc' # "idle" => msg'.token = u,
           kills = 0 =>
               /\ Placeholder(r) \/ Whole(u, r) \/ pc' = "upgrade_type"
               /\ u \in created => Whole(u, r)
               /\ pc' \in UpgradePCs => u \notin created
               /\ pc' = "kids" => Whole(u, r)
    PROVE  CreatedInv'
  <1> SUFFICES ASSUME kills' = 0
               PROVE  /\ \A t \in Tokens : Mapped(t)' =>
                            Placeholder(RecordOf(t))' \/ Complete(t)'
                            \/ (pc' = "upgrade_type" /\ t = msg'.token)
                      /\ \A t \in created' : Complete(t)'
                      /\ pc' \in UpgradePCs => msg'.token \notin created'
                      /\ pc' = "kids" => Complete(msg.token)'
      BY DEF CreatedInv
  <1>1. /\ \A t \in Tokens : t # u => (Mapped(t) => Placeholder(RecordOf(t)) \/ Complete(t))
        /\ \A t \in created : Complete(t)
        /\ created \subseteq Tokens
      BY DEF CircuitInv, ContentInv, CreatedInv, StoreInv, TypeOK, GhostType
  <1>2. \A t \in Tokens : t # u => (Complete(t) => Complete(t)')
      BY DEF Complete
  <1>3. Whole(u, r) => Complete(u)'
      BY DEF Whole, Complete
  <1>4. \A t \in Tokens : t # u => (Mapped(t)' => Placeholder(RecordOf(t))' \/ Complete(t)')
      BY <1>1, <1>2 DEF Placeholder
  <1>5. Placeholder(r) => Placeholder(RecordOf(u))'
      BY DEF Placeholder
  <1>6. pc' = "upgrade_type" \/ Placeholder(RecordOf(u))' \/ Complete(u)'
      BY <1>3, <1>5
  <1>7. \A t \in created' : Complete(t)'
      BY <1>1, <1>2, <1>3
  <1>8. pc' = "kids" => Complete(msg.token)'
    <2>1. Complete(u)' /\ msg'.token = u => Complete(msg.token)'
        BY DEF Complete, Mapped, RecordOf
    <2>2. QED
        BY <1>3, <2>1
  <1>9. QED
    <2>1. \A t \in Tokens : Mapped(t)' =>
              Placeholder(RecordOf(t))' \/ Complete(t)' \/ (pc' = "upgrade_type" /\ t = msg'.token)
      <3>1. pc' = "upgrade_type" => msg'.token = u
          OBVIOUS
      <3>2. QED
          BY <1>4, <1>6, <3>1
    <2>2. pc' \in UpgradePCs => msg'.token \notin created'
        BY DEF UpgradePCs
    <2>3. QED
        BY <1>7, <1>8, <2>1, <2>2

\* A record that stays that of the same gate still fits its token.
LEMMA SameGate ==
    ASSUME CircuitInv, NEW u \in Tokens, Mapped(u), NEW r, pc # "upgrade_type",
           r.type = RecordOf(u).type, r.nb_children = RecordOf(u).nb_children,
           r.children_idx = RecordOf(u).children_idx
    PROVE  /\ RecordFits(u, r)
           /\ kills = 0 => /\ Placeholder(r) \/ Whole(u, r)
                           /\ u \in created => Whole(u, r)
  <1>1. TokenInv(u) /\ CreatedInv
      BY DEF CircuitInv, ContentInv
  <1>2. RecordFits(u, r)
      BY <1>1 DEF TokenInv, RecordFits
  <1>3. kills = 0 => /\ Placeholder(r) \/ Whole(u, r)
                     /\ u \in created => Whole(u, r)
      BY <1>1 DEF CreatedInv, Placeholder, Complete, Whole
  <1>4. QED
      BY <1>2, <1>3

\* The same, for the steps that store another field of it.
LEMMA FieldContent ==
    ASSUME CircuitInv, msg.token \in Tokens, Mapped(msg.token), NEW r \in GateInformation,
           gates' = [gates EXCEPT ![mapping[msg.token]] = r],
           UNCHANGED <<mapping, nb_gates, wires, nb_wires, extra, nb_extra, kills, created>>,
           NEW p \in Promises, promised' = [promised EXCEPT ![msg.token] = p], Keeps(p, r),
           r.type = RecordOf(msg.token).type,
           r.nb_children = RecordOf(msg.token).nb_children,
           r.children_idx = RecordOf(msg.token).children_idx,
           pc # "upgrade_type", pc' \in ExtraPCs \cup {"idle", "info2"},
           pc' # "idle" => msg' = msg
    PROVE  /\ CreatedInv' /\ Steady /\ \A t \in Tokens : TokenInv(t)'
           /\ \A t \in Tokens : t = msg.token => RecordOf(t)' = r
  <1>1. PICK u \in Tokens : u = msg.token
      OBVIOUS
  <1>2. /\ RecordFits(u, r)
        /\ kills = 0 => /\ Placeholder(r) \/ Whole(u, r)
                        /\ u \in created => Whole(u, r)
      BY <1>1, SameGate
  <1>3. /\ Mapped(u)' /\ RecordOf(u)' = r
        /\ \A t \in Tokens : TokenInv(t)'
        /\ \A t \in Tokens : t # u =>
              /\ Reading(t)' = Reading(t)
              /\ Mapped(t)' <=> Mapped(t)
              /\ Mapped(t) => RecordOf(t)' = RecordOf(t)
    <2>1. Mapped(u) /\ gates' = [gates EXCEPT ![mapping[u]] = r]
          /\ promised' = [promised EXCEPT ![u] = p]
        BY <1>1
    <2>2. QED
        BY <1>2, <2>1, RecordChanges
  <1>4. CreatedInv'
    <2>1. pc' \notin UpgradePCs /\ pc' \notin AppendPCs /\ pc' # "kids"
        BY DEF ExtraPCs, UpgradePCs, AppendPCs
    <2>2. pc' # "idle" => msg'.token = u
        BY <1>1
    <2>3. QED
        BY <1>2, <1>3, <2>1, <2>2, RecordCreated
  <1>5. Steady
      BY <1>1, <1>3 DEF Steady
  <1>6. \A t \in Tokens : t = msg.token => RecordOf(t)' = r
    <2>1. ASSUME NEW t \in Tokens, t = u PROVE RecordOf(t)' = r
        BY <1>3, <2>1 DEF RecordOf
    <2>2. QED
        BY <1>1, <2>1
  <1>7. QED
      BY <1>3, <1>4, <1>5, <1>6

\* What the record of the message's token holds of what was promised.
LEMMA PromiseKept ==
    ASSUME CircuitInv, NEW u \in Tokens, Mapped(u)
    PROVE  /\ promised \in [Tokens -> Promises] /\ promised[u] \in Promises
           /\ RecordOf(u) \in GateInformation /\ Keeps(promised[u], RecordOf(u))
           /\ RecordOf(u) = gates[mapping[u]]
  <1>1. TokenInv(u)
      BY DEF CircuitInv, ContentInv
  <1>2. QED
      BY <1>1, StoreTypes DEF CircuitInv, TokenInv

LEMMA SetProbContent ==
    ASSUME CircuitInv, StoreInv', SetProb PROVE ContentInv' /\ Steady
  <1>1. /\ msg.token \in Tokens /\ msg.prob \in Probs \cup {NaN} /\ Mapped(msg.token)
        /\ pc = "prob" /\ pc' = "idle"
        /\ UNCHANGED <<mapping, nb_gates, wires, nb_wires, extra, nb_extra, kills, created>>
      BY MessageFields DEF CircuitInv, StoreInv, Control, SetProb, Return
  <1> DEFINE old == RecordOf(msg.token)
             pr == promised[msg.token]
             result == SetProbResult(old, msg.prob)
             r == IF result = "Written" THEN [old EXCEPT !.prob = msg.prob] ELSE old
             p == IF result \in {"Written", "Unchanged"}
                  THEN [pr EXCEPT !.prob = IF msg.prob = NaN \/ pr.prob = NaN THEN msg.prob ELSE pr.prob]
                  ELSE pr
  <1>2. /\ promised \in [Tokens -> Promises] /\ pr \in Promises
        /\ old \in GateInformation /\ Keeps(pr, old) /\ old = gates[mapping[msg.token]]
      BY <1>1, PromiseKept
  <1>3. gates' = [gates EXCEPT ![mapping[msg.token]] = r]
    <2>1. gates \in [0..(MaxGates - 1) -> GateInformation]
        BY DEF CircuitInv, StoreInv, TypeOK, FilesType
    <2>2. CASE result = "Written"
        BY <1>2, <2>2 DEF SetProb
    <2>3. CASE result # "Written"
      <3>1. gates' = gates
          BY <2>3 DEF SetProb
      <3>2. QED
          BY <1>2, <2>1, <2>3, <3>1
    <2>4. QED
        BY <2>2, <2>3
  <1>4. promised' = [promised EXCEPT ![msg.token] = p]
    <2>1. CASE result \in {"Written", "Unchanged"}
        BY <1>2, <2>1 DEF SetProb
    <2>2. CASE result \notin {"Written", "Unchanged"}
      <3>1. promised' = promised
          BY <2>2 DEF SetProb
      <3>2. QED
          BY <1>2, <2>2, <3>1
    <2>3. QED
        BY <2>1, <2>2
  <1>5. /\ r \in GateInformation /\ r.type = old.type /\ r.nb_children = old.nb_children
        /\ r.children_idx = old.children_idx
        /\ r.info1 = old.info1 /\ r.info2 = old.info2
        /\ r.extra_idx = old.extra_idx /\ r.extra_len = old.extra_len
        /\ r.prob = IF result = "Written" THEN msg.prob ELSE old.prob
      BY <1>1, <1>2 DEF GateInformation
  <1>6. /\ p \in Promises /\ p.info1 = pr.info1 /\ p.info2 = pr.info2 /\ p.extra = pr.extra
        /\ p.prob = IF result \in {"Written", "Unchanged"}
                    THEN IF msg.prob = NaN \/ pr.prob = NaN THEN msg.prob ELSE pr.prob
                    ELSE pr.prob
      BY <1>1, <1>2 DEF Promises
  <1>7. p.prob # NaN => r.prob = p.prob
    <2>1. pr.prob # NaN => old.prob = pr.prob
        BY <1>2 DEF Keeps
    <2>2. result = "Written" => msg.prob = NaN \/ old.prob = NaN
        BY DEF SetProbResult
    <2>3. result = "Unchanged" => old.prob = msg.prob
        BY DEF SetProbResult
    <2> HIDE DEF r, p, result
    <2>4. QED
        BY <1>5, <1>6, <2>1, <2>2, <2>3
  <1> HIDE DEF r, p
  <1>8. Keeps(p, r)
      BY <1>2, <1>5, <1>6, <1>7 DEF Keeps
  <1>9. CreatedInv' /\ Steady /\ \A t \in Tokens : TokenInv(t)'
    <2>1. pc # "upgrade_type" /\ pc' \in ExtraPCs \cup {"idle", "info2"} /\ (pc' # "idle" => msg' = msg)
        BY <1>1
    <2>2. QED
        BY <1>1, <1>3, <1>4, <1>5, <1>6, <1>8, <2>1, FieldContent
  <1>10. QED
      BY <1>1, <1>9, NothingInProgress

LEMMA StoreInfo1Content ==
    ASSUME CircuitInv, StoreInv', StoreInfo1 PROVE ContentInv' /\ Steady
  <1>1. /\ msg.token \in Tokens /\ msg.info1 \in Infos \cup {0} /\ msg.info2 \in Infos \cup {0}
        /\ Mapped(msg.token) /\ pc = "info1" /\ pc' = "info2" /\ msg' = msg
        /\ UNCHANGED <<mapping, nb_gates, wires, nb_wires, extra, nb_extra, kills, created,
                       promised>>
      BY MessageFields DEF CircuitInv, StoreInv, Control, StoreInfo1, StoreField, ghosts
  <1> DEFINE old == RecordOf(msg.token)
             p == promised[msg.token]
             v == Merge(msg.info1, old.info1)
             r == [old EXCEPT !.info1 = v]
  <1>2. /\ promised \in [Tokens -> Promises] /\ p \in Promises
        /\ old \in GateInformation /\ Keeps(p, old)
      BY <1>1, PromiseKept
  <1>3. gates' = [gates EXCEPT ![mapping[msg.token]] = r]
      BY DEF StoreInfo1, StoreField, RecordOf
  <1>4. promised' = [promised EXCEPT ![msg.token] = p]
      BY <1>1, <1>2
  <1>5. /\ r \in GateInformation /\ r.type = old.type /\ r.nb_children = old.nb_children
        /\ r.children_idx = old.children_idx
        /\ r.info1 = v /\ r.info2 = old.info2 /\ r.prob = old.prob
        /\ r.extra_idx = old.extra_idx /\ r.extra_len = old.extra_len
      BY <1>1, <1>2 DEF GateInformation, Merge
  <1>6. ~InfosConflict(old, msg) /\ msg \in Offered
      BY <1>1 DEF CircuitInv, ContentInv, HandlerInv
  <1> HIDE DEF r
  <1>7. Keeps(p, r) /\ ~InfosConflict(r, msg)
      BY <1>2, <1>5, <1>6 DEF Keeps, InfosConflict, Merge
  <1>8. /\ CreatedInv' /\ Steady /\ \A t \in Tokens : TokenInv(t)'
        /\ \A t \in Tokens : t = msg.token => RecordOf(t)' = r
    <2>1. pc # "upgrade_type" /\ pc' \in ExtraPCs \cup {"idle", "info2"}
        BY <1>1
    <2>2. QED
        BY <1>1, <1>2, <1>3, <1>4, <1>5, <1>7, <2>1, FieldContent
  <1>9. AppendInv' /\ HandlerInv'
    <2>1. ~InfosConflict(RecordOf(msg.token), msg)'
      <3>1. PICK u \in Tokens : u = msg.token
          BY <1>1
      <3>2. RecordOf(u)' = r /\ msg'.token = u /\ msg' = msg
          BY <1>1, <1>8, <3>1
      <3>3. RecordOf(msg.token)' = r
          BY <3>2 DEF RecordOf
      <3>4. QED
          BY <1>7, <3>2, <3>3 DEF InfosConflict
    <2>2. QED
        BY <1>1, <1>6, <2>1 DEF AppendInv, HandlerInv, AppendPCs
  <1>10. QED
      BY <1>8, <1>9 DEF ContentInv

LEMMA StoreInfo2Content ==
    ASSUME CircuitInv, StoreInv', StoreInfo2 PROVE ContentInv' /\ Steady
  <1>1. /\ msg.token \in Tokens /\ msg.info1 \in Infos \cup {0} /\ msg.info2 \in Infos \cup {0}
        /\ Mapped(msg.token) /\ pc = "info2" /\ pc' = "idle"
        /\ UNCHANGED <<mapping, nb_gates, wires, nb_wires, extra, nb_extra, kills, created>>
      BY MessageFields DEF CircuitInv, StoreInv, Control, StoreInfo2, Return
  <1> DEFINE old == RecordOf(msg.token)
             pr == promised[msg.token]
             v == Merge(msg.info2, old.info2)
             r == [old EXCEPT !.info2 = v]
             p == [[pr EXCEPT !.info1 = old.info1] EXCEPT !.info2 = v]
  <1>2. /\ promised \in [Tokens -> Promises] /\ pr \in Promises
        /\ old \in GateInformation /\ Keeps(pr, old)
      BY <1>1, PromiseKept
  <1>3. gates' = [gates EXCEPT ![mapping[msg.token]] = r]
      BY DEF StoreInfo2, RecordOf
  <1>4. promised' = [promised EXCEPT ![msg.token] = p]
      BY <1>1, <1>2 DEF StoreInfo2
  <1>5. /\ r \in GateInformation /\ r.type = old.type /\ r.nb_children = old.nb_children
        /\ r.children_idx = old.children_idx
        /\ r.info1 = old.info1 /\ r.info2 = v /\ r.prob = old.prob
        /\ r.extra_idx = old.extra_idx /\ r.extra_len = old.extra_len
      BY <1>1, <1>2 DEF GateInformation, Merge
  <1>6. /\ p \in Promises /\ p.prob = pr.prob /\ p.extra = pr.extra
        /\ p.info1 = old.info1 /\ p.info2 = v
    <2>1. v \in Infos \cup {0} /\ old.info1 \in Infos \cup {0}
        BY <1>1, <1>2 DEF GateInformation, Merge
    <2>2. QED
        BY <1>2, <2>1 DEF Promises
  <1> HIDE DEF r, p
  <1>7. Keeps(p, r)
      BY <1>2, <1>5, <1>6 DEF Keeps
  <1>8. CreatedInv' /\ Steady /\ \A t \in Tokens : TokenInv(t)'
    <2>1. pc # "upgrade_type" /\ pc' \in ExtraPCs \cup {"idle", "info2"} /\ (pc' # "idle" => msg' = msg)
        BY <1>1
    <2>2. QED
        BY <1>1, <1>3, <1>4, <1>5, <1>6, <1>7, <2>1, FieldContent
  <1>9. QED
      BY <1>1, <1>8, NothingInProgress

\* A record that has no string yet owes none.
LEMMA NoStringOwed ==
    ASSUME NEW p \in Promises, NEW r \in GateInformation, Keeps(p, r), r.extra_len = 0
    PROVE  p.extra = <<>>
  <1>1. p.extra # <<>> => Len(p.extra) = 0 /\ p.extra \in Seq(Bytes)
      BY ValueAssumption DEF Promises, Keeps
  <1>2. QED
      BY <1>1

LEMMA StoreExtraIdxContent ==
    ASSUME CircuitInv, StoreInv', StoreExtraIdx PROVE ContentInv' /\ Steady
  <1>1. /\ msg.token \in Tokens /\ Mapped(msg.token) /\ msg.op = "E"
        /\ pc = "extra_idx" /\ pc' = "extra_bytes" /\ msg' = msg /\ k' = k /\ k = 0
        /\ RecordOf(msg.token).extra_len = 0 /\ base \in Nat
        /\ UNCHANGED <<mapping, nb_gates, wires, nb_wires, extra, nb_extra, kills, created,
                       promised>>
      BY MessageFields
      DEF CircuitInv, StoreInv, TypeOK, WorkerType, Control, Progress, ExtraPCs, StoreExtraIdx,
          StoreField, ghosts, locals
  <1> DEFINE old == RecordOf(msg.token)
             p == promised[msg.token]
             r == [old EXCEPT !.extra_idx = base]
  <1>2. /\ promised \in [Tokens -> Promises] /\ p \in Promises
        /\ old \in GateInformation /\ Keeps(p, old)
      BY <1>1, PromiseKept
  <1>3. gates' = [gates EXCEPT ![mapping[msg.token]] = r]
      BY DEF StoreExtraIdx, StoreField, RecordOf
  <1>4. promised' = [promised EXCEPT ![msg.token] = p]
      BY <1>1, <1>2
  <1>5. /\ r \in GateInformation /\ r.type = old.type /\ r.nb_children = old.nb_children
        /\ r.children_idx = old.children_idx
        /\ r.info1 = old.info1 /\ r.info2 = old.info2 /\ r.prob = old.prob
      BY <1>1, <1>2 DEF GateInformation
  <1> HIDE DEF r
  <1>6. p.extra = <<>>
      BY <1>1, <1>2, NoStringOwed
  <1>7. Keeps(p, r)
      BY <1>2, <1>5, <1>6 DEF Keeps
  <1>8. CreatedInv' /\ Steady /\ \A t \in Tokens : TokenInv(t)'
    <2>1. pc # "upgrade_type" /\ pc' \in ExtraPCs \cup {"idle", "info2"} /\ (pc' # "idle" => msg' = msg)
        BY <1>1 DEF ExtraPCs
    <2>2. QED
        BY <1>1, <1>2, <1>3, <1>4, <1>5, <1>7, <2>1, FieldContent
  <1>9. AppendInv' /\ HandlerInv'
    <2>1. BytesHold(base, msg.str, k)'
        BY <1>1 DEF BytesHold
    <2>2. msg \in Offered
        BY <1>1 DEF CircuitInv, ContentInv, HandlerInv
    <2>3. QED
        BY <1>1, <2>1, <2>2 DEF AppendInv, HandlerInv, AppendPCs
  <1>10. QED
      BY <1>8, <1>9 DEF ContentInv

LEMMA StoreExtraLenContent ==
    ASSUME CircuitInv, StoreInv', StoreExtraLen PROVE ContentInv' /\ Steady
  <1>1. /\ msg.token \in Tokens /\ Mapped(msg.token) /\ pc = "extra_len" /\ pc' = "idle"
        /\ msg.op = "E" /\ RecordOf(msg.token).extra_idx = base
        /\ UNCHANGED <<mapping, nb_gates, wires, nb_wires, extra, nb_extra, kills, created>>
      BY MessageFields
      DEF CircuitInv, StoreInv, Control, Progress, ExtraPCs, StoreExtraLen, Return
  <1>2. msg.str \in Extras /\ Len(msg.str) \in Nat /\ BytesHold(base, msg.str, Len(msg.str))
      BY <1>1, ExtraMessage DEF CircuitInv, ContentInv, HandlerInv
  <1> DEFINE old == RecordOf(msg.token)
             pr == promised[msg.token]
             r == [old EXCEPT !.extra_len = Len(msg.str)]
             p == [pr EXCEPT !.extra = msg.str]
  <1>3. /\ promised \in [Tokens -> Promises] /\ pr \in Promises
        /\ old \in GateInformation /\ Keeps(pr, old)
      BY <1>1, PromiseKept
  <1>4. gates' = [gates EXCEPT ![mapping[msg.token]] = r]
      BY DEF StoreExtraLen, RecordOf
  <1>5. promised' = [promised EXCEPT ![msg.token] = p]
      BY <1>1, <1>3 DEF StoreExtraLen
  <1>6. /\ r \in GateInformation /\ r.type = old.type /\ r.nb_children = old.nb_children
        /\ r.children_idx = old.children_idx
        /\ r.info1 = old.info1 /\ r.info2 = old.info2 /\ r.prob = old.prob
        /\ r.extra_idx = base /\ r.extra_len = Len(msg.str)
      BY <1>1, <1>2, <1>3 DEF GateInformation
  <1>7. /\ p \in Promises /\ p.prob = pr.prob /\ p.info1 = pr.info1 /\ p.info2 = pr.info2
        /\ p.extra = msg.str
      BY <1>2, <1>3 DEF Promises
  <1> HIDE DEF r, p
  <1>8. Keeps(p, r)
      BY <1>2, <1>3, <1>6, <1>7 DEF Keeps
  <1>9. CreatedInv' /\ Steady /\ \A t \in Tokens : TokenInv(t)'
    <2>1. pc # "upgrade_type" /\ pc' \in ExtraPCs \cup {"idle", "info2"} /\ (pc' # "idle" => msg' = msg)
        BY <1>1
    <2>2. QED
        BY <1>1, <1>4, <1>5, <1>6, <1>7, <1>8, <2>1, FieldContent
  <1>10. QED
      BY <1>1, <1>9, NothingInProgress

\* The three stores of an upgrade: a placeholder, then the count of the children
\* that are in the wires already, then the type.
LEMMA UpgradeRecordContent ==
    ASSUME CircuitInv, StoreInv', UpgradeRecord PROVE ContentInv' /\ Steady
  <1>1. /\ pc \in {"upgrade_idx", "upgrade_nb", "upgrade_type"} /\ msg' = msg /\ base' = base
        /\ UNCHANGED <<mapping, nb_gates, wires, nb_wires, extra, nb_extra, kills, created,
                       promised>>
      BY DEF UpgradeRecord, StoreField, locals, ghosts
  <1>2. /\ msg.op = "C" /\ Mapped(msg.token) /\ pc \in UpgradePCs
        /\ base \in Nat /\ msg \in Offered
      BY <1>1
      DEF CircuitInv, StoreInv, TypeOK, WorkerType, Control, UpgradePCs, ContentInv, HandlerInv
  <1>3. /\ msg.token \in Tokens /\ msg.type \in GateTypes
        /\ msg.type = Content[msg.token].type /\ msg.children = Content[msg.token].children
        /\ Len(msg.children) \in Nat
    <2>1. msg \in Messages /\ pc # "idle"
        BY <1>1, <1>2, OfferedAssumption
    <2>2. QED
        BY <1>2, <2>1, CreateSays, MessageFields
  <1>4. PICK u \in Tokens : u = msg.token
      BY <1>3
  <1> DEFINE old == RecordOf(u)
             p == promised[u]
  <1>5. /\ promised \in [Tokens -> Promises] /\ p \in Promises
        /\ old \in GateInformation /\ Keeps(p, old) /\ Mapped(u)
      BY <1>2, <1>4, PromiseKept
  <1>6. promised' = [promised EXCEPT ![u] = p]
      BY <1>1, <1>5
  <1>7. RecordFits(u, old) /\ (kills = 0 => u \notin created)
      BY <1>2, <1>4, <1>5 DEF CircuitInv, ContentInv, TokenInv, CreatedInv
  <1>8. ASSUME NEW r \in GateInformation, gates' = [gates EXCEPT ![mapping[u]] = r],
               r.prob = old.prob, r.info1 = old.info1, r.info2 = old.info2,
               r.extra_idx = old.extra_idx, r.extra_len = old.extra_len,
               RecordFits(u, r),
               pc' \in {"upgrade_nb", "upgrade_type", "kids"},
               pc = "upgrade_type" => pc' = "kids",
               (Placeholder(r) /\ pc' # "kids") \/ Whole(u, r) \/ pc' = "upgrade_type"
        PROVE  /\ Mapped(u)' /\ RecordOf(u)' = r
               /\ CreatedInv' /\ Steady /\ AppendInv' /\ \A t \in Tokens : TokenInv(t)'
    <2>1. Keeps(p, r)
        BY <1>5, <1>8 DEF Keeps
    <2>2. /\ Mapped(u)' /\ RecordOf(u)' = r
          /\ \A t \in Tokens : TokenInv(t)'
          /\ \A t \in Tokens : t # u =>
                /\ Reading(t)' = Reading(t)
                /\ Mapped(t)' <=> Mapped(t)
                /\ Mapped(t) => RecordOf(t)' = RecordOf(t)
        BY <1>1, <1>5, <1>6, <1>8, <2>1, RecordChanges
    <2>3. CreatedInv'
      <3>1. pc' \notin AppendPCs /\ (pc' # "idle" => msg'.token = u)
          BY <1>1, <1>4, <1>8 DEF AppendPCs
      <3>2. kills = 0 =>
               /\ Placeholder(r) \/ Whole(u, r) \/ pc' = "upgrade_type"
               /\ u \in created => Whole(u, r)
               /\ pc' \in UpgradePCs => u \notin created
               /\ pc' = "kids" => Whole(u, r)
          BY <1>7, <1>8
      <3>3. QED
          BY <1>1, <1>4, <2>2, <3>1, <3>2, RecordCreated
    <2>4. Steady
        BY <1>4, <2>2 DEF Steady
    <2>5. AppendInv'
        BY <1>8 DEF AppendInv, AppendPCs
    <2>6. QED
        BY <2>2, <2>3, <2>4, <2>5
  <1>9. CASE StoreField("upgrade_idx", "children_idx", base, "upgrade_nb")
    <2> DEFINE r == [old EXCEPT !.children_idx = base]
    <2>1. gates' = [gates EXCEPT ![mapping[u]] = r] /\ pc = "upgrade_idx" /\ pc' = "upgrade_nb"
        BY <1>4, <1>9 DEF StoreField, RecordOf
    <2>2. /\ r \in GateInformation /\ r.type = old.type /\ r.nb_children = old.nb_children
          /\ r.prob = old.prob /\ r.info1 = old.info1 /\ r.info2 = old.info2
          /\ r.extra_idx = old.extra_idx /\ r.extra_len = old.extra_len
        BY <1>2, <1>5 DEF GateInformation
    <2>3. Placeholder(old) /\ WiresHold(base, msg.children, Len(msg.children))
        BY <1>4, <2>1 DEF CircuitInv, ContentInv, HandlerInv
    <2> HIDE DEF r
    <2>4. Placeholder(r) /\ RecordFits(u, r)
        BY <2>2, <2>3 DEF Placeholder, RecordFits
    <2>5. /\ Mapped(u)' /\ RecordOf(u)' = r
          /\ CreatedInv' /\ Steady /\ AppendInv' /\ \A t \in Tokens : TokenInv(t)'
        BY <1>8, <2>1, <2>2, <2>4
    <2>6. HandlerInv'
      <3>1. WiresHold(base, msg.children, Len(msg.children))'
          BY <1>1, <2>3 DEF WiresHold
      <3>2. Placeholder(RecordOf(msg.token))'
          BY <1>1, <1>4, <2>4, <2>5 DEF Placeholder, RecordOf
      <3>3. QED
          BY <1>1, <1>2, <2>1, <3>1, <3>2 DEF HandlerInv
    <2>7. QED
        BY <2>5, <2>6 DEF ContentInv
  <1>10. CASE StoreField("upgrade_nb", "nb_children", Len(msg.children), "upgrade_type")
    <2> DEFINE r == [old EXCEPT !.nb_children = Len(msg.children)]
    <2>1. gates' = [gates EXCEPT ![mapping[u]] = r] /\ pc = "upgrade_nb" /\ pc' = "upgrade_type"
        BY <1>4, <1>10 DEF StoreField, RecordOf
    <2>2. /\ r \in GateInformation /\ r.type = old.type /\ r.nb_children = Len(msg.children)
          /\ r.children_idx = old.children_idx
          /\ r.prob = old.prob /\ r.info1 = old.info1 /\ r.info2 = old.info2
          /\ r.extra_idx = old.extra_idx /\ r.extra_len = old.extra_len
        BY <1>3, <1>5 DEF GateInformation
    <2>3. /\ Placeholder(old) /\ WiresHold(base, msg.children, Len(msg.children))
          /\ old.children_idx = base
        BY <1>4, <2>1 DEF CircuitInv, ContentInv, HandlerInv, StoreInv, Progress
    <2> HIDE DEF r
    <2>4. RecordFits(u, r)
        BY <1>3, <1>4, <2>2, <2>3 DEF Placeholder, RecordFits
    <2>5. /\ Mapped(u)' /\ RecordOf(u)' = r
          /\ CreatedInv' /\ Steady /\ AppendInv' /\ \A t \in Tokens : TokenInv(t)'
        BY <1>8, <2>1, <2>2, <2>4
    <2>6. HandlerInv'
      <3>1. (RecordOf(msg.token).nb_children = Len(msg.children))'
          BY <1>1, <1>4, <2>2, <2>5 DEF RecordOf
      <3>2. QED
          BY <1>1, <1>2, <2>1, <3>1 DEF HandlerInv
    <2>7. QED
        BY <2>5, <2>6 DEF ContentInv
  <1>11. CASE StoreField("upgrade_type", "type", msg.type, "kids")
    <2> DEFINE r == [old EXCEPT !.type = msg.type]
    <2>1. gates' = [gates EXCEPT ![mapping[u]] = r] /\ pc = "upgrade_type" /\ pc' = "kids"
        BY <1>4, <1>11 DEF StoreField, RecordOf
    <2>2. /\ r \in GateInformation /\ r.type = msg.type /\ r.nb_children = old.nb_children
          /\ r.children_idx = old.children_idx
          /\ r.prob = old.prob /\ r.info1 = old.info1 /\ r.info2 = old.info2
          /\ r.extra_idx = old.extra_idx /\ r.extra_len = old.extra_len
        BY <1>3, <1>5 DEF GateInformation
    <2>3. old.nb_children = Len(msg.children)
        BY <1>4, <2>1 DEF CircuitInv, ContentInv, HandlerInv
    <2> HIDE DEF r
    <2>4. RecordFits(u, r) /\ Whole(u, r)
        BY <1>3, <1>4, <1>7, <2>2, <2>3 DEF RecordFits, Whole
    <2>5. /\ Mapped(u)' /\ RecordOf(u)' = r
          /\ CreatedInv' /\ Steady /\ AppendInv' /\ \A t \in Tokens : TokenInv(t)'
        BY <1>8, <2>1, <2>2, <2>4
    <2>6. HandlerInv'
      <3>1. Mapped(msg.token)'
          BY <1>1, <1>4, <2>5 DEF Mapped
      <3>2. QED
          BY <1>1, <1>2, <2>1, <3>1 DEF HandlerInv
    <2>7. QED
        BY <2>5, <2>6 DEF ContentInv
  <1>12. QED
      BY <1>9, <1>10, <1>11 DEF UpgradeRecord

-----------------------------------------------------------------------------
(* CircuitInv is inductive.                                                 *)

LEMMA InitContent == Init => CircuitInv
  <1> SUFFICES ASSUME Init
               PROVE  CircuitInv
      OBVIOUS
  <1>1. StoreInv
      BY InitStoreInv
  <1>2. pc = "idle" /\ created = {} /\ \A t \in Tokens : mapping[t] = NOTHING
      BY DEF Init
  <1>3. AppendInv /\ HandlerInv
      BY <1>2 DEF AppendInv, HandlerInv, AppendPCs
  <1>4. CreatedInv
      BY <1>2 DEF CreatedInv, Mapped, UpgradePCs, AppendPCs
  <1>5. \A t \in Tokens : TokenInv(t)
    <2>1. \A t \in Tokens : promised[t] = NoPromise
        BY DEF Init, NoPromise
    <2>2. QED
        BY <1>2, <2>1 DEF TokenInv, Mapped
  <1>6. QED
      BY <1>1, <1>3, <1>4, <1>5 DEF CircuitInv, ContentInv

\* Every step preserves CircuitInv, and only the message's token may read differently.
LEMMA CircuitStep ==
    ASSUME CircuitInv, [Next]_vars PROVE CircuitInv' /\ Steady
  <1>1. StoreInv'
      BY StoreStep DEF CircuitInv
  <1>2. CASE \E m \in Offered : Receive(m)
      BY <1>1, <1>2, ReceiveContent DEF CircuitInv
  <1>3. CASE Work
    <2>1. CASE CreateGate \/ UpgradeWires \/ UpgradeRecord \/ Kids
        BY <1>1, <2>1, CreateGateContent, UpgradeWiresContent, UpgradeRecordContent, KidsContent
        DEF CircuitInv
    <2>2. CASE AppendGate
        BY <1>1, <2>2, AppendWiresContent, AppendRecordContent, AppendPublishContent
        DEF AppendGate, CircuitInv
    <2>3. CASE SetProbLookup \/ SetProb
        BY <1>1, <2>3, SetProbLookupContent, SetProbContent DEF CircuitInv
    <2>4. CASE SetInfos \/ StoreInfos
        BY <1>1, <2>4, SetInfosContent, StoreInfo1Content, StoreInfo2Content
        DEF StoreInfos, CircuitInv
    <2>5. CASE SetExtra \/ StoreExtra
        BY <1>1, <2>5, SetExtraContent, StoreExtraIdxContent, StoreExtraBytesContent,
           StoreExtraLenContent
        DEF StoreExtra, CircuitInv
    <2>6. QED
        BY <1>3, <2>1, <2>2, <2>3, <2>4, <2>5 DEF Work
  <1>4. CASE Terminate
      BY <1>1, <1>4, TerminateContent DEF CircuitInv
  <1>5. CASE Kill
      BY <1>1, <1>5, KillContent DEF CircuitInv
  <1>6. CASE UNCHANGED vars
      BY <1>1, <1>6, StutterContent DEF CircuitInv
  <1>7. QED
      BY <1>2, <1>3, <1>4, <1>5, <1>6 DEF Next

\* Whatever the handlers have stored of a message when they are killed, each
\* record is still a placeholder or that of its token's gate and holds every
\* acknowledged annotation: createGate, setProb, setInfos and setExtra store the
\* field that makes the others readable last.
THEOREM CircuitInvariant == Spec => []CircuitInv
  <1>1. CircuitInv /\ [Next]_vars => CircuitInv'
      BY CircuitStep
  <1>2. QED
      BY <1>1, InitContent, PTL DEF Spec

\* A sequence, element by element.
LEMMA Spelled ==
    ASSUME NEW S, NEW seq \in Seq(S), NEW n, n = Len(seq)
    PROVE  [i \in 1..n |-> seq[i]] = seq
OBVIOUS

\* The children a record gives are those its token is derived from.
LEMMA ChildrenRead ==
    ASSUME NEW t \in Tokens, Mapped(t), NEW n, n = Len(Content[t].children),
           RecordOf(t).nb_children = n, WiresHold(RecordOf(t).children_idx, Content[t].children, n)
    PROVE  getChildren(t) = Content[t].children
  <1>1. Content[t].children \in Seq(Tokens)
      BY ContentAssumption
  <1>2. \A i \in 1..n : wires[RecordOf(t).children_idx + i - 1] = Content[t].children[i]
      BY DEF WiresHold
  <1>3. getChildren(t) = [i \in 1..n |-> Content[t].children[i]]
      BY <1>2 DEF getChildren
  <1>4. QED
      BY <1>1, <1>3, Spelled

LEMMA NoChildrenRead ==
    ASSUME NEW t \in Tokens, Mapped(t), RecordOf(t).nb_children = 0
    PROVE  getChildren(t) = <<>>
BY DEF getChildren

\* A parent is never read with some of its children, or with somebody else's:
\* nb_children is stored after the wires it counts (appendGate, createGate).
THEOREM ChildrenAlwaysWhole == Spec => []ChildrenWhole
  <1>1. ASSUME CircuitInv
        PROVE  ChildrenWhole
    <2> SUFFICES ASSUME NEW t \in Tokens
                 PROVE  getChildren(t) \in {<<>>, Content[t].children}
        BY DEF ChildrenWhole
    <2>1. CASE ~Mapped(t)
        BY <2>1 DEF getChildren
    <2>2. CASE Mapped(t)
      <3>1. RecordFits(t, RecordOf(t))
          BY <1>1, <2>2 DEF CircuitInv, ContentInv, TokenInv
      <3>2. QED
          BY <2>2, <3>1, ChildrenRead, NoChildrenRead DEF RecordFits
    <2>3. QED
        BY <2>1, <2>2
  <1>2. CircuitInv => ChildrenWhole
      BY <1>1
  <1>3. QED
      BY <1>2, CircuitInvariant, PTL

\* What setProb, setInfos and setExtra acknowledged stays readable: whichever
\* handler is killed, and whether the token's placeholder is upgraded later.
THEOREM PromisesAlwaysStand == Spec => []PromisesStand
  <1>1. ASSUME CircuitInv
        PROVE  PromisesStand
    <2> SUFFICES ASSUME NEW t \in Tokens, NEW p, p = promised[t]
                 PROVE  /\ p.prob # NaN /\ carriesProb(Content[t].type) => hasProb(t) = p.prob
                        /\ p.info1 # 0 => getInfos(t)[1] = p.info1
                        /\ p.info2 # 0 => getInfos(t)[2] = p.info2
                        /\ p.extra # <<>> => getExtra(t) = p.extra
        BY DEF PromisesStand
    <2>1. CASE ~Mapped(t)
        BY <1>1, <2>1 DEF CircuitInv, ContentInv, TokenInv, NoPromise
    <2>2. CASE Mapped(t)
      <3>1. /\ RecordFits(t, RecordOf(t)) /\ Keeps(p, RecordOf(t)) /\ p \in Promises
          BY <1>1, <2>2, PromiseKept DEF CircuitInv, ContentInv, TokenInv
      <3>2. p.prob # NaN /\ carriesProb(Content[t].type) => hasProb(t) = p.prob
          BY <2>2, <3>1 DEF RecordFits, Keeps, hasProb, carriesProb
      <3>3. /\ p.info1 # 0 => getInfos(t)[1] = p.info1
            /\ p.info2 # 0 => getInfos(t)[2] = p.info2
          BY <2>2, <3>1 DEF Keeps, getInfos
      <3>4. ASSUME p.extra # <<>>
            PROVE  getExtra(t) = p.extra
        <4>1. p.extra \in Seq(Bytes)
            BY <3>1, <3>4, ValueAssumption DEF Promises
        <4>2. /\ RecordOf(t).extra_len = Len(p.extra)
              /\ \A i \in 1..Len(p.extra) : extra[RecordOf(t).extra_idx + i - 1] = p.extra[i]
            BY <3>1, <3>4 DEF Keeps, BytesHold
        <4>3. getExtra(t) = [i \in 1..Len(p.extra) |-> p.extra[i]]
            BY <2>2, <4>2 DEF getExtra, ExtraAt
        <4>4. QED
            BY <4>1, <4>3, Spelled
      <3>5. QED
          BY <3>2, <3>3, <3>4
    <2>3. QED
        BY <2>1, <2>2
  <1>2. CircuitInv => PromisesStand
      BY <1>1
  <1>3. QED
      BY <1>2, CircuitInvariant, PTL

\* Without kills, a 'C' message applied to the end is there to be read, whether
\* its token was unknown, a lazy-added placeholder or named by an annotation.
THEOREM CreatedAlwaysReadsBack == Spec => []CreatedReadsBack
  <1>1. ASSUME CircuitInv
        PROVE  CreatedReadsBack
    <2> SUFFICES ASSUME kills = 0, NEW t \in created
                 PROVE  getGateType(t) = Content[t].type /\ getChildren(t) = Content[t].children
        BY DEF CreatedReadsBack
    <2>1. t \in Tokens /\ Complete(t)
        BY <1>1 DEF CircuitInv, StoreInv, TypeOK, GhostType, ContentInv, CreatedInv
    <2>2. RecordFits(t, RecordOf(t)) /\ Mapped(t)
        BY <1>1, <2>1 DEF CircuitInv, ContentInv, TokenInv, Complete
    <2>3. getGateType(t) = Content[t].type
        BY <2>1 DEF Complete, getGateType
    <2>4. getChildren(t) = Content[t].children
      <3>1. CASE RecordOf(t).nb_children # 0
          BY <2>1, <2>2, <3>1, ChildrenRead DEF RecordFits
      <3>2. CASE RecordOf(t).nb_children = 0
        <4>1. Content[t].children \in Seq(Tokens) /\ Len(Content[t].children) = 0
            BY <2>1, <3>2, ContentAssumption DEF Complete
        <4>2. Content[t].children = <<>>
            BY <4>1
        <4>3. QED
            BY <2>1, <2>2, <3>2, <4>2, NoChildrenRead
      <3>3. QED
          BY <3>1, <3>2
    <2>5. QED
        BY <2>3, <2>4
  <1>2. CircuitInv => CreatedReadsBack
      BY <1>1
  <1>3. QED
      BY <1>2, CircuitInvariant, PTL

\* Applying a message, or dying while applying it, never changes anything that
\* can be read of another token, the children it lazy-adds included.
THEOREM OnlyNamedTokenEverChanges == Spec => OnlyNamedTokenChanges
  <1>1. CircuitInv /\ [Next]_vars => [\A t \in Tokens : Reading(t)' # Reading(t) => t = msg.token]_vars
      BY CircuitStep DEF Steady
  <1>2. QED
      BY <1>1, CircuitInvariant, PTL DEF Spec, OnlyNamedTokenChanges
=============================================================================
