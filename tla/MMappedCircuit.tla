--------------------------- MODULE MMappedCircuit ---------------------------
(***************************************************************************)
(* The circuit store of one database: the four memory-mapped files of      *)
(* MMappedCircuit.cpp (mapping, gates, wires, extra) and the background    *)
(* worker that applies messages to them, one store to memory at a time.    *)
(*                                                                         *)
(* The worker can be killed between any two of those stores.  The kernel's *)
(* page cache outlives it, so the next worker finds exactly what had been  *)
(* written.  What a crash of the machine may lose is not modelled here.    *)
(*                                                                         *)
(* A vector is data->d[] plus data->nb_elements, as in MMappedVector.hpp;  *)
(* the token table is the function it represents (its probing is a matter  *)
(* of MMappedUUIDHashTable).                                               *)
(***************************************************************************)
EXTENDS Integers, Sequences, FiniteSets

CONSTANTS
    Tokens,      \* the tokens (UUIDs) in use
    Content,     \* [Tokens -> [type, children]]: what a token is derived from
    GateTypes,   \* the values of gate_type, gate_input among them
    Probs,       \* the probabilities a user may write
    NaN,         \* "no probability", and the operand of a clearing 'P'
    Infos,       \* the non-zero values of an info field
    Bytes,       \* the characters of an extra string
    Extras,      \* the extra strings a user may write
    Offered,     \* the messages sessions send
    NOTHING,     \* an empty slot of the token table
    MaxGates,    \* bound on the records of the gates file
    MaxWires,    \* bound on the elements of the wires file
    MaxExtra,    \* bound on the characters of the extra file
    MaxKills     \* bound on the number of times the worker dies mid-message

ASSUME ContentAssumption ==
    Content \in [Tokens -> [type : GateTypes, children : Seq(Tokens)]]
ASSUME GateTypesAssumption ==
    {"gate_input", "gate_update", "gate_mulinput"} \subseteq GateTypes
ASSUME ValueAssumption ==
    /\ NaN \notin Probs
    /\ Infos \subseteq Nat \ {0}
    /\ Extras \subseteq Seq(Bytes) \ {<<>>}
    /\ NOTHING \notin Nat /\ NOTHING \notin Tokens /\ NOTHING \notin Bytes
ASSUME BoundAssumption ==
    /\ MaxGates \in Nat /\ MaxWires \in Nat /\ MaxExtra \in Nat
    /\ MaxKills \in Nat

VARIABLES
    mapping,     \* the token table: token -> index of its record, or NOTHING
    gates,       \* data->d of the gates file
    nb_gates,    \* its nb_elements
    wires,       \* data->d of the wires file
    nb_wires,
    extra,       \* data->d of the extra file
    nb_extra,
    dirty,       \* FLAG_DIRTY in the headers of the files
    unclean,     \* unclean_ of the open objects: the flag was set on open
    opened,      \* circuits[db_oid] exists in the worker
    pc,          \* where the worker is in the handler of the message
    msg,         \* the message being applied
    frame,       \* the arguments and locals of the appendGate in progress
    base,        \* wires_idx, or the new extra_idx
    k,           \* the loop counter over the children or bytes being added
    kid,         \* the loop counter over the children to lazy-add
    kills,       \* how often the worker died in the middle of a message
    created,     \* history: tokens whose 'C' message was applied to the end
    promised     \* history: the annotations the worker acknowledged

files  == <<mapping, gates, nb_gates, wires, nb_wires, extra, nb_extra>>
header == <<dirty, unclean, opened>>
locals == <<frame, base, k, kid>>
ghosts == <<created, promised>>
vars   == <<files, header, pc, msg, locals, kills, ghosts>>

-----------------------------------------------------------------------------
(* Data *)

GateInformation ==
    [type : GateTypes, nb_children : Nat, children_idx : Nat,
     prob : Probs \cup {NaN}, info1 : Infos \cup {0}, info2 : Infos \cup {0},
     extra_idx : Nat, extra_len : Nat]

\* The constructor of GateInformation.
NewRecord(type, nb, idx) ==
    [type |-> type, nb_children |-> nb, children_idx |-> idx, prob |-> NaN,
     info1 |-> 0, info2 |-> 0, extra_idx |-> 0, extra_len |-> 0]

\* A slot of the gates file nothing was stored in yet.  The file is extended
\* with zero bytes; as no token leads to it, which probability that is does
\* not matter.
BlankRecord == NewRecord("gate_input", 0, 0)

Messages ==
    [op : {"C"}, token : Tokens, type : GateTypes, children : Seq(Tokens)]
    \cup [op : {"P"}, token : Tokens, prob : Probs \cup {NaN}]
    \cup [op : {"I"}, token : Tokens, info1 : Infos \cup {0}, info2 : Infos \cup {0}]
    \cup [op : {"E"}, token : Tokens, str : Extras]

\* A token is derived from what the gate is: every 'C' message about a token
\* says the same thing.
ASSUME OfferedAssumption ==
    /\ Offered \subseteq Messages
    /\ \A m \in Offered : m.op = "C" =>
          m.type = Content[m.token].type /\ m.children = Content[m.token].children

NoMessage == [op |-> "none"]
NoFrame == [token |-> NOTHING, type |-> "gate_input", children |-> <<>>, return |-> "idle"]

Frames == [token : Tokens, type : GateTypes, children : Seq(Tokens),
           return : {"kids", "prob"}]

carriesProb(type) == type \in {"gate_input", "gate_update", "gate_mulinput"}

Mapped(t) == mapping[t] # NOTHING
RecordOf(t) == gates[mapping[t]]

-----------------------------------------------------------------------------
(* Readers *)

getGateType(t) == IF Mapped(t) THEN RecordOf(t).type ELSE "gate_input"

getChildren(t) ==
    IF Mapped(t)
    THEN [i \in 1..RecordOf(t).nb_children |-> wires[RecordOf(t).children_idx + i - 1]]
    ELSE <<>>

hasProb(t) ==
    IF Mapped(t) /\ carriesProb(RecordOf(t).type) THEN RecordOf(t).prob ELSE NaN

getInfos(t) == IF Mapped(t) THEN <<RecordOf(t).info1, RecordOf(t).info2>> ELSE <<0, 0>>

ExtraAt(r) == [i \in 1..r.extra_len |-> extra[r.extra_idx + i - 1]]
getExtra(t) == IF Mapped(t) THEN ExtraAt(RecordOf(t)) ELSE <<>>

\* Everything a session can ask the worker about a token.
Reading(t) ==
    [type |-> getGateType(t), children |-> getChildren(t), prob |-> hasProb(t),
     infos |-> getInfos(t), extra |-> getExtra(t)]

\* check(): the counts of provsql.check_store(), as the sets they count.
DanglingIndices == {t \in Tokens : Mapped(t) /\ mapping[t] >= nb_gates}
Unreferenced == {i \in 0..(nb_gates - 1) : \A t \in Tokens : mapping[t] # i}
BadWires ==
    {i \in 0..(nb_gates - 1) : gates[i].children_idx + gates[i].nb_children > nb_wires}
BadExtra ==
    {i \in 0..(nb_gates - 1) : gates[i].extra_idx + gates[i].extra_len > nb_extra}

-----------------------------------------------------------------------------
Init ==
    /\ mapping = [t \in Tokens |-> NOTHING]
    /\ gates = [i \in 0..(MaxGates - 1) |-> BlankRecord] /\ nb_gates = 0
    /\ wires = [i \in 0..(MaxWires - 1) |-> NOTHING] /\ nb_wires = 0
    /\ extra = [i \in 0..(MaxExtra - 1) |-> NOTHING] /\ nb_extra = 0
    /\ dirty = FALSE /\ unclean = FALSE /\ opened = FALSE
    /\ pc = "idle" /\ msg = NoMessage
    /\ frame = NoFrame /\ base = 0 /\ k = 0 /\ kid = 0
    /\ kills = 0
    /\ created = {}
    /\ promised = [t \in Tokens |-> [prob |-> NaN, info1 |-> 0, info2 |-> 0, extra |-> <<>>]]

\* The worker takes a message off the pipe; getCircuit opens the files on the
\* first one.  Opening records whether the dirty flag was set and sets it.
Receive(m) ==
    /\ pc = "idle"
    /\ unclean' = IF opened THEN unclean ELSE dirty
    /\ dirty' = TRUE
    /\ opened' = TRUE
    /\ msg' = m
    /\ pc' = "dispatch"
    /\ UNCHANGED <<files, locals, kills, ghosts>>

\* The handler returns to the main loop.
Return ==
    /\ pc' = "idle" /\ msg' = NoMessage
    /\ frame' = NoFrame /\ base' = 0 /\ k' = 0 /\ kid' = 0

-----------------------------------------------------------------------------
(* appendGate: wires, then the record, then the entry of the token table.  *)

CallAppend(token, type, children, return) ==
    /\ frame' = [token |-> token, type |-> type, children |-> children, return |-> return]
    /\ base' = nb_wires
    /\ k' = 0
    /\ pc' = "append_wires"

AppendWires ==
    /\ pc = "append_wires"
    /\ IF k < Len(frame.children)
       THEN /\ nb_wires < MaxWires
            /\ wires' = [wires EXCEPT ![nb_wires] = frame.children[k + 1]]
            /\ nb_wires' = nb_wires + 1
            /\ k' = k + 1
            /\ UNCHANGED pc
       ELSE pc' = "append_record" /\ UNCHANGED <<wires, nb_wires, k>>
    /\ UNCHANGED <<mapping, gates, nb_gates, extra, nb_extra, header, msg, frame, base,
                   kid, kills, ghosts>>

\* Mutant: the record is given the current end of the wires, not the saved one,
\* and the count that belongs to the saved one.
AppendRecord_LateIndex ==
    /\ pc = "append_record" /\ nb_gates < MaxGates
    /\ gates' = [gates EXCEPT ![nb_gates] =
                    NewRecord(frame.type, Len(frame.children), nb_wires)]
    /\ nb_gates' = nb_gates + 1
    /\ pc' = "append_publish"
    /\ UNCHANGED <<mapping, wires, nb_wires, extra, nb_extra, header, msg, locals, kills, ghosts>>

AppendRecord ==
    /\ pc = "append_record" /\ nb_gates < MaxGates
    /\ gates' = [gates EXCEPT ![nb_gates] =
                    NewRecord(frame.type, Len(frame.children), base)]
    /\ nb_gates' = nb_gates + 1
    /\ pc' = "append_publish"
    /\ UNCHANGED <<mapping, wires, nb_wires, extra, nb_extra, header, msg, locals, kills, ghosts>>

\* mapping.publish(token, idx); idx was nbElements() before gates.add.
AppendPublish ==
    /\ pc = "append_publish"
    /\ mapping' = [mapping EXCEPT ![frame.token] = IF Mapped(frame.token) THEN @ ELSE nb_gates - 1]
    /\ pc' = frame.return
    /\ UNCHANGED <<gates, nb_gates, wires, nb_wires, extra, nb_extra, header, msg, locals,
                   kills, ghosts>>

-----------------------------------------------------------------------------
(* 'C': createGate *)

Placeholder(r) == r.type = "gate_input" /\ r.nb_children = 0
RealCreate(m) == m.type # "gate_input" \/ m.children # <<>>

\* Mutant: a token that is already known is left alone, placeholder or not.
CreateGate_NoUpgrade ==
    /\ pc = "dispatch" /\ msg.op = "C"
    /\ IF Mapped(msg.token)
       THEN Return /\ created' = created \cup {msg.token}
       ELSE /\ CallAppend(msg.token, msg.type, msg.children, "kids")
            /\ UNCHANGED <<msg, kid, created>>
    /\ UNCHANGED <<files, header, kills, promised>>

CreateGate ==
    /\ pc = "dispatch" /\ msg.op = "C"
    /\ \/ /\ ~Mapped(msg.token)
          /\ CallAppend(msg.token, msg.type, msg.children, "kids")
          /\ UNCHANGED <<msg, kid, created>>
       \/ /\ Mapped(msg.token)
          /\ Placeholder(RecordOf(msg.token)) /\ RealCreate(msg)
          /\ base' = nb_wires /\ k' = 0
          /\ pc' = "upgrade_wires"
          /\ UNCHANGED <<msg, frame, kid, created>>
       \/ /\ Mapped(msg.token)
          /\ ~(Placeholder(RecordOf(msg.token)) /\ RealCreate(msg))
          /\ Return
          /\ created' = created \cup {msg.token}
    /\ UNCHANGED <<files, header, kills, promised>>

\* Mutant: the children are stored where the placeholder's would have been.
UpgradeWires_InPlace ==
    /\ pc = "upgrade_wires"
    /\ IF k < Len(msg.children)
       THEN /\ nb_wires < MaxWires
            /\ wires' = [wires EXCEPT ![RecordOf(msg.token).children_idx + k] =
                            msg.children[k + 1]]
            /\ nb_wires' = nb_wires + 1
            /\ k' = k + 1
            /\ UNCHANGED pc
       ELSE pc' = "upgrade_idx" /\ UNCHANGED <<wires, nb_wires, k>>
    /\ UNCHANGED <<mapping, gates, nb_gates, extra, nb_extra, header, msg, frame, base,
                   kid, kills, ghosts>>

UpgradeWires ==
    /\ pc = "upgrade_wires"
    /\ IF k < Len(msg.children)
       THEN /\ nb_wires < MaxWires
            /\ wires' = [wires EXCEPT ![nb_wires] = msg.children[k + 1]]
            /\ nb_wires' = nb_wires + 1
            /\ k' = k + 1
            /\ UNCHANGED pc
       ELSE pc' = "upgrade_idx" /\ UNCHANGED <<wires, nb_wires, k>>
    /\ UNCHANGED <<mapping, gates, nb_gates, extra, nb_extra, header, msg, frame, base,
                   kid, kills, ghosts>>

\* One store to one field of the record of the message's token.
StoreField(from, field, value, to) ==
    /\ pc = from
    /\ gates' = [gates EXCEPT ![mapping[msg.token]][field] = value]
    /\ pc' = to
    /\ UNCHANGED <<mapping, nb_gates, wires, nb_wires, extra, nb_extra, header, msg, locals,
                   kills, ghosts>>

\* Mutant: the count is stored before the index it counts from.
UpgradeRecord_CountFirst ==
    \/ StoreField("upgrade_idx", "nb_children", Len(msg.children), "upgrade_nb")
    \/ StoreField("upgrade_nb", "children_idx", base, "upgrade_type")
    \/ StoreField("upgrade_type", "type", msg.type, "kids")

\* Wires first (above), then the record's own fields, in this order.
UpgradeRecord ==
    \/ StoreField("upgrade_idx", "children_idx", base, "upgrade_nb")
    \/ StoreField("upgrade_nb", "nb_children", Len(msg.children), "upgrade_type")
    \/ StoreField("upgrade_type", "type", msg.type, "kids")

\* The children nobody created yet are lazy-added as inputs.
Kids ==
    /\ pc = "kids"
    /\ \/ /\ kid < Len(msg.children)
          /\ kid' = kid + 1
          /\ IF Mapped(msg.children[kid + 1])
             THEN UNCHANGED <<pc, frame, base, k>>
             ELSE CallAppend(msg.children[kid + 1], "gate_input", <<>>, "kids")
          /\ UNCHANGED <<msg, created>>
       \/ /\ kid = Len(msg.children)
          /\ Return
          /\ created' = created \cup {msg.token}
    /\ UNCHANGED <<files, header, kills, promised>>

-----------------------------------------------------------------------------
(* 'P': setProb, on a gates file of version 2 *)

SetProbLookup ==
    /\ pc = "dispatch" /\ msg.op = "P"
    /\ IF Mapped(msg.token)
       THEN pc' = "prob" /\ UNCHANGED <<frame, base, k>>
       ELSE CallAppend(msg.token, "gate_input", <<>>, "prob")
    /\ UNCHANGED <<files, header, msg, kid, kills, ghosts>>

\* Mutant: the last write wins.
SetProbResult_Overwrites(r, p) == IF carriesProb(r.type) THEN "Written" ELSE "NotProbGate"

SetProbResult(r, p) ==
    CASE ~carriesProb(r.type)       -> "NotProbGate"
      [] p = NaN \/ r.prob = NaN    -> "Written"
      [] r.prob = p                 -> "Unchanged"
      [] OTHER                      -> "AlreadySet"

SetProb ==
    /\ pc = "prob"
    /\ LET result == SetProbResult(RecordOf(msg.token), msg.prob) IN
       /\ gates' = IF result = "Written"
                   THEN [gates EXCEPT ![mapping[msg.token]].prob = msg.prob] ELSE gates
       /\ promised' = IF result \in {"Written", "Unchanged"}
                      THEN [promised EXCEPT ![msg.token].prob =
                               IF msg.prob = NaN \/ @ = NaN THEN msg.prob ELSE @]
                      ELSE promised
    /\ Return
    /\ UNCHANGED <<mapping, nb_gates, wires, nb_wires, extra, nb_extra, header, kills, created>>

-----------------------------------------------------------------------------
(* 'I': setInfos; each field is written once, 0 meaning "nothing recorded" *)

InfosConflict(r, m) ==
    \/ m.info1 # 0 /\ r.info1 # 0 /\ r.info1 # m.info1
    \/ m.info2 # 0 /\ r.info2 # 0 /\ r.info2 # m.info2

Merge(new, old) == IF new # 0 THEN new ELSE old

InfosUnchanged(r, m) ==
    Merge(m.info1, r.info1) = r.info1 /\ Merge(m.info2, r.info2) = r.info2

\* Not NoSuchGate, AlreadySet or Unchanged.
InfosToWrite(m) ==
    /\ Mapped(m.token)
    /\ ~InfosConflict(RecordOf(m.token), m)
    /\ ~InfosUnchanged(RecordOf(m.token), m)

SetInfos ==
    /\ pc = "dispatch" /\ msg.op = "I"
    /\ IF InfosToWrite(msg) THEN pc' = "info1" /\ UNCHANGED <<msg, locals>> ELSE Return
    /\ UNCHANGED <<files, header, kills, ghosts>>

StoreInfo1 ==
    StoreField("info1", "info1", Merge(msg.info1, RecordOf(msg.token).info1), "info2")

StoreInfo2 ==
    /\ pc = "info2"
    /\ LET w2 == Merge(msg.info2, RecordOf(msg.token).info2) IN
       /\ gates' = [gates EXCEPT ![mapping[msg.token]].info2 = w2]
       /\ promised' = [promised EXCEPT ![msg.token].info1 = RecordOf(msg.token).info1,
                                       ![msg.token].info2 = w2]
    /\ Return
    /\ UNCHANGED <<mapping, nb_gates, wires, nb_wires, extra, nb_extra, header, kills, created>>

-----------------------------------------------------------------------------
(* 'E': setExtra; the bytes are in place before extra_len makes them readable *)

SetExtra ==
    /\ pc = "dispatch" /\ msg.op = "E"
    /\ IF Mapped(msg.token) /\ RecordOf(msg.token).extra_len = 0
       THEN /\ base' = nb_extra /\ k' = 0
            /\ pc' = "extra_idx"
            /\ UNCHANGED <<msg, frame, kid, promised>>
       ELSE /\ promised' = IF getExtra(msg.token) = msg.str
                           THEN [promised EXCEPT ![msg.token].extra = msg.str] ELSE promised
            /\ Return
    /\ UNCHANGED <<files, header, kills, created>>

\* Mutant: the index is one past where the bytes go.
StoreExtraIdx_OnePast == StoreField("extra_idx", "extra_idx", nb_extra + 1, "extra_bytes")

StoreExtraIdx == StoreField("extra_idx", "extra_idx", base, "extra_bytes")

StoreExtraBytes ==
    /\ pc = "extra_bytes"
    /\ IF k < Len(msg.str)
       THEN /\ nb_extra < MaxExtra
            /\ extra' = [extra EXCEPT ![nb_extra] = msg.str[k + 1]]
            /\ nb_extra' = nb_extra + 1
            /\ k' = k + 1
            /\ UNCHANGED pc
       ELSE pc' = "extra_len" /\ UNCHANGED <<extra, nb_extra, k>>
    /\ UNCHANGED <<mapping, gates, nb_gates, wires, nb_wires, header, msg, frame, base,
                   kid, kills, ghosts>>

StoreExtraLen ==
    /\ pc = "extra_len"
    /\ gates' = [gates EXCEPT ![mapping[msg.token]].extra_len = Len(msg.str)]
    /\ promised' = [promised EXCEPT ![msg.token].extra = msg.str]
    /\ Return
    /\ UNCHANGED <<mapping, nb_gates, wires, nb_wires, extra, nb_extra, header, kills, created>>

-----------------------------------------------------------------------------
(* The worker goes away.  Either way no destructor runs: a signal handler    *)
(* exits the process from wherever the main loop is, so FLAG_DIRTY stays set. *)

Terminate ==
    /\ pc = "idle" /\ opened
    /\ opened' = FALSE /\ unclean' = FALSE
    /\ UNCHANGED <<files, dirty, pc, msg, locals, kills, ghosts>>

\* MMappedVector::add is d[nb_elements++] = value; which of the two stores
\* comes first is the compiler's choice, so the count may be one ahead.
TornAdd ==
    \/ UNCHANGED files
    \/ /\ pc = "append_record" /\ nb_gates < MaxGates
       /\ nb_gates' = nb_gates + 1
       /\ UNCHANGED <<mapping, gates, wires, nb_wires, extra, nb_extra>>
    \/ /\ \/ pc = "append_wires" /\ k < Len(frame.children)
          \/ pc = "upgrade_wires" /\ k < Len(msg.children)
       /\ nb_wires < MaxWires
       /\ nb_wires' = nb_wires + 1
       /\ UNCHANGED <<mapping, gates, nb_gates, wires, extra, nb_extra>>
    \/ /\ pc = "extra_bytes" /\ k < Len(msg.str) /\ nb_extra < MaxExtra
       /\ nb_extra' = nb_extra + 1
       /\ UNCHANGED <<mapping, gates, nb_gates, wires, nb_wires, extra>>

Kill ==
    /\ pc # "idle" /\ kills < MaxKills
    /\ kills' = kills + 1
    /\ opened' = FALSE /\ unclean' = FALSE
    /\ Return
    /\ TornAdd
    /\ UNCHANGED <<dirty, ghosts>>

-----------------------------------------------------------------------------
AppendGate == AppendWires \/ AppendRecord \/ AppendPublish
StoreInfos == StoreInfo1 \/ StoreInfo2
StoreExtra == StoreExtraIdx \/ StoreExtraBytes \/ StoreExtraLen

Work ==
    \/ CreateGate \/ AppendGate \/ UpgradeWires \/ UpgradeRecord \/ Kids
    \/ SetProbLookup \/ SetProb
    \/ SetInfos \/ StoreInfos
    \/ SetExtra \/ StoreExtra

Next == (\E m \in Offered : Receive(m)) \/ Work \/ Terminate \/ Kill

Spec == Init /\ [][Next]_vars

-----------------------------------------------------------------------------
(* Properties *)

PCs == {"idle", "dispatch", "append_wires", "append_record", "append_publish",
        "upgrade_wires", "upgrade_idx", "upgrade_nb", "upgrade_type", "kids", "prob",
        "info1", "info2", "extra_idx", "extra_bytes", "extra_len"}

Promises == [prob : Probs \cup {NaN}, info1 : Infos \cup {0}, info2 : Infos \cup {0},
             extra : Extras \cup {<<>>}]

FilesType ==
    /\ mapping \in [Tokens -> Nat \cup {NOTHING}]
    /\ gates \in [0..(MaxGates - 1) -> GateInformation] /\ nb_gates \in 0..MaxGates
    /\ wires \in [0..(MaxWires - 1) -> Tokens \cup {NOTHING}] /\ nb_wires \in 0..MaxWires
    /\ extra \in [0..(MaxExtra - 1) -> Bytes \cup {NOTHING}] /\ nb_extra \in 0..MaxExtra

WorkerType ==
    /\ pc \in PCs
    /\ msg \in Messages \cup {NoMessage}
    /\ frame \in Frames \cup {NoFrame}
    /\ base \in Nat /\ k \in Nat /\ kid \in Nat
    /\ kills \in 0..MaxKills

HeaderType == dirty \in BOOLEAN /\ unclean \in BOOLEAN /\ opened \in BOOLEAN

GhostType == created \subseteq Tokens /\ promised \in [Tokens -> Promises]

\* The variables have their types; in particular no store falls outside a file.
TypeOK == FilesType /\ WorkerType /\ HeaderType /\ GhostType

\* Whatever the instant the worker is killed at, no token leads past the end
\* of the records, no record past the end of the wires or of the extra file:
\* check() finds nothing but, possibly, unreferenced records.
FilesAgree == DanglingIndices = {} /\ BadWires = {} /\ BadExtra = {}

\* Two tokens never share a record.  (An entry that is one slot off makes
\* every later gate resolve to its neighbour's record.)
OneRecordPerToken ==
    \A t, u \in Tokens : Mapped(t) /\ Mapped(u) /\ mapping[t] = mapping[u] => t = u

\* Applying a message about one token, or dying while applying it, never
\* changes anything a session can read about another token.
OnlyNamedTokenChanges ==
    [][\A t \in Tokens : Reading(t)' # Reading(t) => t = msg.token]_vars

\* A token's children read back as none or as all the children the token is
\* derived from, never as a part of them or as somebody else's.
ChildrenWhole == \A t \in Tokens : getChildren(t) \in {<<>>, Content[t].children}

\* An annotation the worker acknowledged stays readable, whatever is written
\* or interrupted afterwards, until a clearing 'P' takes a probability back.
\* (A token that turns out to be derived does not carry a probability.)
PromisesStand ==
    \A t \in Tokens :
        LET p == promised[t] IN
        /\ p.prob # NaN /\ carriesProb(Content[t].type) => hasProb(t) = p.prob
        /\ p.info1 # 0 => getInfos(t)[1] = p.info1
        /\ p.info2 # 0 => getInfos(t)[2] = p.info2
        /\ p.extra # <<>> => getExtra(t) = p.extra

\* Once the worker has applied a 'C' message to the end, the token reads back
\* as the gate it is derived from, whichever of parents and children came
\* first.  (A kill inside an upgrade leaves a record half converted.)
CreatedReadsBack ==
    kills = 0 => \A t \in created :
        getGateType(t) = Content[t].type /\ getChildren(t) = Content[t].children

-----------------------------------------------------------------------------
(* The strengthening of FilesAgree and OneRecordPerToken that is inductive.  *)

UpgradePCs == {"upgrade_wires", "upgrade_idx", "upgrade_nb", "upgrade_type"}
AppendPCs  == {"append_wires", "append_record", "append_publish"}
ExtraPCs   == {"extra_idx", "extra_bytes", "extra_len"}

\* Which handler the worker is in, and what it knows of the message's token.
Control ==
    /\ pc # "idle" => msg \in Messages
    /\ pc \in UpgradePCs \cup {"kids"} => msg.op = "C"
    /\ pc = "prob" => msg.op = "P"
    /\ pc \in {"info1", "info2"} => msg.op = "I"
    /\ pc \in ExtraPCs => msg.op = "E"
    /\ pc \in AppendPCs =>
          /\ frame \in Frames
          /\ frame.return = "kids" => msg.op = "C"
          /\ frame.return = "prob" => msg.op = "P" /\ frame.token = msg.token
    /\ pc \in UpgradePCs \cup ExtraPCs \cup {"prob", "info1", "info2"} => Mapped(msg.token)

\* How far the loops that add wires and bytes have come.
Progress ==
    /\ pc = "append_wires" => k <= Len(frame.children) /\ base + k = nb_wires
    /\ pc \in {"append_record", "append_publish"} => base + Len(frame.children) = nb_wires
    /\ pc = "upgrade_wires" => k <= Len(msg.children) /\ base + k = nb_wires
    /\ pc \in {"upgrade_idx", "upgrade_nb", "upgrade_type"} =>
          base + Len(msg.children) = nb_wires
    /\ pc \in {"upgrade_wires", "upgrade_idx"} => RecordOf(msg.token).nb_children = 0
    /\ pc \in {"upgrade_nb", "upgrade_type"} => RecordOf(msg.token).children_idx = base
    /\ pc \in ExtraPCs => RecordOf(msg.token).extra_len = 0
    /\ pc = "extra_idx" => k = 0
    /\ pc \in {"extra_idx", "extra_bytes"} => k <= Len(msg.str) /\ base + k = nb_extra
    /\ pc \in {"extra_bytes", "extra_len"} => RecordOf(msg.token).extra_idx = base
    /\ pc = "extra_len" => base + Len(msg.str) = nb_extra

\* The slots past the end are blank, and the record being published is nobody's.
Slots ==
    /\ \A i \in 0..(MaxGates - 1) : i >= nb_gates => gates[i] = BlankRecord
    /\ pc = "append_publish" =>
          nb_gates > 0 /\ \A t \in Tokens : mapping[t] # nb_gates - 1

InRange(r, nw, nx) ==
    r.children_idx + r.nb_children <= nw /\ r.extra_idx + r.extra_len <= nx

\* FilesAgree, token by token and record by record.
AllInRange ==
    /\ \A t \in Tokens : Mapped(t) => mapping[t] < nb_gates
    /\ \A i \in 0..(nb_gates - 1) : InRange(gates[i], nb_wires, nb_extra)

\* The inductive invariant: between any two stores of the worker to the files,
\* the handler is where its locals say it is, and the files agree.
StoreInv == TypeOK /\ Control /\ Progress /\ Slots /\ AllInRange /\ OneRecordPerToken

-----------------------------------------------------------------------------
(* What the files say of each token, inductive together with StoreInv.      *)

WiresHold(from, children, n) == \A i \in 1..n : wires[from + i - 1] = children[i]
BytesHold(from, str, n) == \A i \in 1..n : extra[from + i - 1] = str[i]

\* The children of a record are none or all those the token is derived from.
RecordFits(t, r) ==
    /\ r.type \in {"gate_input", Content[t].type}
    /\ r.nb_children # 0 =>
          /\ r.nb_children = Len(Content[t].children)
          /\ WiresHold(r.children_idx, Content[t].children, r.nb_children)

\* The record is that of the gate the token is derived from.
Complete(t) ==
    /\ Mapped(t) /\ RecordOf(t).type = Content[t].type
    /\ RecordOf(t).nb_children = Len(Content[t].children)

\* What was acknowledged is in the record.
Keeps(p, r) ==
    /\ p.prob # NaN => r.prob = p.prob
    /\ p.info1 # 0 => r.info1 = p.info1
    /\ p.info2 # 0 => r.info2 = p.info2
    /\ p.extra # <<>> => r.extra_len = Len(p.extra) /\ BytesHold(r.extra_idx, p.extra, r.extra_len)
NoPromise == [prob |-> NaN, info1 |-> 0, info2 |-> 0, extra |-> <<>>]

\* The append in progress is of the message's own token, or lazy-adds an input.
AppendInv ==
    pc \in AppendPCs =>
        /\ ~Mapped(frame.token)
        /\ IF frame.return = "kids" /\ frame.token = msg.token
           THEN frame.type = msg.type /\ frame.children = msg.children
           ELSE frame.type = "gate_input" /\ frame.children = <<>>
        /\ frame.return = "kids" /\ frame.token # msg.token => Mapped(msg.token)
        /\ WiresHold(base, frame.children, IF pc = "append_wires" THEN k ELSE Len(frame.children))
        /\ pc = "append_publish" =>
              gates[nb_gates - 1] = NewRecord(frame.type, Len(frame.children), base)

\* What the handler has stored so far of what it will store.
HandlerInv ==
    /\ pc # "idle" => msg \in Offered
    /\ pc = "kids" => Mapped(msg.token)
    /\ pc = "upgrade_wires" => WiresHold(base, msg.children, k)
    /\ pc \in {"upgrade_idx", "upgrade_nb"} => WiresHold(base, msg.children, Len(msg.children))
    /\ pc \in {"upgrade_wires", "upgrade_idx", "upgrade_nb"} => Placeholder(RecordOf(msg.token))
    /\ pc = "upgrade_type" => RecordOf(msg.token).nb_children = Len(msg.children)
    /\ pc \in {"info1", "info2"} => ~InfosConflict(RecordOf(msg.token), msg)
    /\ pc = "extra_bytes" => BytesHold(base, msg.str, k)
    /\ pc = "extra_len" => BytesHold(base, msg.str, Len(msg.str))

\* Where no handler was killed, what it applied to the end is there, and every
\* other record is still a placeholder.
CreatedInv ==
    kills = 0 =>
        /\ \A t \in Tokens : Mapped(t) =>
              Placeholder(RecordOf(t)) \/ Complete(t) \/ (pc = "upgrade_type" /\ t = msg.token)
        /\ \A t \in created : Complete(t)
        /\ pc \in UpgradePCs => msg.token \notin created
        /\ pc = "kids" => Complete(msg.token)
        /\ pc \in AppendPCs /\ frame.return = "kids" /\ frame.token # msg.token =>
              Complete(msg.token)

TokenInv(t) ==
    IF Mapped(t)
    THEN RecordFits(t, RecordOf(t)) /\ Keeps(promised[t], RecordOf(t))
    ELSE promised[t] = NoPromise

ContentInv == AppendInv /\ HandlerInv /\ CreatedInv /\ \A t \in Tokens : TokenInv(t)

CircuitInv == StoreInv /\ ContentInv
=============================================================================
