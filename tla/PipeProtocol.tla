---------------------------- MODULE PipeProtocol ----------------------------
(***************************************************************************)
(* The conversation between the backends and the mmap worker               *)
(* (provsql_mmap.c, provsql_mmap.h, provsql_shmem.c, CircuitFromMMap.cpp   *)
(* on one side, provsql_mmap_main_loop and provsql_mmap_dispatch on the    *)
(* other): one request pipe all backends write to, one reply pipe they all *)
(* read from, and one lock.  The pipes carry bytes without boundaries; who *)
(* holds the lock, in which mode, and how much one write() may carry is    *)
(* all that keeps messages apart and gives each reply to its asker.        *)
(*                                                                         *)
(* A byte is known by the message it belongs to and its position there.    *)
(* Scalars, object identifiers and opcodes are one byte wide, a UUID is    *)
(* Uuid bytes.  A reply is a sequence of units, one for each WRITEB of the *)
(* worker and READB of the backend.  What the requests do to the store is  *)
(* the matter of MMappedCircuit.                                           *)
(***************************************************************************)
EXTENDS Integers, Sequences, FiniteSets

CONSTANTS
    Sessions,    \* the backends
    Startup,     \* PostgreSQL's startup process, which replays the WAL
    Requests,    \* the requests backends make: [op, n], n the UUIDs in the tail
    Records,     \* the store messages in the WAL: a sequence of requests
    Uuid,        \* sizeof(pg_uuid_t)
    PIPE_BUF,    \* the largest write() that is atomic
    PipeCap,     \* the capacity of the request pipe, in bytes
    ReplyCap,    \* the capacity of the reply pipe, in units
    MaxCalls,    \* [Sessions -> Nat]: bound on the requests of a backend
    KillPoints,  \* where SIGTERM may end the worker
    MaxKills,    \* bound on how often it does
    None

Procs == Sessions \cup {Startup}

\* The requests about one token that carry nothing else.
TokenOps == {"q", "t", "c", "p", "i", "e", "g"}
Ops == TokenOps \cup {"C", "P", "I", "E", "n", "X", "S", "k", "j"}
StoreWrites == {"C", "P", "I", "E"}

Calls == [op : Ops, n : Nat]

\* The fields of a message before its tail of UUIDs, by where each ends: the
\* opcode and the two object identifiers of the header, then what the handler reads.
HeadEnds(op) ==
    CASE op \in {"C", "I", "E"} -> <<1, 2, 3, 3 + Uuid, 4 + Uuid, 5 + Uuid>>
      [] op = "P" -> <<1, 2, 3, 3 + Uuid, 4 + Uuid>>
      [] op = "X" -> <<1, 2, 3, 4, 5>>
      [] op = "j" -> <<1, 2, 3, 4>>
      [] op \in TokenOps -> <<1, 2, 3, 3 + Uuid>>
      [] op \in {"n", "S", "k"} -> <<1, 2, 3>>

HeadFields(op) == Len(HeadEnds(op))
HeadLength(op) == HeadEnds(op)[HeadFields(op)]

\* The number of fields of a message and of its bytes.
Fields(m) == HeadFields(m.op) + m.n
Length(m) == HeadLength(m.op) + m.n * Uuid

\* The bytes of m up to the end of its field f.
End(m, f) ==
    CASE f = 0 -> 0
      [] f \in 1..HeadFields(m.op) -> HeadEnds(m.op)[f]
      [] f > HeadFields(m.op) -> HeadLength(m.op) + (f - HeadFields(m.op)) * Uuid

ASSUME SizeAssumption ==
    /\ {Uuid, PIPE_BUF, PipeCap, ReplyCap} \subseteq Nat \ {0}
    /\ PIPE_BUF % Uuid = 0 /\ PipeCap >= PIPE_BUF
    /\ \A op \in Ops : HeadLength(op) <= PIPE_BUF
ASSUME CallAssumption ==
    /\ Requests \subseteq Calls /\ Records \in Seq([op : StoreWrites, n : Nat])
    /\ \A r \in Requests : r.op \in {"C", "X"} \/ Length(r) <= PIPE_BUF
    /\ \A r \in Requests : r.n > 0 => r.op \in {"C", "X", "j"}
ASSUME ProcAssumption == Startup \notin Sessions /\ None \notin Procs
ASSUME BoundAssumption ==
    /\ MaxCalls \in [Sessions -> Nat] /\ MaxKills \in Nat
    /\ KillPoints \subseteq {"poll", "field", "reply"}

Messages == [from : Procs, seq : Nat, op : Ops, n : Nat]

VARIABLES
    lock,        \* [shared, exclusive]: who holds the LWLock
    pipe,        \* the bytes in the request pipe
    replies,     \* the units in the reply pipe, each the message it answers
    pc,          \* where each process is in its request
    cur,         \* its request
    sent,        \* the bytes of it that are written
    got,         \* the units of the reply that are read
    calls,       \* the requests it made
    recovering,  \* RecoveryInProgress()
    worker,      \* the worker: where it is, the message and field it reads
    applied,     \* the messages dispatched to the end, by sender and number
    kills

client == <<pc, cur, sent, got, calls>>
vars == <<lock, pipe, replies, client, recovering, worker, applied, kills>>

-----------------------------------------------------------------------------
(* How a request is written *)

NoMessage == [from |-> Startup, seq |-> 0, op |-> "n", n |-> 0]

\* Mutant: the test forgets the head that is already in the buffer.
OneWrite_NoHead(m) == PIPE_BUF > m.n * Uuid

\* provsql_internal_create_gate: the children fit the buffer.
OneWrite(m) == PIPE_BUF - HeadLength(m.op) > m.n * Uuid

Smaller(x, y) == IF x <= y THEN x ELSE y

\* The bytes of the next write() of m: the WAL record in pieces of PIPE_BUF,
\* a large message as its head and then batches of whole UUIDs, any other
\* message at once.
Chunk(p, m) ==
    IF p = Startup THEN Smaller(PIPE_BUF, Length(m) - sent[p])
    ELSE IF m.op = "X" \/ (m.op = "C" /\ ~OneWrite(m))
    THEN IF sent[p] = 0 THEN HeadLength(m.op)
         ELSE Smaller((PIPE_BUF \div Uuid) * Uuid, Length(m) - sent[p])
    ELSE Length(m)

\* Only a gate creation that is one atomic write does without exclusion.
Shares(p, m) == p # Startup /\ m.op = "C" /\ OneWrite(m)

ReplyUnits(op) ==
    CASE op = "C" -> 0
      [] op \in {"t", "n", "p", "S"} -> 1
      [] op \in {"P", "q", "E", "c", "i", "e", "g", "j"} -> 2
      [] op = "I" -> 3
      [] op = "X" -> 6
      [] op = "k" -> 8

\* Mutant: the stored value that ends the reply to a 'P' is left in the pipe.
Awaits_NoValue(p, op) ==
    IF p = Startup THEN (IF op = "P" THEN ReplyUnits("P") ELSE 0)
    ELSE IF op = "P" THEN 1 ELSE ReplyUnits(op)

\* What the sender reads back.  Replay reads the reply to a 'P' only.
Awaits(p, op) ==
    IF p = Startup THEN (IF op = "P" THEN ReplyUnits("P") ELSE 0) ELSE ReplyUnits(op)

-----------------------------------------------------------------------------
Init ==
    /\ lock = [shared |-> {}, exclusive |-> None]
    /\ pipe = <<>> /\ replies = <<>>
    /\ pc = [p \in Procs |-> "idle"]
    /\ cur = [p \in Procs |-> NoMessage]
    /\ sent = [p \in Procs |-> 0]
    /\ got = [p \in Procs |-> 0]
    /\ calls = [p \in Procs |-> 0]
    /\ recovering = (Len(Records) > 0)
    /\ worker = [at |-> "poll", m |-> NoMessage, f |-> 0, r |-> 0]
    /\ applied = {} /\ kills = 0

Message(p, r) == [from |-> p, seq |-> calls[p] + 1, op |-> r.op, n |-> r.n]

StartCall(p, r) ==
    /\ pc[p] = "idle"
    /\ pc' = [pc EXCEPT ![p] = "locking"]
    /\ cur' = [cur EXCEPT ![p] = Message(p, r)]
    /\ calls' = [calls EXCEPT ![p] = @ + 1]
    /\ sent' = [sent EXCEPT ![p] = 0] /\ got' = [got EXCEPT ![p] = 0]
    /\ UNCHANGED <<lock, pipe, replies, recovering, worker, applied, kills>>

\* A backend's request; a write is refused on a standby.
Request(s, r) ==
    /\ calls[s] < MaxCalls[s]
    /\ r.op \in StoreWrites => ~recovering
    /\ StartCall(s, r)

\* provsql_rmgr_redo: the next record of the WAL.
Redo ==
    /\ recovering /\ calls[Startup] < Len(Records)
    /\ StartCall(Startup, Records[calls[Startup] + 1])

Promote ==
    /\ recovering /\ pc[Startup] = "idle" /\ calls[Startup] = Len(Records)
    /\ recovering' = FALSE
    /\ UNCHANGED <<lock, pipe, replies, client, worker, applied, kills>>

Acquire(p) ==
    /\ pc[p] = "locking" /\ lock.exclusive = None
    /\ IF Shares(p, cur[p]) THEN lock' = [lock EXCEPT !.shared = @ \cup {p}]
       ELSE lock.shared = {} /\ lock' = [lock EXCEPT !.exclusive = p]
    /\ pc' = [pc EXCEPT ![p] = "sending"]
    /\ UNCHANGED <<pipe, replies, cur, sent, got, calls, recovering, worker, applied, kills>>

\* Mutant: an exclusive holder forgets to unlock.
Release_SharedOnly(p) == [lock EXCEPT !.shared = @ \ {p}]

Release(p) ==
    [shared |-> lock.shared \ {p},
     exclusive |-> IF lock.exclusive = p THEN None ELSE lock.exclusive]

\* One write(), which waits for room for all of it.  A write of more than
\* PIPE_BUF bytes would not be atomic: it would go in pieces of any size.
Send(p) == \E size \in (IF Chunk(p, cur[p]) <= PIPE_BUF THEN {Chunk(p, cur[p])}
                        ELSE 1..Chunk(p, cur[p])) :
    LET m == cur[p]
        total == sent[p] + size
    IN /\ pc[p] = "sending" /\ Len(pipe) + size <= PipeCap
       /\ pipe' = pipe \o [i \in 1..size |-> [m |-> m, pos |-> sent[p] + i]]
       /\ sent' = [sent EXCEPT ![p] = total]
       /\ IF total < Length(m) THEN UNCHANGED <<pc, lock>>
          ELSE IF Awaits(p, m.op) > 0
          THEN pc' = [pc EXCEPT ![p] = "awaiting"] /\ UNCHANGED lock
          ELSE pc' = [pc EXCEPT ![p] = "idle"] /\ lock' = Release(p)
       /\ UNCHANGED <<replies, cur, got, calls, recovering, worker, applied, kills>>

\* One READB.  provsql_fetch_gate asks for the children in the critical
\* section in which it asked for the type.
ReadReply(p) ==
    /\ pc[p] = "awaiting" /\ replies # <<>>
    /\ replies' = Tail(replies)
    /\ IF got[p] + 1 < Awaits(p, cur[p].op)
       THEN /\ got' = [got EXCEPT ![p] = @ + 1]
            /\ UNCHANGED <<pc, cur, sent, lock, calls>>
       ELSE IF cur[p].op = "t"
       THEN /\ cur' = [cur EXCEPT ![p] = Message(p, [op |-> "c", n |-> 0])]
            /\ calls' = [calls EXCEPT ![p] = @ + 1]
            /\ pc' = [pc EXCEPT ![p] = "sending"]
            /\ sent' = [sent EXCEPT ![p] = 0] /\ got' = [got EXCEPT ![p] = 0]
            /\ UNCHANGED lock
       ELSE /\ pc' = [pc EXCEPT ![p] = "idle"]
            /\ lock' = Release(p)
            /\ UNCHANGED <<cur, sent, got, calls>>
    /\ UNCHANGED <<pipe, recovering, worker, applied, kills>>

-----------------------------------------------------------------------------
(* The worker *)

\* READM(c, char): a byte that is no opcode ends the worker.
ReadOpcode ==
    /\ worker.at = "poll" /\ pipe # <<>>
    /\ pipe' = Tail(pipe)
    /\ worker' = IF pipe[1].pos = 1
                 THEN [at |-> "field", m |-> pipe[1].m, f |-> 2, r |-> 0]
                 ELSE [worker EXCEPT !.at = "dead"]
    /\ UNCHANGED <<lock, replies, client, recovering, applied, kills>>

\* READM: one read() of the field's width; fewer bytes are an error, and an
\* error ends the worker.
ReadField ==
    LET size == End(worker.m, worker.f) - End(worker.m, worker.f - 1)
    IN /\ worker.at = "field" /\ worker.f <= Fields(worker.m) /\ pipe # <<>>
       /\ IF Len(pipe) >= size
          THEN /\ pipe' = SubSeq(pipe, size + 1, Len(pipe))
               /\ worker' = [worker EXCEPT !.f = @ + 1]
          ELSE pipe' = <<>> /\ worker' = [worker EXCEPT !.at = "dead"]
       /\ UNCHANGED <<lock, replies, client, recovering, applied, kills>>

\* Mutant: gate creations are put aside and applied later.
Apply_DefersCreations ==
    /\ worker.at = "field" /\ worker.f > Fields(worker.m)
    /\ applied' = IF worker.m.op = "C" THEN applied
                  ELSE applied \cup {<<worker.m.from, worker.m.seq>>}
    /\ worker' = [worker EXCEPT !.at = IF ReplyUnits(worker.m.op) = 0 THEN "poll" ELSE "reply"]
    /\ UNCHANGED <<lock, pipe, replies, client, recovering, kills>>

Apply ==
    /\ worker.at = "field" /\ worker.f > Fields(worker.m)
    /\ applied' = applied \cup {<<worker.m.from, worker.m.seq>>}
    /\ worker' = [worker EXCEPT !.at = IF ReplyUnits(worker.m.op) = 0 THEN "poll" ELSE "reply"]
    /\ UNCHANGED <<lock, pipe, replies, client, recovering, kills>>

\* One WRITEB, which waits for room.
Reply ==
    /\ worker.at = "reply" /\ Len(replies) < ReplyCap
    /\ replies' = Append(replies, worker.m)
    /\ worker' = [worker EXCEPT !.r = @ + 1,
                     !.at = IF worker.r + 1 = ReplyUnits(worker.m.op) THEN "poll" ELSE "reply"]
    /\ UNCHANGED <<lock, pipe, client, recovering, applied, kills>>

\* provsql_worker_die: SIGTERM, from pg_terminate_backend or a shutdown.
Kill ==
    /\ worker.at \in KillPoints /\ kills < MaxKills
    /\ worker' = [worker EXCEPT !.at = "dead"]
    /\ kills' = kills + 1
    /\ UNCHANGED <<lock, pipe, replies, client, recovering, applied>>

\* The postmaster starts it again (bgw_restart_time); the pipes are as they were.
Restart ==
    /\ worker.at = "dead"
    /\ worker' = [at |-> "poll", m |-> NoMessage, f |-> 0, r |-> 0]
    /\ UNCHANGED <<lock, pipe, replies, client, recovering, applied, kills>>

Work == ReadOpcode \/ ReadField \/ Apply \/ Reply \/ Restart

Next ==
    \/ \E s \in Sessions, r \in Requests : Request(s, r)
    \/ Redo \/ Promote
    \/ \E p \in Procs : Acquire(p) \/ Send(p) \/ ReadReply(p)
    \/ Work \/ Kill

Spec == Init /\ [][Next]_vars

\* The worker runs, blocked calls that can go on do, and recovery goes on.
Fairness ==
    /\ WF_vars(Work) /\ WF_vars(Redo) /\ WF_vars(Promote)
    /\ \A p \in Procs : WF_vars(Acquire(p)) /\ WF_vars(Send(p)) /\ WF_vars(ReadReply(p))

FairSpec == Spec /\ Fairness

-----------------------------------------------------------------------------
(* Properties *)

\* The variables have their types; neither pipe ever holds more than its capacity,
\* and no byte lies past the end of its message.
TypeOK ==
    /\ lock \in [shared : SUBSET Procs, exclusive : Procs \cup {None}]
    /\ pipe \in Seq([m : Messages, pos : Nat \ {0}]) /\ Len(pipe) <= PipeCap
    /\ \A i \in 1..Len(pipe) : pipe[i].pos <= Length(pipe[i].m)
    /\ replies \in Seq(Messages) /\ Len(replies) <= ReplyCap
    /\ pc \in [Procs -> {"idle", "locking", "sending", "awaiting"}]
    /\ cur \in [Procs -> Messages]
    /\ sent \in [Procs -> Nat] /\ got \in [Procs -> Nat] /\ calls \in [Procs -> Nat]
    /\ recovering \in BOOLEAN
    /\ worker \in [at : {"poll", "field", "reply", "dead"}, m : Messages, f : Nat, r : Nat]
    /\ applied \subseteq Procs \X Nat
    /\ kills \in 0..MaxKills

\* The bytes of the message being read that the worker has consumed.
Consumed == End(worker.m, worker.f - 1)

\* The request pipe holds whole messages, one after the other: the first byte
\* is the one the worker expects, and no message is interleaved with another.
Framed ==
    /\ \A i \in 1..(Len(pipe) - 1) :
          pipe[i + 1] = IF pipe[i].pos < Length(pipe[i].m)
                        THEN [pipe[i] EXCEPT !.pos = @ + 1]
                        ELSE [m |-> pipe[i + 1].m, pos |-> 1]
    /\ pipe # <<>> =>
          pipe[1] = IF worker.at = "field" /\ worker.f <= Fields(worker.m)
                    THEN [m |-> worker.m, pos |-> Consumed + 1]
                    ELSE [m |-> pipe[1].m, pos |-> 1]

\* A write never ends in the middle of a field, so the read() of a field never
\* comes back short and the worker never gives up on a message.
NeverShort ==
    worker.at = "field" /\ worker.f <= Fields(worker.m) /\ pipe # <<>>
        => Consumed + Len(pipe) >= End(worker.m, worker.f)

\* With the types of the variables: the bytes in the request pipe are whole
\* messages, and no field of one is ever read short.
PipeInv == TypeOK /\ Framed /\ NeverShort

\* Whatever is in the reply pipe answers the request of the one process that
\* is waiting for a reply.
AnswersTheAsker ==
    \A i \in 1..Len(replies) :
        LET asker == replies[i].from
        IN /\ pc[asker] = "awaiting" /\ cur[asker] = replies[i]
           /\ \A p \in Procs : pc[p] = "awaiting" => p = asker

\* A reply, the sync barrier's above all, proves that every earlier message of
\* that backend has been applied, not merely queued.
ReplyProvesApplied ==
    \A i \in 1..Len(replies) :
        \A k \in 1..replies[i].seq : <<replies[i].from, k>> \in applied

\* Every request comes to its end.
EveryCallReturns == \A p \in Procs : pc[p] # "idle" ~> pc[p] = "idle"

=============================================================================
