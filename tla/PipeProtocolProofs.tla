------------------------- MODULE PipeProtocolProofs -------------------------
(***************************************************************************)
(* For every number of backends, every size of a pipe, of PIPE_BUF and of  *)
(* the requests: as long as the worker is not ended within a message and   *)
(* every record that is replayed is one write whose reply recovery reads   *)
(* (Orderly), the bytes in the request pipe are whole messages, a reply    *)
(* goes to the process that asked, and it proves that all its sender wrote *)
(* before has been applied.                                                *)
(***************************************************************************)
EXTENDS PipeProtocol, SequenceTheorems, TLAPS

-----------------------------------------------------------------------------
(* When the promises hold *)

\* A record that provsql_replay_store_message writes at once and answers in full.
OneShot(r) == r.op \in {"C", "P"} /\ Length(r) <= PIPE_BUF

\* The worker was only ended between messages, and what was replayed was OneShot.
Orderly ==
    /\ kills = 0 \/ KillPoints \subseteq {"poll"}
    /\ \A k \in 1..calls[Startup] : k <= Len(Records) => OneShot(Records[k])

-----------------------------------------------------------------------------
(* The processes and the lock, whatever happened *)

\* The messages whose tail goes in writes of its own.
Batched(m) == m.op = "X" \/ (m.op = "C" /\ ~OneWrite(m))

\* A request under way is the last one its process made, and one it may make.
Current(p) ==
    pc[p] # "idle" =>
        /\ cur[p].from = p /\ cur[p].seq = calls[p]
        /\ IF p = Startup
           THEN /\ calls[p] \in 1..Len(Records)
                /\ cur[p].op = Records[calls[p]].op /\ cur[p].n = Records[calls[p]].n
           ELSE \/ cur[p].op = "c" /\ cur[p].n = 0
                \/ \E r \in Requests : cur[p].op = r.op /\ cur[p].n = r.n

\* Between two writes a backend is at the end of a field, past the head.
Written(p) ==
    /\ pc[p] = "locking" => sent[p] = 0 /\ got[p] = 0
    /\ pc[p] = "sending" =>
          /\ sent[p] < Length(cur[p]) /\ got[p] = 0
          /\ sent[p] > 0 =>
                IF p = Startup THEN Length(cur[p]) > PIPE_BUF
                ELSE Batched(cur[p]) /\ \E f \in HeadFields(cur[p].op)..Fields(cur[p]) : sent[p] = End(cur[p], f)

\* One exclusive holder or several shared ones, which write their message at once.
Locked ==
    /\ lock.exclusive # None =>
          lock.shared = {} /\ pc[lock.exclusive] \in {"sending", "awaiting"}
    /\ \A p \in lock.shared : pc[p] = "sending" /\ Shares(p, cur[p])
    /\ \A p \in Procs : pc[p] = "awaiting" => lock.exclusive = p
    /\ \A p \in Procs : pc[p] = "sending" => lock.exclusive = p \/ p \in lock.shared

\* How far the worker is in its message.
Handling ==
    /\ worker.at = "field" => worker.f \in 2..(Fields(worker.m) + 1) /\ worker.r = 0
    /\ worker.at = "reply" => worker.r < ReplyUnits(worker.m.op)

Base ==
    /\ TypeOK /\ Locked /\ Handling
    /\ \A p \in Procs : Current(p) /\ Written(p)

-----------------------------------------------------------------------------
(* The bytes *)

Reading == worker.at = "field" /\ worker.f <= Fields(worker.m)
Busy == worker.at \in {"field", "reply"}
Last == pipe[Len(pipe)]

\* A message that has begun goes on to its end, another follows at once, and
\* none is there twice.
Contiguous ==
    /\ \A i, j \in 1..Len(pipe) :
          i <= j /\ pipe[i].pos + (j - i) <= Length(pipe[i].m)
              => pipe[j].m = pipe[i].m /\ pipe[j].pos = pipe[i].pos + (j - i)
    /\ \A i \in 1..Len(pipe) :
          i < Len(pipe) /\ pipe[i].pos = Length(pipe[i].m) => pipe[i + 1].pos = 1
    /\ \A i, j \in 1..Len(pipe) :
          i <= j /\ pipe[i].m = pipe[j].m => pipe[j].pos = pipe[i].pos + (j - i)

\* The first byte is the one the worker reads next.
FirstByte ==
    pipe # <<>> => IF Reading THEN pipe[1].m = worker.m /\ pipe[1].pos = Consumed + 1
                   ELSE pipe[1].pos = 1

Sent(m, k) == pc[m.from] = "sending" /\ cur[m.from] = m /\ sent[m.from] = k

\* The last byte ends a message or is the last its sender wrote.
LastByte ==
    /\ pipe # <<>> => Last.pos = Length(Last.m) \/ Sent(Last.m, Last.pos)
    /\ pipe = <<>> /\ Reading => Sent(worker.m, Consumed)
    /\ \A p \in Procs : pc[p] = "sending" /\ sent[p] > 0 =>
          IF pipe # <<>> THEN Last.m = cur[p] /\ Last.pos = sent[p]
          ELSE Reading /\ worker.m = cur[p] /\ Consumed = sent[p]

\* What is left in the pipe of the message the worker has is the rest of it.
Rest ==
    /\ worker.at = "field" =>
          \A i \in 1..Len(pipe) : pipe[i].m = worker.m => pipe[i].pos = Consumed + i
    /\ worker.at = "reply" => \A i \in 1..Len(pipe) : pipe[i].m # worker.m

\* A message of which something was written: not one that has yet to be.
Begun(m) ==
    /\ m.seq <= calls[m.from]
    /\ pc[m.from] = "locking" \/ (pc[m.from] = "sending" /\ sent[m.from] = 0)
          => m.seq < calls[m.from]

BegunAll == (\A i \in 1..Len(pipe) : Begun(pipe[i].m)) /\ (Busy => Begun(worker.m))

Stream == Contiguous /\ FirstByte /\ LastByte /\ Rest /\ BegunAll

-----------------------------------------------------------------------------
(* The replies *)

\* Only the request of a process that is still in it is answered.
Wanted(m) ==
    ReplyUnits(m.op) = 0 \/ (pc[m.from] \in {"sending", "awaiting"} /\ cur[m.from] = m)

WantedAll == (\A i \in 1..Len(pipe) : Wanted(pipe[i].m)) /\ (Busy => Wanted(worker.m))

InFlight(m) ==
    \/ \E i \in 1..Len(pipe) : pipe[i].m = m
    \/ worker.at = "field" /\ worker.m = m

\* Each unit of the awaited reply is read, in the pipe, or yet to be written.
Counted(p) ==
    pc[p] = "awaiting" =>
        /\ got[p] < ReplyUnits(cur[p].op)
        /\ InFlight(cur[p]) => got[p] = 0 /\ replies = <<>>
        /\ worker.at = "reply" => worker.r = got[p] + Len(replies)
        /\ worker.at # "reply" /\ ~InFlight(cur[p]) =>
              got[p] + Len(replies) = ReplyUnits(cur[p].op)

Exchange == WantedAll /\ AnswersTheAsker /\ \A p \in Procs : Counted(p)

-----------------------------------------------------------------------------
(* The order *)

Done(p, k) == <<p, k>> \in applied
AtHand(p, k) == worker.at = "field" /\ worker.m.from = p /\ worker.m.seq = k
Queued(p, k, l) == \E j \in 1..l : pipe[j].m.from = p /\ pipe[j].m.seq = k

\* Everything a process asked is applied, at hand or in the pipe, but for the
\* request it has yet to write; and the pipe keeps each sender's order.
Ordered ==
    /\ \A p \in Procs : \A k \in 1..calls[p] :
          \/ Done(p, k) \/ AtHand(p, k) \/ Queued(p, k, Len(pipe))
          \/ k = calls[p] /\ (pc[p] = "locking" \/ (pc[p] = "sending" /\ sent[p] = 0))
    /\ \A i \in 1..Len(pipe) : \A k \in 1..pipe[i].m.seq :
          LET p == pipe[i].m.from
          IN k < pipe[i].m.seq => Done(p, k) \/ AtHand(p, k) \/ Queued(p, k, i - 1)
    /\ Busy => \A k \in 1..worker.m.seq : k < worker.m.seq => Done(worker.m.from, k)
    /\ worker.at = "reply" => Done(worker.m.from, worker.m.seq)

Promises == Stream /\ Exchange /\ Ordered /\ ReplyProvesApplied

Inv == Base /\ (Orderly => Promises)

-----------------------------------------------------------------------------
(* Sizes *)

\* The ends of the fields of a head increase, from 1 on.
LEMMA HeadFacts ==
    ASSUME NEW op \in Ops
    PROVE  /\ HeadFields(op) \in 3..6 /\ HeadLength(op) \in Nat /\ HeadLength(op) <= PIPE_BUF
           /\ HeadLength(op) = HeadEnds(op)[HeadFields(op)] /\ HeadEnds(op)[1] = 1
           /\ \A f \in 1..HeadFields(op) : HeadEnds(op)[f] \in Nat
           /\ \A f, g \in 1..HeadFields(op) : f < g => HeadEnds(op)[f] < HeadEnds(op)[g]
<1>1. Uuid \in Nat /\ Uuid > 0
  BY SizeAssumption
<1>8. HeadLength(op) <= PIPE_BUF
  BY SizeAssumption
<1>2. CASE op \in {"C", "I", "E"}
  <2>1. HeadEnds(op) = <<1, 2, 3, 3 + Uuid, 4 + Uuid, 5 + Uuid>>
    BY <1>2 DEF HeadEnds, TokenOps
  <2>2. HeadFields(op) = 6
    BY <2>1 DEF HeadFields
  <2>3. HeadLength(op) = HeadEnds(op)[6]
    BY <2>2 DEF HeadLength
  <2>4. QED
    BY <1>1, <1>8, <2>1, <2>2, <2>3
<1>3. CASE op = "P"
  <2>1. HeadEnds(op) = <<1, 2, 3, 3 + Uuid, 4 + Uuid>>
    BY <1>3 DEF HeadEnds, TokenOps
  <2>2. HeadFields(op) = 5
    BY <2>1 DEF HeadFields
  <2>3. HeadLength(op) = HeadEnds(op)[5]
    BY <2>2 DEF HeadLength
  <2>4. QED
    BY <1>1, <1>8, <2>1, <2>2, <2>3
<1>4. CASE op = "X"
  <2>1. HeadEnds(op) = <<1, 2, 3, 4, 5>>
    BY <1>4 DEF HeadEnds, TokenOps
  <2>2. HeadFields(op) = 5
    BY <2>1 DEF HeadFields
  <2>3. HeadLength(op) = HeadEnds(op)[5]
    BY <2>2 DEF HeadLength
  <2>4. QED
    BY <1>1, <1>8, <2>1, <2>2, <2>3
<1>5. CASE op = "j"
  <2>1. HeadEnds(op) = <<1, 2, 3, 4>>
    BY <1>5 DEF HeadEnds, TokenOps
  <2>2. HeadFields(op) = 4
    BY <2>1 DEF HeadFields
  <2>3. HeadLength(op) = HeadEnds(op)[4]
    BY <2>2 DEF HeadLength
  <2>4. QED
    BY <1>1, <1>8, <2>1, <2>2, <2>3
<1>6. CASE op \in TokenOps
  <2>1. HeadEnds(op) = <<1, 2, 3, 3 + Uuid>>
    BY <1>6 DEF HeadEnds, TokenOps
  <2>2. HeadFields(op) = 4
    BY <2>1 DEF HeadFields
  <2>3. HeadLength(op) = HeadEnds(op)[4]
    BY <2>2 DEF HeadLength
  <2>4. QED
    BY <1>1, <1>8, <2>1, <2>2, <2>3
<1>7. CASE op \in {"n", "S", "k"}
  <2>1. HeadEnds(op) = <<1, 2, 3>>
    BY <1>7 DEF HeadEnds, TokenOps
  <2>2. HeadFields(op) = 3
    BY <2>1 DEF HeadFields
  <2>3. HeadLength(op) = HeadEnds(op)[3]
    BY <2>2 DEF HeadLength
  <2>4. QED
    BY <1>1, <1>8, <2>1, <2>2, <2>3
<1> QED
  BY <1>2, <1>3, <1>4, <1>5, <1>6, <1>7 DEF Ops, TokenOps

LEMMA EndValues ==
    ASSUME NEW m \in Messages
    PROVE  /\ Fields(m) \in Nat /\ Fields(m) >= 3 /\ Length(m) \in Nat
           /\ End(m, 0) = 0 /\ End(m, 1) = 1 /\ End(m, Fields(m)) = Length(m)
           /\ \A f \in 0..Fields(m) : End(m, f) \in Nat
<1> DEFINE h == HeadFields(m.op)
<1>1. m.op \in Ops /\ m.n \in Nat /\ h \in 3..6 /\ Uuid \in Nat
  BY HeadFacts, SizeAssumption DEF Messages
<1>2. HeadLength(m.op) \in Nat /\ m.n * Uuid \in Nat
  BY <1>1, HeadFacts
<1>3. Fields(m) = h + m.n /\ Length(m) = HeadLength(m.op) + m.n * Uuid
  BY DEF Fields, Length
<1>4. End(m, 0) = 0 /\ End(m, 1) = 1
  BY <1>1, HeadFacts DEF End
<1>5. ASSUME NEW f \in 0..Fields(m)
      PROVE  End(m, f) \in Nat
  <2>1. CASE f = 0
    BY <2>1, <1>4
  <2>2. CASE f \in 1..h
    BY <2>2, <1>1, HeadFacts DEF End
  <2>3. CASE f > h
    <3>1. f - h \in Nat /\ f # 0 /\ f \notin 1..h
      BY <2>3, <1>1, <1>3
    <3>2. PICK a \in Nat : a = f - h
      BY <3>1
    <3>4. (f - h) * Uuid \in Nat
      BY <3>2, <1>1
    <3>3. End(m, f) = HeadLength(m.op) + (f - h) * Uuid
      BY <3>1, <2>3 DEF End
    <3> QED
      BY <3>3, <3>4, <1>2
  <2> QED
    BY <2>1, <2>2, <2>3, <1>1, <1>3
<1>6. End(m, Fields(m)) = Length(m)
  <2>1. CASE m.n = 0
    BY <2>1, <1>1, <1>3, HeadFacts DEF End
  <2>2. CASE m.n > 0
    <3>1. Fields(m) # 0 /\ Fields(m) \notin 1..h /\ Fields(m) > h /\ Fields(m) - h = m.n
      BY <2>2, <1>1, <1>3
    <3> QED
      BY <3>1, <1>3 DEF End
  <2> QED
    BY <2>1, <2>2, <1>1
<1> QED
  BY <1>1, <1>2, <1>3, <1>4, <1>5, <1>6

\* The ends of the fields of a message increase.
LEMMA EndIncreases ==
    ASSUME NEW m \in Messages, NEW f \in 0..Fields(m), NEW g \in 0..Fields(m), f < g
    PROVE  End(m, f) < End(m, g)
<1> DEFINE h == HeadFields(m.op)
<1>1. m.op \in Ops /\ m.n \in Nat /\ h \in 3..6 /\ Uuid \in Nat /\ Uuid > 0
  BY HeadFacts, SizeAssumption DEF Messages
<1>2. f \in Nat /\ g \in Nat
  BY EndValues
<1>3. \A k \in 1..h : End(m, k) = HeadEnds(m.op)[k] /\ End(m, k) \in Nat /\ End(m, k) >= 1
                      /\ End(m, k) <= HeadLength(m.op)
  <2>1. TAKE k \in 1..h
  <2>2. End(m, k) = HeadEnds(m.op)[k]
    BY <1>1 DEF End
  <2> QED
    BY <2>2, <1>1, HeadFacts
<1>4. \A k \in Nat : k > h => End(m, k) = HeadLength(m.op) + (k - h) * Uuid
  BY <1>1 DEF End
<1>5. CASE g <= h
  <2>1. CASE f = 0
    BY <2>1, <1>2, <1>3, <1>5, EndValues
  <2>2. CASE f > 0
    BY <2>2, <1>1, <1>2, <1>3, <1>5, HeadFacts
  <2> QED
    BY <2>1, <2>2, <1>2
<1>6. CASE g > h
  <2>1. g - h \in Nat /\ g - h > 0 /\ HeadLength(m.op) \in Nat /\ 0 * Uuid = 0
    BY <1>1, <1>2, <1>6, HeadFacts
  <2>5. PICK b \in Nat : b = g - h
    BY <2>1
  <2>2. (g - h) * Uuid > 0 /\ (g - h) * Uuid \in Nat
    <3>1. b * Uuid \in Nat /\ 0 * Uuid < b * Uuid
      BY <2>1, <2>5, <1>1
    <3> QED
      BY <3>1, <2>1, <2>5
  <2>3. CASE f <= h
    <3>1. End(m, f) <= HeadLength(m.op) /\ End(m, f) \in Nat
      BY <2>1, <2>3, <1>1, <1>2, <1>3, EndValues
    <3> QED
      BY <3>1, <2>1, <2>2, <1>2, <1>4, <1>6
  <2>4. CASE f > h
    <3>1. f - h \in Nat /\ f - h < g - h
      BY <2>4, <1>1, <1>2
    <3>2. (f - h) * Uuid < (g - h) * Uuid /\ (f - h) * Uuid \in Nat
      <4>1. PICK a \in Nat : a = f - h
        BY <3>1
      <4>2. a * Uuid < b * Uuid /\ a * Uuid \in Nat
        BY <3>1, <4>1, <2>5, <1>1
      <4> QED
        BY <4>1, <4>2, <2>5
    <3> QED
      BY <3>2, <2>1, <2>2, <2>4, <1>2, <1>4, <1>6
  <2> QED
    BY <2>3, <2>4, <1>1, <1>2
<1> QED
  BY <1>5, <1>6, <1>1, <1>2

-----------------------------------------------------------------------------
(* A write *)

\* A batch is PIPE_BUF bytes: whole UUIDs.
LEMMA BatchSize ==
    /\ PIPE_BUF \div Uuid \in Nat \ {0} /\ (PIPE_BUF \div Uuid) * Uuid = PIPE_BUF
    /\ PIPE_BUF \in Nat \ {0}
<1>1. /\ PIPE_BUF \div Uuid \in Nat /\ (PIPE_BUF \div Uuid) * Uuid = PIPE_BUF
      /\ PIPE_BUF \in Nat \ {0} /\ Uuid \in Nat
  BY SizeAssumption
<1> QED
  BY <1>1

\* A batch that starts at the end of a field and does not end the message ends
\* at the end of a field.
LEMMA BatchAligned ==
    ASSUME NEW m \in Messages, NEW f \in HeadFields(m.op)..Fields(m),
           End(m, f) + PIPE_BUF < Length(m)
    PROVE  \E g \in HeadFields(m.op)..Fields(m) : End(m, f) + PIPE_BUF = End(m, g)
<1> DEFINE h == HeadFields(m.op)
           c == PIPE_BUF \div Uuid
<1>1. /\ m.op \in Ops /\ m.n \in Nat /\ h \in 3..6 /\ Uuid \in Nat \ {0}
      /\ HeadLength(m.op) \in Nat /\ c \in Nat /\ c * Uuid = PIPE_BUF /\ f \in Nat
  BY HeadFacts, SizeAssumption, BatchSize, EndValues DEF Messages
<1>2. \A k \in Nat : k >= h => End(m, k) = HeadLength(m.op) + (k - h) * Uuid
  <2>1. TAKE k \in Nat
  <2>2. HAVE k >= h
  <2>3. CASE k = h
    <3>1. End(m, k) = HeadLength(m.op) /\ (k - h) * Uuid = 0
      BY <2>3, <1>1 DEF End, HeadLength
    <3> QED
      BY <3>1, <1>1
  <2>4. CASE k > h
    BY <2>4, <1>1 DEF End
  <2> QED
    BY <2>2, <2>3, <2>4, <1>1
<1>3. PICK a \in Nat : a = f - h
  BY <1>1
<1>4. /\ a * Uuid \in Nat /\ (a + c) * Uuid = a * Uuid + c * Uuid
      /\ (a + c) * Uuid \in Nat /\ m.n * Uuid \in Nat
  BY <1>1, <1>3
<1>5. (f + c) - h = a + c /\ f + c \in Nat /\ f + c >= h /\ f >= h
  BY <1>1, <1>3
<1>6. End(m, f + c) = HeadLength(m.op) + (a + c) * Uuid /\ End(m, f) = HeadLength(m.op) + a * Uuid
  BY <1>2, <1>3, <1>5, <1>1
<1>7. End(m, f) + PIPE_BUF = End(m, f + c)
  BY <1>1, <1>4, <1>6
<1>8. (a + c) * Uuid < m.n * Uuid
  BY <1>1, <1>4, <1>6, <1>7 DEF Length
<1>9. a + c < m.n
  BY <1>8, <1>1
<1> QED
  BY <1>1, <1>3, <1>5, <1>7, <1>9 DEF Fields

\* The bytes of the next write: within PIPE_BUF and the message; it ends the
\* message, or a backend's field past the head.
LEMMA ChunkFacts ==
    ASSUME TypeOK, NEW p \in Procs, Current(p), Written(p), pc[p] = "sending"
    PROVE  /\ Chunk(p, cur[p]) \in Nat /\ Chunk(p, cur[p]) >= 1 /\ Chunk(p, cur[p]) <= PIPE_BUF
           /\ sent[p] + Chunk(p, cur[p]) <= Length(cur[p])
           /\ sent[p] + Chunk(p, cur[p]) < Length(cur[p]) =>
                IF p = Startup THEN Length(cur[p]) > PIPE_BUF
                ELSE /\ Batched(cur[p])
                     /\ \E f \in HeadFields(cur[p].op)..Fields(cur[p]) :
                           sent[p] + Chunk(p, cur[p]) = End(cur[p], f)
<1> DEFINE m == cur[p]
<1>1. /\ m \in Messages /\ m.op \in Ops /\ m.n \in Nat /\ sent[p] \in Nat
      /\ Length(m) \in Nat /\ sent[p] < Length(m)
  BY EndValues DEF TypeOK, Messages, Written
<1>2. /\ HeadFields(m.op) \in 3..6 /\ HeadLength(m.op) \in Nat /\ HeadLength(m.op) <= PIPE_BUF
      /\ PIPE_BUF \in Nat /\ PIPE_BUF >= 1 /\ Fields(m) \in Nat /\ m.n * Uuid \in Nat
      /\ HeadLength(m.op) >= 1 /\ Length(m) = HeadLength(m.op) + m.n * Uuid
      /\ End(m, HeadFields(m.op)) = HeadLength(m.op)
      /\ HeadFields(m.op) \in HeadFields(m.op)..Fields(m)
  <2>1. HeadFields(m.op) \in 3..6 /\ HeadLength(m.op) \in Nat /\ HeadLength(m.op) <= PIPE_BUF
    BY <1>1, HeadFacts
  <2>2. PIPE_BUF \in Nat /\ PIPE_BUF >= 1 /\ Uuid \in Nat /\ Fields(m) \in Nat
    BY <1>1, BatchSize, SizeAssumption, EndValues
  <2>3. Fields(m) = HeadFields(m.op) + m.n /\ Length(m) = HeadLength(m.op) + m.n * Uuid
    BY DEF Fields, Length
  <2>4. End(m, HeadFields(m.op)) = HeadLength(m.op)
    BY <2>1 DEF End, HeadLength
  <2>5. 0 < HeadFields(m.op) /\ HeadFields(m.op) \in 0..Fields(m) /\ 0 \in 0..Fields(m)
    BY <1>1, <2>1, <2>2, <2>3
  <2>6. End(m, 0) < End(m, HeadFields(m.op)) /\ End(m, 0) = 0
    BY <1>1, <2>5, EndIncreases, EndValues
  <2> QED
    BY <1>1, <2>1, <2>2, <2>3, <2>4, <2>5, <2>6
<1>3. CASE p = Startup
  <2>1. Chunk(p, m) = IF PIPE_BUF <= Length(m) - sent[p] THEN PIPE_BUF ELSE Length(m) - sent[p]
    BY <1>3 DEF Chunk, Smaller
  <2> QED
    BY <2>1, <1>1, <1>2, <1>3
<1>4. CASE p # Startup /\ Batched(m) /\ sent[p] = 0
  <2>1. Chunk(p, m) = HeadLength(m.op)
    BY <1>4 DEF Chunk, Batched
  <2> QED
    BY <2>1, <1>1, <1>2, <1>4
<1>5. CASE p # Startup /\ Batched(m) /\ sent[p] # 0
  <2>1. PICK f \in HeadFields(m.op)..Fields(m) : sent[p] = End(m, f)
    BY <1>1, <1>5 DEF Written
  <2>2. Chunk(p, m) = IF PIPE_BUF <= Length(m) - sent[p] THEN PIPE_BUF ELSE Length(m) - sent[p]
    BY <1>5, BatchSize DEF Chunk, Batched, Smaller
  <2>3. sent[p] + PIPE_BUF < Length(m) =>
           \E g \in HeadFields(m.op)..Fields(m) : sent[p] + PIPE_BUF = End(m, g)
    BY <1>1, <2>1, BatchAligned
  <2> QED
    BY <2>2, <2>3, <1>1, <1>2, <1>5
<1>6. CASE p # Startup /\ ~Batched(m)
  <2>1. sent[p] = 0 /\ Chunk(p, m) = Length(m)
    BY <1>1, <1>6 DEF Chunk, Batched, Written
  <2>2. Length(m) <= PIPE_BUF
    <3>1. CASE m.op = "C"
      BY <3>1, <1>2, <1>6 DEF Batched, OneWrite
    <3>2. CASE m.op = "c" /\ m.n = 0
      BY <3>2, <1>2, SizeAssumption
    <3>3. CASE m.op # "C" /\ \E r \in Requests : m.op = r.op /\ m.n = r.n
      <4>1. PICK r \in Requests : m.op = r.op /\ m.n = r.n
        BY <3>3
      <4>2. Length(r) <= PIPE_BUF
        BY <4>1, <3>3, <1>6, CallAssumption DEF Batched
      <4> QED
        BY <4>1, <4>2 DEF Length
    <3> QED
      BY <1>6, <3>1, <3>2, <3>3 DEF Current
  <2> QED
    BY <2>1, <2>2, <1>1, <1>2, <1>6
<1> QED
  BY <1>3, <1>4, <1>5, <1>6

-----------------------------------------------------------------------------
(* The pipes *)

Bytes == [m : Messages, pos : Nat \ {0}]

\* The first k bytes of the request pipe are taken, or process p adds n to it.
Takes(k) ==
    /\ k \in 1..Len(pipe) /\ pipe' \in Seq(Bytes) /\ Len(pipe') = Len(pipe) - k
    /\ \A i \in 1..Len(pipe') : pipe'[i] = pipe[i + k]

Adds(p, n) ==
    /\ n \in Nat \ {0} /\ pipe' \in Seq(Bytes) /\ Len(pipe') = Len(pipe) + n
    /\ \A i \in 1..Len(pipe) : pipe'[i] = pipe[i]
    /\ \A i \in 1..Len(pipe') :
          i > Len(pipe) => pipe'[i] = [m |-> cur[p], pos |-> sent[p] + (i - Len(pipe))]

LEMMA TakesRest ==
    ASSUME pipe \in Seq(Bytes), NEW k \in 1..Len(pipe), pipe' = SubSeq(pipe, k + 1, Len(pipe))
    PROVE  Takes(k)
<1>1. Len(pipe) \in Nat /\ k \in Nat /\ k >= 1 /\ k <= Len(pipe)
  BY LenProperties
<1>2. \A i \in (k + 1)..Len(pipe) : pipe[i] \in Bytes
  BY <1>1, ElementOfSeq
<1>3. /\ SubSeq(pipe, k + 1, Len(pipe)) \in Seq(Bytes)
      /\ Len(SubSeq(pipe, k + 1, Len(pipe))) =
            IF k + 1 <= Len(pipe) THEN Len(pipe) - (k + 1) + 1 ELSE 0
      /\ \A i \in 1..Len(pipe) - (k + 1) + 1 :
            SubSeq(pipe, k + 1, Len(pipe))[i] = pipe[(k + 1) + i - 1]
  BY <1>1, <1>2, SubSeqProperties
<1>4. Len(pipe') = Len(pipe) - k
  BY <1>1, <1>3
<1>5. \A i \in 1..Len(pipe') : pipe'[i] = pipe[i + k]
  BY <1>1, <1>3, <1>4
<1> QED
  BY <1>3, <1>4, <1>5 DEF Takes

LEMMA TakesOne ==
    ASSUME pipe \in Seq(Bytes), pipe # <<>>, pipe' = Tail(pipe)
    PROVE  Takes(1)
<1>1. Len(pipe) \in Nat /\ Len(pipe) >= 1
  BY EmptySeq, LenProperties
<1> QED
  BY <1>1, HeadTailProperties DEF Takes

LEMMA TakesAll ==
    ASSUME pipe \in Seq(Bytes), pipe # <<>>, pipe' = <<>>
    PROVE  Takes(Len(pipe))
<1>1. Len(pipe) \in Nat /\ Len(pipe) >= 1 /\ pipe' \in Seq(Bytes) /\ Len(pipe') = 0
  BY EmptySeq
<1> QED
  BY <1>1 DEF Takes

LEMMA AddsBytes ==
    ASSUME pipe \in Seq(Bytes), NEW p \in Procs, cur[p] \in Messages, sent[p] \in Nat,
           NEW n \in Nat \ {0},
           pipe' = pipe \o [i \in 1..n |-> [m |-> cur[p], pos |-> sent[p] + i]]
    PROVE  Adds(p, n)
<1> DEFINE new == [i \in 1..n |-> [m |-> cur[p], pos |-> sent[p] + i]]
<1>1. \A i \in 1..n : new[i] \in Bytes
  BY DEF Bytes
<1>2. new \in Seq(Bytes) /\ Len(new) = n
  BY <1>1
<1>3. /\ pipe' \in Seq(Bytes) /\ Len(pipe') = Len(pipe) + n /\ Len(pipe) \in Nat
      /\ \A i \in 1..Len(pipe) + n : pipe'[i] = IF i <= Len(pipe) THEN pipe[i] ELSE new[i - Len(pipe)]
  BY <1>2, ConcatProperties, LenProperties
<1>4. \A i \in 1..Len(pipe') :
         i > Len(pipe) => pipe'[i] = [m |-> cur[p], pos |-> sent[p] + (i - Len(pipe))]
  BY <1>3
<1> QED
  BY <1>3, <1>4 DEF Adds

\* The bytes and the messages of a state.
LEMMA PipeFacts ==
    ASSUME TypeOK
    PROVE  /\ pipe \in Seq(Bytes) /\ Len(pipe) \in Nat /\ (pipe = <<>> <=> Len(pipe) = 0)
           /\ \A i \in 1..Len(pipe) :
                 /\ pipe[i].m \in Messages /\ pipe[i].pos \in Nat /\ pipe[i].pos >= 1
                 /\ pipe[i].pos <= Length(pipe[i].m) /\ Length(pipe[i].m) \in Nat
                 /\ pipe[i] = [m |-> pipe[i].m, pos |-> pipe[i].pos]
<1>1. pipe \in Seq(Bytes)
  BY DEF TypeOK, Bytes
<1>2. Len(pipe) \in Nat /\ (pipe = <<>> <=> Len(pipe) = 0)
  BY <1>1, EmptySeq, LenProperties
<1>3. ASSUME NEW i \in 1..Len(pipe)
      PROVE  /\ pipe[i].m \in Messages /\ pipe[i].pos \in Nat /\ pipe[i].pos >= 1
             /\ pipe[i].pos <= Length(pipe[i].m) /\ Length(pipe[i].m) \in Nat
             /\ pipe[i] = [m |-> pipe[i].m, pos |-> pipe[i].pos]
  <2>1. pipe[i] \in Bytes
    BY <1>1, ElementOfSeq
  <2>2. /\ pipe[i].m \in Messages /\ pipe[i].pos \in Nat /\ pipe[i].pos >= 1
        /\ pipe[i] = [m |-> pipe[i].m, pos |-> pipe[i].pos]
    BY <2>1 DEF Bytes
  <2>3. pipe[i].pos <= Length(pipe[i].m)
    BY DEF TypeOK
  <2> QED
    BY <2>2, <2>3, EndValues
<1> QED
  BY <1>1, <1>2, <1>3

LEMMA LengthPositive ==
    ASSUME NEW m \in Messages
    PROVE  Length(m) \in Nat /\ Length(m) >= 1
<1>1. 0 \in 0..Fields(m) /\ Fields(m) \in 0..Fields(m) /\ 0 < Fields(m)
  BY EndValues
<1> QED
  BY <1>1, EndIncreases, EndValues

-----------------------------------------------------------------------------
(* Types, processes and lock *)

\* A write of n bytes of its message by p.
Writes(p, n) ==
    LET total == sent[p] + n
    IN /\ pc[p] = "sending" /\ Adds(p, n) /\ Len(pipe) + n <= PipeCap
       /\ total <= Length(cur[p]) /\ sent' = [sent EXCEPT ![p] = total]
       /\ IF total < Length(cur[p])
          THEN /\ IF p = Startup THEN Length(cur[p]) > PIPE_BUF
                  ELSE /\ Batched(cur[p])
                       /\ \E f \in HeadFields(cur[p].op)..Fields(cur[p]) : total = End(cur[p], f)
               /\ UNCHANGED <<pc, lock>>
          ELSE IF Awaits(p, cur[p].op) > 0
          THEN pc' = [pc EXCEPT ![p] = "awaiting"] /\ UNCHANGED lock
          ELSE pc' = [pc EXCEPT ![p] = "idle"] /\ lock' = Release(p)
       /\ UNCHANGED <<replies, cur, got, calls, recovering, worker, applied, kills>>

LEMMA SendWrites ==
    ASSUME Base, NEW p \in Procs, Send(p)
    PROVE  \E n \in Nat \ {0} : Writes(p, n)
<1> DEFINE n == Chunk(p, cur[p])
<1>1. pc[p] = "sending" /\ TypeOK /\ Current(p) /\ Written(p)
  BY DEF Send, Base
<1>2. /\ n \in Nat \ {0} /\ n <= PIPE_BUF /\ sent[p] + n <= Length(cur[p])
      /\ sent[p] + n < Length(cur[p]) =>
           IF p = Startup THEN Length(cur[p]) > PIPE_BUF
           ELSE /\ Batched(cur[p])
                /\ \E f \in HeadFields(cur[p].op)..Fields(cur[p]) : sent[p] + n = End(cur[p], f)
  BY <1>1, ChunkFacts
<1>3. /\ Len(pipe) + n <= PipeCap
      /\ pipe' = pipe \o [i \in 1..n |-> [m |-> cur[p], pos |-> sent[p] + i]]
      /\ sent' = [sent EXCEPT ![p] = sent[p] + n]
      /\ IF sent[p] + n < Length(cur[p]) THEN UNCHANGED <<pc, lock>>
         ELSE IF Awaits(p, cur[p].op) > 0
         THEN pc' = [pc EXCEPT ![p] = "awaiting"] /\ UNCHANGED lock
         ELSE pc' = [pc EXCEPT ![p] = "idle"] /\ lock' = Release(p)
      /\ UNCHANGED <<replies, cur, got, calls, recovering, worker, applied, kills>>
  <2>1. PICK size \in (IF n <= PIPE_BUF THEN {n} ELSE 1..n) :
          /\ Len(pipe) + size <= PipeCap
          /\ pipe' = pipe \o [i \in 1..size |-> [m |-> cur[p], pos |-> sent[p] + i]]
          /\ sent' = [sent EXCEPT ![p] = sent[p] + size]
          /\ IF sent[p] + size < Length(cur[p]) THEN UNCHANGED <<pc, lock>>
             ELSE IF Awaits(p, cur[p].op) > 0
             THEN pc' = [pc EXCEPT ![p] = "awaiting"] /\ UNCHANGED lock
             ELSE pc' = [pc EXCEPT ![p] = "idle"] /\ lock' = Release(p)
          /\ UNCHANGED <<replies, cur, got, calls, recovering, worker, applied, kills>>
    BY Zenon DEF Send
  <2>2. size = n
    BY <1>2, <2>1
  <2> HIDE DEF n
  <2> QED
    BY <2>1, <2>2
<1>4. Adds(p, n)
  BY <1>1, <1>2, <1>3, PipeFacts, AddsBytes DEF TypeOK
<1> QED
  BY <1>1, <1>2, <1>3, <1>4 DEF Writes

\* Only the process that acts changes.
Alone(p) ==
    /\ \A q \in Procs : q # p =>
          /\ pc'[q] = pc[q] /\ cur'[q] = cur[q] /\ calls'[q] = calls[q]
          /\ sent'[q] = sent[q] /\ got'[q] = got[q]

LEMMA OthersStay ==
    ASSUME NEW p \in Procs, Alone(p), Current(p)', Written(p)',
           \A q \in Procs : Current(q) /\ Written(q)
    PROVE  \A q \in Procs : Current(q)' /\ Written(q)'
<1>1. SUFFICES ASSUME NEW q \in Procs, q # p PROVE Current(q)' /\ Written(q)'
  OBVIOUS
<1>2. /\ pc'[q] = pc[q] /\ cur'[q] = cur[q] /\ calls'[q] = calls[q]
      /\ sent'[q] = sent[q] /\ got'[q] = got[q] /\ Current(q) /\ Written(q)
  BY <1>1 DEF Alone
<1> QED
  BY <1>2 DEF Current, Written

\* The request a process begins is its own, the next one.
LEMMA MessageFacts ==
    ASSUME NEW p \in Procs, calls[p] \in Nat, NEW r \in Calls
    PROVE  /\ Message(p, r) \in Messages /\ Message(p, r).from = p
           /\ Message(p, r).seq = calls[p] + 1
           /\ Message(p, r).op = r.op /\ Message(p, r).n = r.n
BY DEF Message, Messages, Calls

LEMMA RecordFacts ==
    ASSUME NEW k \in 1..Len(Records)
    PROVE  Records[k] \in Calls /\ Records[k].op \in StoreWrites
<1>1. Records[k] \in [op : StoreWrites, n : Nat]
  BY CallAssumption, ElementOfSeq
<1> QED
  BY <1>1 DEF Calls, StoreWrites, Ops

\* A request a process may make.
Offered(p, r) ==
    IF p = Startup THEN calls[p] + 1 \in 1..Len(Records) /\ r = Records[calls[p] + 1]
    ELSE r \in Requests

LEMMA StartBase ==
    ASSUME Base, NEW p \in Procs, NEW r, Offered(p, r), StartCall(p, r)
    PROVE  Base' /\ Alone(p)
<1>1. TypeOK /\ Locked /\ Handling /\ pc[p] = "idle" /\ calls[p] \in Nat /\ r \in Calls
  BY RecordFacts, CallAssumption DEF Base, TypeOK, Offered, StartCall
<1>2. /\ pc' = [pc EXCEPT ![p] = "locking"] /\ cur' = [cur EXCEPT ![p] = Message(p, r)]
      /\ calls' = [calls EXCEPT ![p] = calls[p] + 1]
      /\ sent' = [sent EXCEPT ![p] = 0] /\ got' = [got EXCEPT ![p] = 0]
      /\ UNCHANGED <<lock, pipe, replies, recovering, worker, applied, kills>>
  BY DEF StartCall
<1>3. Message(p, r) \in Messages
  BY <1>1, MessageFacts
<1>4. TypeOK'
  <2>1. /\ pc' \in [Procs -> {"idle", "locking", "sending", "awaiting"}]
        /\ cur' \in [Procs -> Messages] /\ calls' \in [Procs -> Nat]
        /\ sent' \in [Procs -> Nat] /\ got' \in [Procs -> Nat]
    BY <1>1, <1>2, <1>3 DEF TypeOK
  <2> QED
    BY <1>1, <1>2, <2>1 DEF TypeOK
<1>5. Alone(p)
  BY <1>1, <1>2 DEF Alone, TypeOK
<1>6. /\ pc'[p] = "locking" /\ cur'[p] = Message(p, r) /\ calls'[p] = calls[p] + 1
      /\ sent'[p] = 0 /\ got'[p] = 0
  BY <1>1, <1>2 DEF TypeOK
<1>7. Current(p)' /\ Written(p)'
  BY <1>1, <1>6, MessageFacts DEF Current, Written, Offered
<1>8. Locked'
  <2>1. lock.exclusive # p /\ p \notin lock.shared
    BY <1>1, ProcAssumption DEF Locked
  <2> QED
    BY <1>1, <1>2, <1>5, <1>6, <2>1, ProcAssumption DEF Locked, Alone, TypeOK
<1>9. Handling'
  BY <1>1, <1>2 DEF Handling
<1> QED
  BY <1>4, <1>5, <1>7, <1>8, <1>9, OthersStay DEF Base

LEMMA AcquireBase ==
    ASSUME Base, NEW p \in Procs, Acquire(p)
    PROVE  Base' /\ Alone(p)
<1>1. TypeOK /\ Locked /\ Handling /\ pc[p] = "locking" /\ lock.exclusive = None
  BY DEF Base, Acquire
<1>2. /\ pc' = [pc EXCEPT ![p] = "sending"]
      /\ UNCHANGED <<pipe, replies, cur, sent, got, calls, recovering, worker, applied, kills>>
  BY DEF Acquire
<1>3. /\ pc' \in [Procs -> {"idle", "locking", "sending", "awaiting"}] /\ pc'[p] = "sending"
      /\ \A q \in Procs : q # p => pc'[q] = pc[q]
  BY <1>1, <1>2 DEF TypeOK
<1>4. \/ /\ Shares(p, cur[p]) /\ lock'.shared = lock.shared \cup {p} /\ lock'.exclusive = None
         /\ lock' \in [shared : SUBSET Procs, exclusive : Procs \cup {None}]
      \/ /\ lock.shared = {} /\ lock'.shared = {} /\ lock'.exclusive = p
         /\ lock' \in [shared : SUBSET Procs, exclusive : Procs \cup {None}]
  BY <1>1 DEF Acquire, TypeOK
<1>5. TypeOK'
  BY <1>1, <1>2, <1>3, <1>4 DEF TypeOK
<1>6. Alone(p)
  BY <1>2, <1>3 DEF Alone
<1>7. Current(p)' /\ Written(p)'
  <2>1. Current(p) /\ Written(p) /\ cur[p] \in Messages
    BY <1>1 DEF Base, TypeOK
  <2>2. Length(cur[p]) \in Nat /\ Length(cur[p]) >= 1
    BY <2>1, LengthPositive
  <2>3. cur'[p] = cur[p] /\ sent'[p] = sent[p] /\ got'[p] = got[p] /\ calls'[p] = calls[p]
    BY <1>2
  <2> QED
    BY <1>1, <1>3, <2>1, <2>2, <2>3 DEF Current, Written
<1>8. Locked'
  BY <1>1, <1>2, <1>3, <1>4, ProcAssumption DEF Locked
<1>9. Handling'
  BY <1>1, <1>2 DEF Handling
<1> QED
  BY <1>5, <1>6, <1>7, <1>8, <1>9, OthersStay DEF Base

\* Unlocking leaves the other holders.
LEMMA ReleaseFacts ==
    ASSUME lock \in [shared : SUBSET Procs, exclusive : Procs \cup {None}], NEW p \in Procs
    PROVE  /\ Release(p) \in [shared : SUBSET Procs, exclusive : Procs \cup {None}]
           /\ Release(p).shared = lock.shared \ {p} /\ Release(p).exclusive # p
           /\ Release(p).exclusive = IF lock.exclusive = p THEN None ELSE lock.exclusive
BY ProcAssumption DEF Release

\* A process that unlocks is not in a request any more.
LEMMA UnlockedStep ==
    ASSUME TypeOK, Locked, NEW p \in Procs, lock' = Release(p),
           pc' = [pc EXCEPT ![p] = "idle"], Alone(p)
    PROVE  Locked'
<1>1. pc'[p] = "idle" /\ \A q \in Procs : q # p => pc'[q] = pc[q] /\ cur'[q] = cur[q]
  BY DEF TypeOK, Alone
<1>2. /\ lock'.shared = lock.shared \ {p} /\ lock'.exclusive # p /\ lock.shared \subseteq Procs
      /\ lock'.exclusive = IF lock.exclusive = p THEN None ELSE lock.exclusive
      /\ lock.exclusive \in Procs \cup {None}
  BY ReleaseFacts DEF TypeOK
<1> QED
  BY <1>1, <1>2, ProcAssumption DEF Locked

\* A reply is awaited by the exclusive holder.
LEMMA AwaiterHolds ==
    ASSUME TypeOK, Locked, NEW p \in Procs, pc[p] = "sending", Awaits(p, cur[p].op) > 0
    PROVE  lock.exclusive = p
<1>1. SUFFICES ASSUME p \in lock.shared PROVE FALSE
  BY DEF Locked
<1>2. p # Startup /\ cur[p].op = "C"
  BY <1>1 DEF Locked, Shares
<1>3. Awaits(p, cur[p].op) = 0
  BY <1>2 DEF Awaits, ReplyUnits
<1> QED
  BY <1>3

LEMMA WritesBase ==
    ASSUME Base, NEW p \in Procs, NEW n \in Nat \ {0}, Writes(p, n)
    PROVE  Base' /\ Alone(p)
<1>1. /\ TypeOK /\ Locked /\ Handling /\ Current(p) /\ Written(p) /\ pc[p] = "sending"
      /\ cur[p] \in Messages /\ sent[p] \in Nat /\ Length(cur[p]) \in Nat
  BY EndValues DEF Base, Writes, TypeOK
<1>2. /\ sent' = [sent EXCEPT ![p] = sent[p] + n] /\ sent[p] + n <= Length(cur[p])
      /\ UNCHANGED <<replies, cur, got, calls, recovering, worker, applied, kills>>
      /\ Len(pipe) + n <= PipeCap /\ Adds(p, n)
  BY DEF Writes
<1>3. \/ pc' = pc /\ lock' = lock
      \/ pc' = [pc EXCEPT ![p] = "awaiting"] /\ lock' = lock
      \/ pc' = [pc EXCEPT ![p] = "idle"] /\ lock' = Release(p)
  BY DEF Writes
<1>4. /\ pc' \in [Procs -> {"idle", "locking", "sending", "awaiting"}]
      /\ \A q \in Procs : q # p => pc'[q] = pc[q]
      /\ lock' \in [shared : SUBSET Procs, exclusive : Procs \cup {None}]
      /\ sent' \in [Procs -> Nat] /\ sent'[p] = sent[p] + n
      /\ \A q \in Procs : q # p => sent'[q] = sent[q]
  <2>1. Release(p) \in [shared : SUBSET Procs, exclusive : Procs \cup {None}]
    BY <1>1, ReleaseFacts DEF TypeOK
  <2>2. /\ pc \in [Procs -> {"idle", "locking", "sending", "awaiting"}]
        /\ lock \in [shared : SUBSET Procs, exclusive : Procs \cup {None}]
        /\ sent \in [Procs -> Nat]
    BY <1>1 DEF TypeOK
  <2>3. sent' \in [Procs -> Nat] /\ sent'[p] = sent[p] + n
        /\ \A q \in Procs : q # p => sent'[q] = sent[q]
    BY <1>1, <1>2, <2>2
  <2>4. /\ pc' \in [Procs -> {"idle", "locking", "sending", "awaiting"}]
        /\ \A q \in Procs : q # p => pc'[q] = pc[q]
    BY <1>3, <2>2
  <2> QED
    BY <1>3, <2>1, <2>2, <2>3, <2>4
<1>5. /\ pipe' \in Seq(Bytes) /\ Len(pipe') <= PipeCap
      /\ \A i \in 1..Len(pipe') : pipe'[i].pos <= Length(pipe'[i].m)
  <2>1. Len(pipe) \in Nat /\ pipe' \in Seq(Bytes) /\ Len(pipe') = Len(pipe) + n
    BY <1>1, <1>2, PipeFacts DEF Adds
  <2>2. ASSUME NEW i \in 1..Len(pipe')
        PROVE  pipe'[i].pos <= Length(pipe'[i].m)
    <3>1. CASE i <= Len(pipe)
      <4>1. i \in 1..Len(pipe) /\ pipe'[i] = pipe[i]
        BY <3>1, <1>2, <2>1 DEF Adds
      <4> QED
        BY <4>1, <1>1 DEF TypeOK
    <3>2. CASE i > Len(pipe)
      <4>1. pipe'[i] = [m |-> cur[p], pos |-> sent[p] + (i - Len(pipe))]
        BY <3>2, <1>2 DEF Adds
      <4>2. sent[p] + (i - Len(pipe)) <= sent[p] + n
        BY <2>1, <1>1
      <4> QED
        BY <4>1, <4>2, <1>1, <1>2, <2>1
    <3> QED
      BY <3>1, <3>2, <2>1
  <2> QED
    BY <2>1, <2>2, <1>2
<1>6. TypeOK'
  BY <1>1, <1>2, <1>4, <1>5 DEF TypeOK, Bytes
<1>7. Alone(p)
  BY <1>2, <1>4 DEF Alone
<1>8. Current(p)' /\ Written(p)'
  <2>1. pc'[p] = "sending" => /\ sent[p] + n < Length(cur[p])
                              /\ IF p = Startup THEN Length(cur[p]) > PIPE_BUF
                                 ELSE Batched(cur[p]) /\ \E f \in HeadFields(cur[p].op)..Fields(cur[p]) :
                                                            sent[p] + n = End(cur[p], f)
    BY <1>1, <1>3 DEF Writes, TypeOK
  <2>2. pc'[p] # "locking"
    BY <1>1, <1>3 DEF TypeOK
  <2>3. cur'[p] = cur[p] /\ got'[p] = got[p] /\ calls'[p] = calls[p]
    BY <1>2
  <2> QED
    BY <1>1, <1>4, <2>1, <2>2, <2>3 DEF Current, Written
<1>9. Locked'
  <2>1. CASE pc' = pc /\ lock' = lock
    BY <2>1, <1>1, <1>2 DEF Locked
  <2>2. CASE pc' = [pc EXCEPT ![p] = "awaiting"] /\ lock' = lock /\ lock.exclusive = p
    <3>1. pc'[p] = "awaiting" /\ lock.shared = {}
      BY <2>2, <1>1, ProcAssumption DEF TypeOK, Locked
    <3> QED
      BY <3>1, <2>2, <1>1, <1>2, <1>4 DEF Locked
  <2>3. CASE pc' = [pc EXCEPT ![p] = "idle"] /\ lock' = Release(p)
    BY <2>3, <1>1, <1>7, UnlockedStep
  <2> QED
    BY <2>1, <2>2, <2>3, <1>1, AwaiterHolds DEF Writes
<1>10. Handling'
  BY <1>1, <1>2 DEF Handling
<1> QED
  BY <1>6, <1>7, <1>8, <1>9, <1>10, OthersStay DEF Base

\* What a read of a reply unit does: there are more, or the children are asked for
\* at once, or the request is over.
ReadsMore(p) ==
    /\ got[p] + 1 < Awaits(p, cur[p].op)
    /\ got' = [got EXCEPT ![p] = @ + 1] /\ UNCHANGED <<pc, cur, sent, lock, calls>>
ReadsType(p) ==
    /\ ~(got[p] + 1 < Awaits(p, cur[p].op)) /\ cur[p].op = "t"
    /\ cur' = [cur EXCEPT ![p] = Message(p, [op |-> "c", n |-> 0])]
    /\ calls' = [calls EXCEPT ![p] = @ + 1] /\ pc' = [pc EXCEPT ![p] = "sending"]
    /\ sent' = [sent EXCEPT ![p] = 0] /\ got' = [got EXCEPT ![p] = 0] /\ UNCHANGED lock
ReadsLast(p) ==
    /\ ~(got[p] + 1 < Awaits(p, cur[p].op)) /\ cur[p].op # "t"
    /\ pc' = [pc EXCEPT ![p] = "idle"] /\ lock' = Release(p) /\ UNCHANGED <<cur, sent, got, calls>>

LEMMA RepliesFacts ==
    ASSUME replies \in Seq(Messages)
    PROVE  /\ Len(replies) \in Nat /\ (replies = <<>> <=> Len(replies) = 0)
           /\ \A i \in 1..Len(replies) : replies[i] \in Messages
           /\ replies # <<>> =>
                /\ Tail(replies) \in Seq(Messages) /\ Len(Tail(replies)) = Len(replies) - 1
                /\ \A i \in 1..Len(Tail(replies)) : Tail(replies)[i] = replies[i + 1]
<1>1. Len(replies) \in Nat /\ (replies = <<>> <=> Len(replies) = 0)
  BY EmptySeq, LenProperties
<1>2. \A i \in 1..Len(replies) : replies[i] \in Messages
  BY ElementOfSeq
<1> QED
  BY <1>1, <1>2, HeadTailProperties

LEMMA ReadReplyFacts ==
    ASSUME NEW p \in Procs, ReadReply(p)
    PROVE  /\ pc[p] = "awaiting" /\ replies # <<>> /\ replies' = Tail(replies)
           /\ ReadsMore(p) \/ ReadsType(p) \/ ReadsLast(p)
           /\ UNCHANGED <<pipe, recovering, worker, applied, kills>>
BY DEF ReadReply, ReadsMore, ReadsType, ReadsLast

LEMMA ReadReplyBase ==
    ASSUME Base, NEW p \in Procs, ReadReply(p)
    PROVE  Base' /\ Alone(p)
<1>1. /\ TypeOK /\ Locked /\ Handling /\ Current(p) /\ Written(p) /\ cur[p] \in Messages
      /\ got[p] \in Nat /\ calls[p] \in Nat
  BY DEF Base, TypeOK
<1>2. /\ pc[p] = "awaiting" /\ replies # <<>> /\ replies' = Tail(replies)
      /\ UNCHANGED <<pipe, recovering, worker, applied, kills>>
      /\ ReadsMore(p) \/ ReadsType(p) \/ ReadsLast(p)
  BY ReadReplyFacts
<1>3. replies' \in Seq(Messages) /\ Len(replies') <= ReplyCap
  <2>1. replies \in Seq(Messages) /\ Len(replies) <= ReplyCap /\ ReplyCap \in Nat
    BY <1>1, SizeAssumption DEF TypeOK
  <2> QED
    BY <2>1, <1>2, RepliesFacts
<1>4. Handling'
  BY <1>1, <1>2 DEF Handling
<1>5. CASE ReadsMore(p)
  <2>1. TypeOK'
    BY <1>1, <1>2, <1>3, <1>5 DEF TypeOK, ReadsMore
  <2>2. Alone(p)
    BY <1>1, <1>5 DEF Alone, ReadsMore, TypeOK
  <2>3. Current(p)' /\ Written(p)'
    BY <1>1, <1>2, <1>5 DEF Current, Written, ReadsMore
  <2>4. Locked'
    BY <1>1, <1>5 DEF Locked, ReadsMore
  <2> QED
    BY <1>4, <2>1, <2>2, <2>3, <2>4, OthersStay DEF Base
<1>6. CASE ReadsType(p)
  <2> DEFINE c == [op |-> "c", n |-> 0]
  <2>1. c \in Calls /\ c.op = "c" /\ c.n = 0
    BY DEF Calls, Ops, TokenOps
  <2>2. /\ Message(p, c) \in Messages /\ Message(p, c).from = p
        /\ Message(p, c).seq = calls[p] + 1 /\ Message(p, c).op = "c" /\ Message(p, c).n = 0
    BY <1>1, <2>1, MessageFacts
  <2> HIDE DEF c
  <2>3. /\ cur' = [cur EXCEPT ![p] = Message(p, c)] /\ calls' = [calls EXCEPT ![p] = calls[p] + 1]
        /\ pc' = [pc EXCEPT ![p] = "sending"] /\ sent' = [sent EXCEPT ![p] = 0]
        /\ got' = [got EXCEPT ![p] = 0] /\ UNCHANGED lock
    BY <1>6 DEF ReadsType, c
  <2>4. /\ cur' \in [Procs -> Messages] /\ calls' \in [Procs -> Nat]
        /\ pc' \in [Procs -> {"idle", "locking", "sending", "awaiting"}]
        /\ sent' \in [Procs -> Nat] /\ got' \in [Procs -> Nat]
        /\ cur'[p] = Message(p, c) /\ calls'[p] = calls[p] + 1 /\ pc'[p] = "sending"
        /\ sent'[p] = 0 /\ got'[p] = 0
    BY <1>1, <2>2, <2>3 DEF TypeOK
  <2>5. TypeOK'
    BY <1>1, <1>2, <1>3, <2>3, <2>4 DEF TypeOK
  <2>6. Alone(p)
    BY <1>1, <2>3 DEF Alone, TypeOK
  <2>7. p # Startup
    BY <1>1, <1>2, <1>6, RecordFacts DEF Current, ReadsType, StoreWrites
  <2>8. Current(p)' /\ Written(p)'
    BY <2>2, <2>4, <2>7, LengthPositive DEF Current, Written
  <2>9. Locked'
    <3>1. lock.exclusive = p /\ lock.shared = {}
      BY <1>1, <1>2, ProcAssumption DEF Locked
    <3> QED
      BY <3>1, <1>1, <2>3, <2>4, <2>6 DEF Locked, Alone
  <2> QED
    BY <1>4, <2>5, <2>6, <2>8, <2>9, OthersStay DEF Base
<1>7. CASE ReadsLast(p)
  <2>1. /\ pc' = [pc EXCEPT ![p] = "idle"] /\ lock' = Release(p)
        /\ UNCHANGED <<cur, sent, got, calls>>
    BY <1>7 DEF ReadsLast
  <2>2. /\ pc' \in [Procs -> {"idle", "locking", "sending", "awaiting"}] /\ pc'[p] = "idle"
        /\ lock' \in [shared : SUBSET Procs, exclusive : Procs \cup {None}]
    BY <1>1, <2>1, ReleaseFacts DEF TypeOK
  <2>3. TypeOK'
    BY <1>1, <1>2, <1>3, <2>1, <2>2 DEF TypeOK
  <2>4. Alone(p)
    BY <1>1, <2>1 DEF Alone, TypeOK
  <2>5. Current(p)' /\ Written(p)'
    BY <2>2 DEF Current, Written
  <2>6. Locked'
    BY <1>1, <2>1, <2>4, UnlockedStep
  <2> QED
    BY <1>4, <2>3, <2>4, <2>5, <2>6, OthersStay DEF Base
<1> QED
  BY <1>2, <1>5, <1>6, <1>7

-----------------------------------------------------------------------------
(* The worker *)

\* The worker acts: the processes and the lock stay.
Still == UNCHANGED <<lock, client, recovering>>

LEMMA StillBase ==
    ASSUME Base, Still, TypeOK', Handling'
    PROVE  Base'
<1>1. UNCHANGED <<lock, pc, cur, sent, got, calls>>
  BY DEF Still, client
<1> QED
  BY <1>1 DEF Base, Locked, Current, Written

LEMMA TakesTypes ==
    ASSUME TypeOK, NEW k, Takes(k)
    PROVE  /\ pipe' \in Seq([m : Messages, pos : Nat \ {0}]) /\ Len(pipe') <= PipeCap
           /\ \A i \in 1..Len(pipe') : pipe'[i].pos <= Length(pipe'[i].m)
<1>1. Len(pipe) \in Nat /\ k \in Nat /\ Len(pipe') = Len(pipe) - k /\ Len(pipe) <= PipeCap
      /\ PipeCap \in Nat /\ k <= Len(pipe)
  BY PipeFacts, SizeAssumption DEF Takes, TypeOK
<1>2. \A i \in 1..Len(pipe') : i + k \in 1..Len(pipe) /\ pipe'[i] = pipe[i + k]
  BY <1>1 DEF Takes
<1>3. \A i \in 1..Len(pipe) : pipe[i].pos <= Length(pipe[i].m)
  BY DEF TypeOK
<1>4. \A i \in 1..Len(pipe') : pipe'[i].pos <= Length(pipe'[i].m)
  BY <1>2, <1>3
<1> QED
  BY <1>1, <1>4 DEF Takes, Bytes

\* What the worker reads of a field: at least a byte.
LEMMA FieldSize ==
    ASSUME TypeOK, Handling, worker.at = "field", worker.f <= Fields(worker.m)
    PROVE  /\ End(worker.m, worker.f) \in Nat /\ Consumed \in Nat
           /\ Consumed < End(worker.m, worker.f) /\ End(worker.m, worker.f) <= Length(worker.m)
           /\ worker.m \in Messages /\ worker.f \in 2..Fields(worker.m)
<1>1. worker.m \in Messages /\ worker.f \in 2..Fields(worker.m) /\ Fields(worker.m) \in Nat
  BY EndValues DEF TypeOK, Handling
<1>2. /\ worker.f - 1 \in 0..Fields(worker.m) /\ worker.f \in 0..Fields(worker.m)
      /\ worker.f - 1 < worker.f /\ Fields(worker.m) \in 0..Fields(worker.m)
  BY <1>1
<1>3. /\ End(worker.m, worker.f - 1) < End(worker.m, worker.f)
      /\ End(worker.m, worker.f - 1) \in Nat /\ End(worker.m, worker.f) \in Nat
  BY <1>1, <1>2, EndIncreases, EndValues
<1>4. End(worker.m, worker.f) <= Length(worker.m)
  <2>1. CASE worker.f = Fields(worker.m)
    BY <2>1, <1>1, <1>3, EndValues
  <2>2. CASE worker.f < Fields(worker.m)
    <3>1. End(worker.m, worker.f) < End(worker.m, Fields(worker.m))
      BY <2>2, <1>1, <1>2, EndIncreases
    <3> QED
      BY <3>1, <1>1, <1>3, EndValues
  <2> QED
    BY <2>1, <2>2, <1>1
<1> QED
  BY <1>1, <1>3, <1>4 DEF Consumed

\* A field is read whole, or what there is of it is taken and the worker ends.
LEMMA ReadFieldFacts ==
    ASSUME TypeOK, Handling, ReadField
    PROVE  /\ Reading /\ UNCHANGED <<lock, replies, client, recovering, applied, kills>>
           /\ \/ /\ Consumed + Len(pipe) >= End(worker.m, worker.f)
                 /\ Takes(End(worker.m, worker.f) - Consumed)
                 /\ worker' = [worker EXCEPT !.f = @ + 1]
              \/ /\ Consumed + Len(pipe) < End(worker.m, worker.f)
                 /\ Takes(Len(pipe)) /\ worker' = [worker EXCEPT !.at = "dead"]
<1> DEFINE size == End(worker.m, worker.f) - Consumed
<1>1. /\ worker.at = "field" /\ worker.f <= Fields(worker.m) /\ pipe # <<>>
      /\ UNCHANGED <<lock, replies, client, recovering, applied, kills>>
      /\ IF Len(pipe) >= size
         THEN pipe' = SubSeq(pipe, size + 1, Len(pipe)) /\ worker' = [worker EXCEPT !.f = @ + 1]
         ELSE pipe' = <<>> /\ worker' = [worker EXCEPT !.at = "dead"]
  BY DEF ReadField, Consumed
<1>2. /\ Consumed \in Nat /\ End(worker.m, worker.f) \in Nat /\ size \in Nat /\ size >= 1
      /\ pipe \in Seq(Bytes) /\ Len(pipe) \in Nat
  BY <1>1, FieldSize, PipeFacts
<1> HIDE DEF size
<1>3. size = End(worker.m, worker.f) - Consumed
  BY DEF size
<1>4. CASE Len(pipe) >= size
  <2>1. size \in 1..Len(pipe)
    BY <1>2, <1>4
  <2>2. Takes(size)
    BY <1>1, <1>2, <1>4, <2>1, TakesRest
  <2> QED
    BY <1>1, <1>2, <1>3, <1>4, <2>2 DEF Reading
<1>5. CASE Len(pipe) < size
  <2>1. Takes(Len(pipe))
    BY <1>1, <1>2, <1>5, TakesAll
  <2> QED
    BY <1>1, <1>2, <1>3, <1>5, <2>1 DEF Reading
<1> QED
  BY <1>2, <1>4, <1>5

LEMMA WorkerRecord ==
    ASSUME TypeOK
    PROVE  /\ worker \in [at : {"poll", "field", "reply", "dead"}, m : Messages, f : Nat, r : Nat]
           /\ worker.at \in {"poll", "field", "reply", "dead"} /\ worker.m \in Messages
           /\ worker.f \in Nat /\ worker.r \in Nat /\ Fields(worker.m) \in Nat
           /\ Fields(worker.m) >= 3
BY EndValues DEF TypeOK

LEMMA ReadOpcodeFacts ==
    ASSUME TypeOK, ReadOpcode
    PROVE  /\ worker.at = "poll" /\ pipe # <<>> /\ Takes(1) /\ pipe[1].m \in Messages
           /\ UNCHANGED <<lock, replies, client, recovering, applied, kills>>
           /\ worker' = IF pipe[1].pos = 1
                        THEN [at |-> "field", m |-> pipe[1].m, f |-> 2, r |-> 0]
                        ELSE [worker EXCEPT !.at = "dead"]
<1>1. /\ worker.at = "poll" /\ pipe # <<>> /\ pipe' = Tail(pipe)
      /\ UNCHANGED <<lock, replies, client, recovering, applied, kills>>
      /\ worker' = IF pipe[1].pos = 1
                   THEN [at |-> "field", m |-> pipe[1].m, f |-> 2, r |-> 0]
                   ELSE [worker EXCEPT !.at = "dead"]
  BY DEF ReadOpcode
<1>2. Takes(1) /\ 1 \in 1..Len(pipe)
  BY <1>1, PipeFacts, TakesOne
<1> QED
  BY <1>1, <1>2, PipeFacts

LEMMA ReadOpcodeBase ==
    ASSUME Base, ReadOpcode
    PROVE  Base'
<1>1. TypeOK
  BY DEF Base
<1>2. /\ Takes(1) /\ pipe[1].m \in Messages
      /\ UNCHANGED <<lock, replies, client, recovering, applied, kills>>
      /\ worker' = IF pipe[1].pos = 1
                   THEN [at |-> "field", m |-> pipe[1].m, f |-> 2, r |-> 0]
                   ELSE [worker EXCEPT !.at = "dead"]
  BY <1>1, ReadOpcodeFacts
<1>3. /\ worker' \in [at : {"poll", "field", "reply", "dead"}, m : Messages, f : Nat, r : Nat]
      /\ worker'.at = "field" => worker'.f = 2 /\ worker'.r = 0
      /\ worker'.at # "reply" /\ worker'.m \in Messages
  BY <1>1, <1>2, WorkerRecord
<1>4. TypeOK'
  BY <1>1, <1>2, <1>3, TakesTypes DEF TypeOK, client
<1>5. Handling'
  <2>1. Fields(worker'.m) \in Nat /\ Fields(worker'.m) >= 3
    BY <1>3, EndValues
  <2>2. 2 \in 2..(Fields(worker'.m) + 1)
    BY <2>1
  <2> QED
    BY <1>3, <2>2 DEF Handling
<1> QED
  BY <1>2, <1>4, <1>5, StillBase DEF Still

LEMMA ReadFieldBase ==
    ASSUME Base, ReadField
    PROVE  Base'
<1>1. TypeOK /\ Handling
  BY DEF Base
<1>2. /\ Reading /\ UNCHANGED <<lock, replies, client, recovering, applied, kills>>
      /\ \E k : Takes(k)
      /\ worker' = [worker EXCEPT !.f = @ + 1] \/ worker' = [worker EXCEPT !.at = "dead"]
  BY <1>1, ReadFieldFacts
<1>3. /\ worker' \in [at : {"poll", "field", "reply", "dead"}, m : Messages, f : Nat, r : Nat]
      /\ worker'.m = worker.m /\ worker'.r = worker.r
      /\ worker'.at = "dead" \/ (worker'.at = "field" /\ worker'.f = worker.f + 1)
  <2>1. /\ worker \in [at : {"poll", "field", "reply", "dead"}, m : Messages, f : Nat, r : Nat]
        /\ worker.at = "field" /\ worker.f \in Nat
    BY <1>1, <1>2, WorkerRecord DEF Reading
  <2>2. CASE worker' = [worker EXCEPT !.f = @ + 1]
    BY <2>1, <2>2
  <2>3. CASE worker' = [worker EXCEPT !.at = "dead"]
    <3>1. /\ worker' \in [at : {"poll", "field", "reply", "dead"}, m : Messages, f : Nat, r : Nat]
          /\ worker'.m = worker.m /\ worker'.r = worker.r
      BY <2>1, <2>3
    <3>2. worker'.at = "dead"
      BY <2>1, <2>3
    <3> QED
      BY <3>1, <3>2
  <2> QED
    BY <1>2, <2>2, <2>3
<1>4. TypeOK'
  BY <1>1, <1>2, <1>3, TakesTypes DEF TypeOK, client
<1>5. Handling'
  BY <1>1, <1>2, <1>3, FieldSize, WorkerRecord DEF Handling, Reading
<1> QED
  BY <1>2, <1>4, <1>5, StillBase DEF Still

LEMMA ApplyBase ==
    ASSUME Base, Apply
    PROVE  Base'
<1>1. TypeOK /\ Handling
  BY DEF Base
<1>2. /\ worker.at = "field" /\ applied' = applied \cup {<<worker.m.from, worker.m.seq>>}
      /\ worker' = [worker EXCEPT !.at = IF ReplyUnits(worker.m.op) = 0 THEN "poll" ELSE "reply"]
      /\ UNCHANGED <<lock, pipe, replies, client, recovering, kills>>
  BY DEF Apply
<1>3. /\ worker' \in [at : {"poll", "field", "reply", "dead"}, m : Messages, f : Nat, r : Nat]
      /\ worker'.m = worker.m /\ worker'.r = 0 /\ worker'.at # "field"
      /\ worker'.at = "reply" => ReplyUnits(worker.m.op) # 0
  BY <1>1, <1>2, WorkerRecord DEF Handling
<1>4. TypeOK'
  <2>1. worker.m.from \in Procs /\ worker.m.seq \in Nat
    BY <1>1, WorkerRecord DEF Messages
  <2>2. applied' \subseteq Procs \X Nat
    BY <1>1, <1>2, <2>1 DEF TypeOK
  <2>3. UNCHANGED <<lock, pipe, replies, pc, cur, sent, got, calls, recovering, kills>>
    BY <1>2 DEF client
  <2> QED
    BY <1>1, <1>3, <2>2, <2>3 DEF TypeOK
<1>5. ReplyUnits(worker.m.op) \in Nat
  BY <1>1, WorkerRecord DEF ReplyUnits, Messages, Ops, TokenOps
<1>6. Handling'
  BY <1>3, <1>5 DEF Handling
<1> QED
  BY <1>2, <1>4, <1>6, StillBase DEF Still

LEMMA ReplyBase ==
    ASSUME Base, Reply
    PROVE  Base'
<1>1. TypeOK /\ Handling
  BY DEF Base
<1>2. /\ worker.at = "reply" /\ Len(replies) < ReplyCap /\ replies' = Append(replies, worker.m)
      /\ worker' = [worker EXCEPT !.r = worker.r + 1,
                       !.at = IF worker.r + 1 = ReplyUnits(worker.m.op) THEN "poll" ELSE "reply"]
      /\ UNCHANGED <<lock, pipe, client, recovering, applied, kills>>
  BY DEF Reply
<1>3. /\ worker' \in [at : {"poll", "field", "reply", "dead"}, m : Messages, f : Nat, r : Nat]
      /\ worker'.m = worker.m /\ worker'.r = worker.r + 1 /\ worker'.at # "field"
      /\ worker'.at = "reply" => worker.r + 1 # ReplyUnits(worker.m.op)
  <2>1. /\ worker \in [at : {"poll", "field", "reply", "dead"}, m : Messages, f : Nat, r : Nat]
        /\ worker.r + 1 \in Nat
    BY <1>1, WorkerRecord
  <2>2. CASE worker.r + 1 = ReplyUnits(worker.m.op)
    BY <1>2, <2>1, <2>2
  <2>3. CASE worker.r + 1 # ReplyUnits(worker.m.op)
    BY <1>2, <2>1, <2>3
  <2> QED
    BY <2>2, <2>3
<1>4. replies' \in Seq(Messages) /\ Len(replies') <= ReplyCap
  <2>1. replies \in Seq(Messages) /\ worker.m \in Messages /\ ReplyCap \in Nat
    BY <1>1, WorkerRecord, SizeAssumption DEF TypeOK
  <2>2. Len(replies') = Len(replies) + 1 /\ replies' \in Seq(Messages) /\ Len(replies) \in Nat
    BY <1>2, <2>1, AppendProperties, LenProperties
  <2> QED
    BY <1>2, <2>1, <2>2
<1>5. TypeOK'
  BY <1>1, <1>2, <1>3, <1>4 DEF TypeOK, client
<1>6. ReplyUnits(worker.m.op) \in Nat /\ worker.r \in Nat
  BY <1>1, WorkerRecord DEF ReplyUnits, Messages, Ops, TokenOps
<1>7. Handling'
  BY <1>1, <1>2, <1>3, <1>6 DEF Handling
<1> QED
  BY <1>2, <1>5, <1>7, StillBase DEF Still

LEMMA KillBase ==
    ASSUME Base, Kill
    PROVE  Base'
<1>1. TypeOK /\ Handling
  BY DEF Base
<1>2. /\ worker' = [worker EXCEPT !.at = "dead"] /\ kills' = kills + 1 /\ kills < MaxKills
      /\ UNCHANGED <<lock, pipe, replies, client, recovering, applied>>
  BY DEF Kill
<1>3. /\ worker' \in [at : {"poll", "field", "reply", "dead"}, m : Messages, f : Nat, r : Nat]
      /\ worker'.at = "dead"
  BY <1>1, <1>2, WorkerRecord
<1>4. kills' \in 0..MaxKills
  BY <1>1, <1>2, BoundAssumption DEF TypeOK
<1>5. TypeOK' /\ Handling'
  BY <1>1, <1>2, <1>3, <1>4 DEF TypeOK, client, Handling
<1> QED
  BY <1>2, <1>5, StillBase DEF Still

LEMMA RestartBase ==
    ASSUME Base, Restart
    PROVE  Base'
<1>1. TypeOK
  BY DEF Base
<1>2. /\ worker' = [at |-> "poll", m |-> NoMessage, f |-> 0, r |-> 0]
      /\ UNCHANGED <<lock, pipe, replies, client, recovering, applied, kills>>
  BY DEF Restart
<1>3. NoMessage \in Messages
  BY DEF NoMessage, Messages, Procs, Ops, TokenOps
<1>4. TypeOK' /\ Handling'
  BY <1>1, <1>2, <1>3 DEF TypeOK, client, Handling
<1> QED
  BY <1>2, <1>4, StillBase DEF Still

LEMMA PromoteBase ==
    ASSUME Base, Promote
    PROVE  Base'
<1>1. recovering' = FALSE /\ UNCHANGED <<lock, pipe, replies, client, worker, applied, kills>>
  BY DEF Promote
<1>2. UNCHANGED <<pc, cur, sent, got, calls>>
  BY <1>1 DEF client
<1>3. TypeOK' /\ Locked' /\ Handling'
  BY <1>1, <1>2 DEF Base, TypeOK, Locked, Handling
<1>4. \A p \in Procs : Current(p)' /\ Written(p)'
  BY <1>2 DEF Base, Current, Written
<1> QED
  BY <1>3, <1>4 DEF Base

LEMMA StutterBase ==
    ASSUME Base, UNCHANGED vars
    PROVE  Base'
BY DEF Base, TypeOK, Locked, Handling, Current, Written, client, vars

-----------------------------------------------------------------------------
(* The bytes stay in order *)

\* Only one process can be between two writes of a message.
LEMMA SoleWriter ==
    ASSUME Base, NEW p \in Procs, NEW q \in Procs, pc[p] = "sending", pc[q] = "sending",
           sent[q] > 0, q = Startup => Length(cur[q]) <= PIPE_BUF
    PROVE  p = q
<1>1. Written(q) /\ Locked
  BY DEF Base
<1>2. q # Startup /\ Batched(cur[q])
  <2>1. cur[q] \in Messages /\ Length(cur[q]) \in Nat /\ PIPE_BUF \in Nat
    BY EndValues, SizeAssumption DEF Base, TypeOK
  <2> QED
    BY <1>1, <2>1 DEF Written
<1>3. q \notin lock.shared
  BY <1>1, <1>2 DEF Locked, Shares, Batched
<1> QED
  BY <1>1, <1>3, ProcAssumption DEF Locked

\* While recovery's records are one write each, what it is in is answered in full.
LEMMA OrderlyFacts ==
    ASSUME Base, Orderly, NEW p \in Procs, pc[p] # "idle"
    PROVE  /\ Awaits(p, cur[p].op) = ReplyUnits(cur[p].op)
           /\ p = Startup => Length(cur[p]) <= PIPE_BUF
<1>1. CASE p = Startup
  <2>1. /\ calls[p] \in 1..Len(Records) /\ cur[p].op = Records[calls[p]].op
        /\ cur[p].n = Records[calls[p]].n
    BY <1>1 DEF Base, Current
  <2>2. OneShot(Records[calls[p]])
    BY <1>1, <2>1 DEF Orderly
  <2> QED
    BY <1>1, <2>1, <2>2 DEF OneShot, Length, Awaits, ReplyUnits
<1>2. CASE p # Startup
  BY <1>2 DEF Awaits
<1> QED
  BY <1>1, <1>2

\* What follows a write that begins a message.
LEMMA BeginsMessage ==
    ASSUME Base, Orderly, Stream, NEW p \in Procs, pc[p] = "sending", sent[p] = 0
    PROVE  /\ pipe # <<>> => Last.pos = Length(Last.m)
           /\ pipe = <<>> => ~Reading
           /\ \A i \in 1..Len(pipe) : pipe[i].m # cur[p]
           /\ Busy => worker.m # cur[p]
<1>1. /\ TypeOK /\ Handling /\ LastByte /\ BegunAll /\ cur[p].from = p /\ cur[p].seq = calls[p]
      /\ calls[p] \in Nat
  BY DEF Base, Stream, Current, TypeOK
<1>2. ASSUME NEW m \in Messages, NEW k \in Nat, k >= 1 PROVE ~Sent(m, k)
  <2>1. SUFFICES ASSUME Sent(m, k) PROVE FALSE
    OBVIOUS
  <2>2. m.from \in Procs /\ pc[m.from] = "sending" /\ sent[m.from] = k
    BY <2>1 DEF Sent, Messages
  <2>3. p = m.from
    BY <1>2, <2>2, SoleWriter, OrderlyFacts
  <2> QED
    BY <1>2, <2>2, <2>3
<1>3. pipe # <<>> => Last.pos = Length(Last.m)
  <2>1. SUFFICES ASSUME pipe # <<>> PROVE Last.pos = Length(Last.m)
    OBVIOUS
  <2>2. Last.m \in Messages /\ Last.pos \in Nat /\ Last.pos >= 1
    <3>1. Len(pipe) \in 1..Len(pipe)
      BY <1>1, <2>1, PipeFacts
    <3> QED
      BY <1>1, <3>1, PipeFacts DEF Last
  <2> QED
    BY <1>1, <1>2, <2>1, <2>2 DEF LastByte
<1>4. pipe = <<>> => ~Reading
  <2>1. SUFFICES ASSUME pipe = <<>>, Reading PROVE FALSE
    OBVIOUS
  <2>2. worker.m \in Messages /\ worker.f \in 2..Fields(worker.m) /\ Fields(worker.m) \in Nat
    BY <1>1, <2>1, FieldSize, WorkerRecord DEF Reading
  <2>3. /\ 0 \in 0..Fields(worker.m) /\ worker.f - 1 \in 0..Fields(worker.m)
        /\ 0 < worker.f - 1
    BY <2>2
  <2>4. Consumed \in Nat /\ Consumed >= 1
    BY <2>2, <2>3, EndIncreases, EndValues DEF Consumed
  <2> QED
    BY <1>1, <1>2, <2>1, <2>2, <2>4 DEF LastByte
<1>5. \A m : Begun(m) => m # cur[p]
  BY <1>1 DEF Begun
<1> QED
  BY <1>1, <1>3, <1>4, <1>5 DEF BegunAll

LEMMA TakesContiguous ==
    ASSUME TypeOK, NEW k, Takes(k), Contiguous
    PROVE  Contiguous'
<1>1. /\ k \in Nat /\ k >= 1 /\ Len(pipe) \in Nat /\ Len(pipe') \in Nat
      /\ Len(pipe') = Len(pipe) - k
  BY PipeFacts, LenProperties DEF Takes
<1>2. \A i \in 1..Len(pipe') : i + k \in 1..Len(pipe) /\ pipe'[i] = pipe[i + k]
  BY <1>1 DEF Takes
<1>3. ASSUME NEW i \in 1..Len(pipe'), NEW j \in 1..Len(pipe'), i <= j
      PROVE  /\ pipe'[i].pos + (j - i) <= Length(pipe'[i].m)
                  => pipe'[j].m = pipe'[i].m /\ pipe'[j].pos = pipe'[i].pos + (j - i)
             /\ pipe'[i].m = pipe'[j].m => pipe'[j].pos = pipe'[i].pos + (j - i)
  <2>1. PICK a \in 1..Len(pipe), b \in 1..Len(pipe) :
           a = i + k /\ b = j + k /\ pipe'[i] = pipe[a] /\ pipe'[j] = pipe[b]
    BY <1>2
  <2>2. a <= b /\ b - a = j - i
    BY <1>1, <1>3, <2>1
  <2>3. /\ pipe[a].pos + (b - a) <= Length(pipe[a].m)
              => pipe[b].m = pipe[a].m /\ pipe[b].pos = pipe[a].pos + (b - a)
        /\ pipe[a].m = pipe[b].m => pipe[b].pos = pipe[a].pos + (b - a)
    BY <2>2 DEF Contiguous
  <2> QED
    BY <2>1, <2>2, <2>3
<1>4. ASSUME NEW i \in 1..Len(pipe'), i < Len(pipe'), pipe'[i].pos = Length(pipe'[i].m)
      PROVE  pipe'[i + 1].pos = 1
  <2>1. PICK a \in 1..Len(pipe) : a = i + k /\ pipe'[i] = pipe[a]
    BY <1>2
  <2>2. i + 1 \in 1..Len(pipe') /\ (i + 1) + k = a + 1 /\ a < Len(pipe)
    BY <1>1, <1>4, <2>1
  <2>3. pipe'[i + 1] = pipe[a + 1]
    BY <1>2, <2>2
  <2> QED
    BY <1>4, <2>1, <2>2, <2>3 DEF Contiguous
<1> QED
  BY <1>3, <1>4 DEF Contiguous

LEMMA AddsContiguous ==
    ASSUME Base, Orderly, Stream, NEW p \in Procs, pc[p] = "sending",
           NEW n, Adds(p, n), sent[p] + n <= Length(cur[p])
    PROVE  Contiguous'
<1> DEFINE L == Len(pipe)
           m == cur[p]
           s == sent[p]
<1>1. /\ TypeOK /\ Contiguous /\ LastByte /\ L \in Nat /\ n \in Nat \ {0} /\ s \in Nat
      /\ Length(m) \in Nat /\ Len(pipe') = L + n /\ m \in Messages
  BY PipeFacts, EndValues DEF Base, Stream, Adds, TypeOK
<1>2. /\ \A i \in 1..L : pipe'[i] = pipe[i]
      /\ \A i \in 1..Len(pipe') :
            i > L => pipe'[i] = [m |-> m, pos |-> s + (i - L)]
  BY DEF Adds
<1>3. /\ s = 0 => /\ L > 0 => pipe[L].pos = Length(pipe[L].m)
                  /\ \A i \in 1..L : pipe[i].m # m
      /\ s > 0 /\ L > 0 => pipe[L].m = m /\ pipe[L].pos = s
  <2>1. L > 0 <=> pipe # <<>>
    BY <1>1, PipeFacts
  <2>2. s = 0 => /\ L > 0 => pipe[L].pos = Length(pipe[L].m)
                 /\ \A i \in 1..L : pipe[i].m # m
    BY <2>1, BeginsMessage DEF Last
  <2>3. s > 0 /\ L > 0 => pipe[L].m = m /\ pipe[L].pos = s
    BY <1>1, <2>1 DEF LastByte, Last
  <2> QED
    BY <2>2, <2>3
<1>4. \A i \in 1..L : pipe[i].pos \in Nat /\ Length(pipe[i].m) \in Nat
  BY <1>1, PipeFacts
<1>8. ASSUME NEW i \in 1..L
      PROVE  /\ pipe[i].pos + (L - i) <= Length(pipe[i].m)
                  => pipe[L].m = pipe[i].m /\ pipe[L].pos = pipe[i].pos + (L - i)
             /\ pipe[i].m = pipe[L].m => pipe[L].pos = pipe[i].pos + (L - i)
  <2>1. L \in 1..Len(pipe) /\ i <= L
    BY <1>1
  <2> QED
    BY <1>1, <2>1 DEF Contiguous
<1> HIDE DEF L, m, s
<1>5. ASSUME NEW i \in 1..L, NEW j \in 1..Len(pipe'), j > L,
             pipe[i].pos + (j - i) <= Length(pipe[i].m) \/ pipe[i].m = m
      PROVE  pipe[i].m = m /\ s + (j - L) = pipe[i].pos + (j - i)
  <2>1. L \in 1..L /\ i <= L /\ L > 0 /\ i \in Nat /\ j \in Nat
    BY <1>1
  <2>2. CASE pipe[i].pos + (j - i) <= Length(pipe[i].m)
    <3>1. pipe[i].pos + (L - i) < Length(pipe[i].m)
      BY <1>1, <1>4, <1>5, <2>1, <2>2
    <3>2. pipe[L].m = pipe[i].m /\ pipe[L].pos = pipe[i].pos + (L - i)
      <4>1. pipe[i].pos + (L - i) <= Length(pipe[i].m)
        BY <1>1, <1>4, <2>1, <3>1
      <4> QED
        BY <4>1, <1>8
    <3>3. s # 0
      <4>1. pipe[L].pos # Length(pipe[L].m)
        BY <1>1, <1>4, <2>1, <3>1, <3>2
      <4> QED
        BY <4>1, <1>3, <2>1
    <3>4. pipe[L].m = m /\ pipe[L].pos = s
      BY <1>1, <1>3, <2>1, <3>3
    <3>5. s = pipe[i].pos + (L - i) /\ pipe[i].m = m
      BY <3>2, <3>4
    <3>6. pipe[i].pos \in Nat
      BY <1>4
    <3> QED
      BY <1>1, <2>1, <3>5, <3>6
  <2>3. CASE pipe[i].m = m
    <3>1. s > 0
      BY <1>1, <1>3, <2>3
    <3>2. pipe[L].m = m /\ pipe[L].pos = s
      BY <1>3, <2>1, <3>1
    <3>3. pipe[L].pos = pipe[i].pos + (L - i)
      BY <1>8, <2>3, <3>2
    <3> QED
      BY <1>1, <1>4, <2>1, <2>3, <3>2, <3>3
  <2> QED
    BY <1>5, <2>2, <2>3
<1>6. ASSUME NEW i \in 1..Len(pipe'), NEW j \in 1..Len(pipe'), i <= j
      PROVE  /\ pipe'[i].pos + (j - i) <= Length(pipe'[i].m)
                  => pipe'[j].m = pipe'[i].m /\ pipe'[j].pos = pipe'[i].pos + (j - i)
             /\ pipe'[i].m = pipe'[j].m => pipe'[j].pos = pipe'[i].pos + (j - i)
  <2>1. CASE j <= L
    <3>1. i \in 1..L /\ j \in 1..L
      BY <1>1, <1>6, <2>1
    <3>2. pipe'[i] = pipe[i] /\ pipe'[j] = pipe[j]
      BY <1>2, <3>1
    <3> QED
      BY <1>1, <1>6, <3>1, <3>2 DEF Contiguous, L
  <2>2. CASE i > L
    <3>1. /\ pipe'[i].m = m /\ pipe'[i].pos = s + (i - L)
          /\ pipe'[j].m = m /\ pipe'[j].pos = s + (j - L)
      BY <1>1, <1>2, <1>6, <2>2
    <3>2. s + (j - L) = (s + (i - L)) + (j - i)
      BY <1>1, <1>6
    <3> QED
      BY <3>1, <3>2
  <2>3. CASE i <= L /\ j > L
    <3>1. /\ i \in 1..L /\ pipe'[i] = pipe[i] /\ pipe'[j].m = m /\ pipe'[j].pos = s + (j - L)
      BY <1>1, <1>2, <2>3
    <3> QED
      BY <1>5, <2>3, <3>1
  <2> QED
    BY <1>1, <2>1, <2>2, <2>3
<1>7. ASSUME NEW i \in 1..Len(pipe'), i < Len(pipe'), pipe'[i].pos = Length(pipe'[i].m)
      PROVE  pipe'[i + 1].pos = 1
  <2>1. CASE i < L
    <3>1. i \in 1..L /\ i + 1 \in 1..L
      BY <1>1, <2>1
    <3>2. pipe'[i] = pipe[i] /\ pipe'[i + 1] = pipe[i + 1]
      BY <1>2, <3>1
    <3> QED
      BY <1>1, <1>7, <2>1, <3>1, <3>2 DEF Contiguous, L
  <2>2. CASE i = L
    <3>1. i \in 1..L /\ L > 0 /\ L + 1 \in 1..Len(pipe') /\ L + 1 > L
      BY <1>1, <1>7, <2>2
    <3>2. pipe'[i] = pipe[L] /\ pipe'[i + 1].pos = s + ((L + 1) - L)
      <4>1. pipe'[L] = pipe[L]
        BY <1>2, <2>2, <3>1
      <4>2. pipe'[L + 1] = [m |-> m, pos |-> s + ((L + 1) - L)]
        BY <1>2, <3>1
      <4> QED
        BY <4>1, <4>2, <2>2
    <3>3. s < Length(m)
      BY <1>1 DEF m, s
    <3>4. s = 0
      BY <1>1, <1>3, <1>7, <3>1, <3>2, <3>3
    <3> QED
      BY <1>1, <3>2, <3>4
  <2>3. CASE i > L
    <3>1. pipe'[i].m = m /\ pipe'[i].pos = s + (i - L)
      <4>1. pipe'[i] = [m |-> m, pos |-> s + (i - L)]
        BY <1>2, <2>3
      <4> QED
        BY <4>1
    <3>2. s + (i - L) < s + n
      BY <1>1, <1>7, <2>3
    <3>3. s + n <= Length(m)
      BY DEF m, s
    <3> QED
      BY <1>1, <1>7, <3>1, <3>2, <3>3
  <2> QED
    BY <1>1, <2>1, <2>2, <2>3
<1> QED
  BY <1>6, <1>7 DEF Contiguous

\* An exclusive request: whoever waits for a reply, or will, holds the lock.
LEMMA WantedHolds ==
    ASSUME Base, NEW m \in Messages, Wanted(m), ReplyUnits(m.op) # 0
    PROVE  /\ lock.exclusive = m.from /\ lock.shared = {} /\ m.from \in Procs
           /\ pc[m.from] \in {"sending", "awaiting"} /\ cur[m.from] = m
<1>1. m.from \in Procs /\ pc[m.from] \in {"sending", "awaiting"} /\ cur[m.from] = m /\ Locked
  BY DEF Wanted, Base, Messages
<1>2. m.from \notin lock.shared
  BY <1>1 DEF Locked, Shares, ReplyUnits
<1> QED
  BY <1>1, <1>2, ProcAssumption DEF Locked

-----------------------------------------------------------------------------
(* A write *)

\* What p has written of its message is what follows: in the pipe, or read.
LEMMA Continues ==
    ASSUME Base, Orderly, Stream, NEW p \in Procs, pc[p] = "sending"
    PROVE  /\ worker.at = "reply" => worker.m # cur[p]
           /\ worker.at = "field" /\ worker.m = cur[p] => sent[p] = Consumed + Len(pipe)
<1>1. TypeOK /\ sent[p] \in Nat /\ Len(pipe) \in Nat /\ LastByte /\ Rest /\ Handling
  BY PipeFacts DEF Base, Stream, TypeOK
<1>2. CASE sent[p] = 0
  BY <1>2, BeginsMessage DEF Busy
<1>3. CASE sent[p] > 0 /\ pipe # <<>>
  <2>1. Len(pipe) \in 1..Len(pipe) /\ pipe[Len(pipe)].m = cur[p] /\ pipe[Len(pipe)].pos = sent[p]
    BY <1>1, <1>3, PipeFacts DEF LastByte, Last
  <2> QED
    BY <1>1, <2>1 DEF Rest
<1>4. CASE sent[p] > 0 /\ pipe = <<>>
  <2>1. Reading /\ worker.m = cur[p] /\ Consumed = sent[p] /\ Len(pipe) = 0
    BY <1>1, <1>4, PipeFacts DEF LastByte
  <2> QED
    BY <1>1, <2>1 DEF Reading
<1> QED
  BY <1>1, <1>2, <1>3, <1>4

LEMMA WritesStream ==
    ASSUME Base, Orderly, Stream, NEW p \in Procs, NEW n \in Nat \ {0}, Writes(p, n), Alone(p)
    PROVE  Stream'
<1> DEFINE L == Len(pipe)
<1>0. PICK m \in Messages, s \in Nat : m = cur[p] /\ s = sent[p]
  BY DEF Base, TypeOK
<1>1. /\ TypeOK /\ Contiguous /\ FirstByte /\ LastByte /\ Rest /\ BegunAll /\ Handling
      /\ L \in Nat /\ s \in Nat /\ m \in Messages /\ Length(m) \in Nat
      /\ m.from = p /\ m.seq = calls[p] /\ calls[p] \in Nat /\ pc[p] = "sending"
      /\ (L = 0 <=> pipe = <<>>)
  BY <1>0, PipeFacts, EndValues DEF Base, Stream, TypeOK, Writes, Current
<1>2. /\ Adds(p, n) /\ s + n <= Length(m) /\ UNCHANGED <<cur, calls, worker>>
      /\ cur[p] = m /\ sent[p] = s
      /\ sent'[p] = s + n /\ \A q \in Procs : q # p => sent'[q] = sent[q] /\ pc'[q] = pc[q]
      /\ pc'[p] # "locking" /\ (s + n < Length(m) => pc'[p] = "sending")
  <2>1. /\ sent \in [Procs -> Nat]
        /\ pc \in [Procs -> {"idle", "locking", "sending", "awaiting"}]
    BY <1>1 DEF TypeOK
  <2> QED
    BY <1>0, <1>1, <2>1 DEF Writes, Alone
<1>3. /\ \A i \in 1..L : pipe'[i] = pipe[i]
      /\ \A i \in 1..Len(pipe') :
            i > L => pipe'[i] = [m |-> m, pos |-> s + (i - L)]
      /\ Len(pipe') = L + n /\ pipe' # <<>>
  <2>1. /\ \A i \in 1..L : pipe'[i] = pipe[i]
        /\ \A i \in 1..Len(pipe') :
              i > L => pipe'[i] = [m |-> cur[p], pos |-> sent[p] + (i - L)]
        /\ Len(pipe') = L + n
    BY <1>2 DEF Adds
  <2>2. pipe' # <<>>
    BY <1>1, <2>1, EmptySeq
  <2> QED
    BY <1>0, <2>1, <2>2
<1>4. Consumed' = Consumed /\ (Reading' <=> Reading) /\ (Busy' <=> Busy)
  BY <1>2 DEF Consumed, Reading, Busy
<1>5. Contiguous'
  BY <1>1, <1>2, AddsContiguous
<1>6. FirstByte'
  <2>1. CASE L > 0
    <3>1. pipe # <<>> /\ pipe'[1] = pipe[1]
      BY <1>1, <1>3, <2>1
    <3> QED
      BY <1>1, <1>2, <1>3, <1>4, <3>1 DEF FirstByte
  <2>2. CASE L = 0
    <3>1. pipe = <<>> /\ 1 \in 1..Len(pipe') /\ 1 > L
      BY <1>1, <1>3, <2>2
    <3>2. pipe'[1] = [m |-> m, pos |-> s + (1 - L)]
      BY <1>3, <3>1
    <3>3. pipe'[1].m = m /\ pipe'[1].pos = s + 1
      BY <1>1, <2>2, <3>2
    <3>4. CASE s = 0
      <4>1. pipe'[1].pos = 1
        BY <3>3, <3>4
      <4>2. ~Reading
        BY <1>0, <1>1, <3>1, <3>4, BeginsMessage
      <4> QED
        BY <1>4, <4>1, <4>2 DEF FirstByte
    <3>5. CASE s > 0
      BY <1>1, <1>2, <1>4, <3>1, <3>3, <3>5 DEF FirstByte, LastByte
    <3> QED
      BY <1>1, <3>4, <3>5
  <2> QED
    BY <1>1, <2>1, <2>2
<1>7. LastByte'
  <2>1. L + n \in 1..Len(pipe') /\ L + n > L
    BY <1>1, <1>3
  <2>2. pipe'[L + n] = [m |-> m, pos |-> s + ((L + n) - L)]
    BY <1>3, <2>1
  <2>3. Last'.m = m /\ Last'.pos = s + n
    BY <1>1, <1>3, <2>2 DEF Last
  <2>4. \/ Last'.pos = Length(Last'.m)
        \/ /\ pc'[Last'.m.from] = "sending" /\ cur'[Last'.m.from] = Last'.m
           /\ sent'[Last'.m.from] = Last'.pos
    BY <1>1, <1>2, <2>3
  <2>5. ASSUME NEW q \in Procs, pc'[q] = "sending", sent'[q] > 0
        PROVE  Last'.m = cur'[q] /\ Last'.pos = sent'[q]
    <3>1. CASE q = p
      BY <1>2, <2>3, <3>1
    <3>2. CASE q # p
      <4>1. pc[q] = "sending" /\ sent[q] > 0
        BY <1>2, <2>5, <3>2
      <4> QED
        BY <1>1, <3>2, <4>1, SoleWriter, OrderlyFacts
    <3> QED
      BY <3>1, <3>2
  <2> QED
    BY <1>2, <1>3, <2>4, <2>5 DEF LastByte, Sent
<1>8. Rest'
  <2>1. ASSUME NEW i \in 1..Len(pipe'), worker.at = "field", pipe'[i].m = worker.m
        PROVE  pipe'[i].pos = Consumed + i
    <3>1. CASE i <= L
      <4>1. i \in 1..L /\ pipe'[i] = pipe[i]
        BY <1>1, <1>3, <3>1
      <4> QED
        BY <1>1, <2>1, <4>1 DEF Rest
    <3>2. CASE i > L
      <4>1. pipe'[i] = [m |-> m, pos |-> s + (i - L)]
        BY <1>3, <3>2
      <4>2. s = Consumed + L /\ Consumed \in Nat
        <5>1. worker.f - 1 \in 0..Fields(worker.m)
          BY <1>1, <2>1, WorkerRecord DEF Handling
        <5>2. Consumed \in Nat
          BY <1>1, <5>1, WorkerRecord, EndValues DEF Consumed
        <5> QED
          BY <1>0, <1>1, <2>1, <4>1, <5>2, Continues
      <4> QED
        BY <1>1, <1>3, <4>1, <4>2
    <3> QED
      BY <1>1, <3>1, <3>2
  <2>2. ASSUME NEW i \in 1..Len(pipe'), worker.at = "reply"
        PROVE  pipe'[i].m # worker.m
    <3>1. CASE i <= L
      <4>1. i \in 1..L /\ pipe'[i] = pipe[i]
        BY <1>1, <1>3, <3>1
      <4> QED
        BY <1>1, <2>2, <4>1 DEF Rest
    <3>2. CASE i > L
      <4>1. pipe'[i] = [m |-> m, pos |-> s + (i - L)]
        BY <1>3, <3>2
      <4> QED
        BY <1>0, <1>1, <2>2, <4>1, Continues
    <3> QED
      BY <1>1, <3>1, <3>2
  <2> QED
    BY <1>2, <1>4, <2>1, <2>2 DEF Rest
<1>9. BegunAll'
  <2> DEFINE BegunThen(x) ==
         /\ x.seq <= calls'[x.from]
         /\ pc'[x.from] = "locking" \/ (pc'[x.from] = "sending" /\ sent'[x.from] = 0)
               => x.seq < calls'[x.from]
  <2>1. ASSUME NEW x \in Messages, Begun(x) \/ x = m
        PROVE  BegunThen(x)
    <3>1. CASE x.from = p
      <4>1. sent'[p] # 0 /\ x.seq <= calls[p]
        BY <1>1, <1>2, <2>1, <3>1 DEF Begun
      <4> QED
        BY <1>1, <1>2, <3>1, <4>1
    <3>2. CASE x.from # p
      <4>1. x.from \in Procs /\ Begun(x)
        BY <1>1, <2>1, <3>2 DEF Messages
      <4> QED
        BY <1>2, <3>2, <4>1 DEF Begun
    <3> QED
      BY <3>1, <3>2
  <2>2. ASSUME NEW i \in 1..Len(pipe')
        PROVE  pipe'[i].m \in Messages /\ (Begun(pipe'[i].m) \/ pipe'[i].m = m)
    <3>1. CASE i <= L
      <4>1. i \in 1..L /\ pipe'[i] = pipe[i]
        BY <1>1, <1>3, <3>1
      <4>2. pipe[i].m \in Messages /\ Begun(pipe[i].m)
        BY <1>1, <4>1, PipeFacts DEF BegunAll
      <4> QED
        BY <4>1, <4>2
    <3>2. CASE i > L
      <4>1. pipe'[i] = [m |-> m, pos |-> s + (i - L)]
        BY <1>3, <3>2
      <4>2. pipe'[i].m = m
        BY <4>1
      <4> QED
        BY <1>1, <4>2
    <3> QED
      BY <1>1, <3>1, <3>2
  <2>3. Busy => Begun(worker.m) /\ worker.m \in Messages
    BY <1>1, WorkerRecord DEF BegunAll
  <2> HIDE DEF BegunThen
  <2>4. (\A i \in 1..Len(pipe') : BegunThen(pipe'[i].m)) /\ (Busy => BegunThen(worker.m))
    BY <2>1, <2>2, <2>3
  <2> QED
    BY <1>2, <1>4, <2>4 DEF BegunAll, Begun, BegunThen
<1> QED
  BY <1>5, <1>6, <1>7, <1>8, <1>9 DEF Stream

\* While p writes a request that is to be answered, no reply is in the pipe nor
\* being written.
LEMMA NoReplyYet ==
    ASSUME Base, Orderly, Stream, Exchange, NEW p \in Procs, pc[p] = "sending",
           lock.exclusive = p
    PROVE  replies = <<>> /\ worker.at # "reply"
<1>1. TypeOK /\ Locked /\ Handling /\ AnswersTheAsker /\ WantedAll /\ lock.shared = {}
  BY ProcAssumption DEF Base, Exchange, Locked
<1>2. replies = <<>>
  <2>1. SUFFICES ASSUME replies # <<>> PROVE FALSE
    OBVIOUS
  <2>2. 1 \in 1..Len(replies) /\ replies[1] \in Messages
    BY <1>1, <2>1, RepliesFacts DEF TypeOK
  <2>3. replies[1].from \in Procs /\ pc[replies[1].from] = "awaiting"
    BY <1>1, <2>2 DEF AnswersTheAsker, Messages
  <2> QED
    BY <1>1, <2>3 DEF Locked
<1>3. worker.at # "reply"
  <2>1. SUFFICES ASSUME worker.at = "reply" PROVE FALSE
    OBVIOUS
  <2>2. Wanted(worker.m) /\ worker.m \in Messages
    BY <1>1, <2>1, WorkerRecord DEF WantedAll, Busy
  <2>3. ReplyUnits(worker.m.op) # 0
    BY <1>1, <2>1, WorkerRecord DEF Handling
  <2>4. worker.m.from = p /\ worker.m = cur[p]
    BY <2>2, <2>3, WantedHolds
  <2> QED
    BY <2>1, <2>4, Continues
<1> QED
  BY <1>2, <1>3

LEMMA WritesExchange ==
    ASSUME Base, Orderly, Stream, Exchange,
           NEW p \in Procs, NEW n \in Nat \ {0}, Writes(p, n), Alone(p)
    PROVE  Exchange'
<1> DEFINE L == Len(pipe)
<1>0. PICK m \in Messages, s \in Nat : m = cur[p] /\ s = sent[p]
  BY DEF Base, TypeOK
<1>1. /\ TypeOK /\ Locked /\ Handling /\ WantedAll /\ AnswersTheAsker
      /\ \A q \in Procs : Counted(q)
      /\ L \in Nat /\ m.from = p /\ pc[p] = "sending" /\ got[p] = 0 /\ Length(m) \in Nat
      /\ cur[p] = m
  BY <1>0, PipeFacts, EndValues DEF Base, Exchange, Writes, Current, Written
<1>2. /\ Adds(p, n) /\ UNCHANGED <<replies, cur, got, calls, worker>>
      /\ \A q \in Procs : q # p => pc'[q] = pc[q]
  BY DEF Writes, Alone
<1>3. Awaits(p, m.op) = ReplyUnits(m.op)
  BY <1>1, OrderlyFacts
<1>4. \/ pc'[p] = "sending"
      \/ pc'[p] = "awaiting" /\ Awaits(p, m.op) > 0
      \/ pc'[p] = "idle" /\ ~(Awaits(p, m.op) > 0)
  <2>1. pc \in [Procs -> {"idle", "locking", "sending", "awaiting"}]
    BY <1>1 DEF TypeOK
  <2> QED
    BY <1>1, <2>1 DEF Writes
<1>5. ReplyUnits(m.op) \in Nat
  BY <1>1 DEF ReplyUnits, Messages, Ops, TokenOps
<1>6. /\ \A i \in 1..L : pipe'[i] = pipe[i]
      /\ \A i \in 1..Len(pipe') : i > L => pipe'[i].m = m
      /\ Len(pipe') = L + n
  <2>1. ASSUME NEW i \in 1..Len(pipe'), i > L PROVE pipe'[i].m = m
    <3>1. pipe'[i] = [m |-> cur[p], pos |-> sent[p] + (i - L)]
      BY <1>2, <2>1 DEF Adds
    <3> QED
      BY <1>1, <3>1
  <2> QED
    BY <1>2, <2>1 DEF Adds
<1> DEFINE WantedThen(x) ==
       ReplyUnits(x.op) = 0 \/ (pc'[x.from] \in {"sending", "awaiting"} /\ cur'[x.from] = x)
<1>7. ASSUME NEW x \in Messages, Wanted(x) \/ x = m
      PROVE  WantedThen(x)
  <2>1. CASE ReplyUnits(x.op) = 0
    BY <2>1
  <2>2. CASE ReplyUnits(x.op) # 0 /\ x.from = p
    <3>1. x = m
      BY <1>1, <1>7, <2>2 DEF Wanted
    <3> QED
      BY <1>1, <1>2, <1>3, <1>4, <1>5, <2>2, <3>1
  <2>3. CASE ReplyUnits(x.op) # 0 /\ x.from # p
    <3>1. x.from \in Procs /\ Wanted(x)
      BY <1>1, <1>7, <2>3 DEF Messages
    <3> QED
      BY <1>2, <2>3, <3>1 DEF Wanted
  <2> QED
    BY <2>1, <2>2, <2>3
<1>8. WantedAll'
  <2>1. ASSUME NEW i \in 1..Len(pipe')
        PROVE  pipe'[i].m \in Messages /\ (Wanted(pipe'[i].m) \/ pipe'[i].m = m)
    <3>1. CASE i <= L
      <4>1. i \in 1..L /\ pipe'[i] = pipe[i]
        BY <1>1, <1>6, <3>1
      <4>2. pipe[i].m \in Messages /\ Wanted(pipe[i].m)
        BY <1>1, <4>1, PipeFacts DEF WantedAll
      <4> QED
        BY <4>1, <4>2
    <3>2. CASE i > L
      BY <1>6, <3>2
    <3> QED
      BY <1>1, <3>1, <3>2
  <2>2. Busy => Wanted(worker.m) /\ worker.m \in Messages
    BY <1>1, WorkerRecord DEF WantedAll
  <2> HIDE DEF WantedThen
  <2>3. (\A i \in 1..Len(pipe') : WantedThen(pipe'[i].m)) /\ (Busy => WantedThen(worker.m))
    BY <1>7, <2>1, <2>2
  <2> QED
    BY <1>2, <2>3 DEF WantedAll, Wanted, WantedThen, Busy
<1>9. pc'[p] = "awaiting" => lock.exclusive = p /\ replies = <<>> /\ worker.at # "reply"
  <2>1. SUFFICES ASSUME pc'[p] = "awaiting" PROVE lock.exclusive = p
    BY <1>1, NoReplyYet
  <2> QED
    BY <1>1, <1>4, <2>1, AwaiterHolds
<1>10. AnswersTheAsker'
  <2>1. CASE pc'[p] = "awaiting"
    <3>1. replies' = <<>> /\ Len(replies') = 0
      BY <1>2, <1>9, <2>1
    <3> QED
      BY <3>1 DEF AnswersTheAsker
  <2>2. CASE pc'[p] # "awaiting"
    <3>1. ASSUME NEW i \in 1..Len(replies)
          PROVE  /\ pc'[replies[i].from] = "awaiting" /\ cur'[replies[i].from] = replies[i]
                 /\ \A q \in Procs : pc'[q] = "awaiting" => q = replies[i].from
      <4>1. replies[i].from \in Procs
        BY <1>1, RepliesFacts DEF TypeOK, Messages
      <4> QED
        BY <1>1, <1>2, <2>2, <4>1 DEF AnswersTheAsker
    <3> QED
      BY <1>2, <3>1 DEF AnswersTheAsker
  <2> QED
    BY <2>1, <2>2
<1>11. ASSUME NEW q \in Procs PROVE Counted(q)'
  <2>1. SUFFICES ASSUME pc'[q] = "awaiting" PROVE Counted(q)'
    BY DEF Counted
  <2>2. q = p
    <3>1. SUFFICES ASSUME q # p, pc[q] = "awaiting" PROVE FALSE
      BY <1>2, <2>1
    <3> QED
      BY <1>1, <3>1, ProcAssumption DEF Locked
  <2>3. /\ got'[p] = 0 /\ replies' = <<>> /\ worker'.at # "reply" /\ cur'[p] = m
        /\ 0 < ReplyUnits(m.op)
    BY <1>1, <1>2, <1>3, <1>4, <1>9, <2>1, <2>2
  <2>4. InFlight(cur[p])'
    <3>1. L + n \in 1..Len(pipe') /\ L + n > L
      BY <1>1, <1>6
    <3>2. pipe'[L + n].m = m
      BY <1>6, <3>1
    <3>3. \E i \in 1..Len(pipe') : pipe'[i].m = cur'[p]
      BY <2>3, <3>1, <3>2
    <3> QED
      BY <3>3 DEF InFlight
  <2> QED
    BY <2>2, <2>3, <2>4 DEF Counted
<1> QED
  BY <1>8, <1>10, <1>11 DEF Exchange

LEMMA WritesOrdered ==
    ASSUME Base, Ordered, ReplyProvesApplied,
           NEW p \in Procs, NEW n \in Nat \ {0}, Writes(p, n), Alone(p)
    PROVE  Ordered' /\ ReplyProvesApplied'
<1> DEFINE L == Len(pipe)
<1>0. PICK m \in Messages, s \in Nat : m = cur[p] /\ s = sent[p]
  BY DEF Base, TypeOK
<1>1. /\ TypeOK /\ L \in Nat /\ m.from = p /\ m.seq = calls[p] /\ calls[p] \in Nat
      /\ pc[p] = "sending" /\ cur[p] = m
  BY <1>0, PipeFacts DEF Base, TypeOK, Writes, Current
<1>2. /\ Adds(p, n) /\ UNCHANGED <<replies, calls, worker, applied>>
      /\ \A q \in Procs : q # p => pc'[q] = pc[q] /\ sent'[q] = sent[q]
  BY DEF Writes, Alone
<1>3. /\ \A i \in 1..L : pipe'[i] = pipe[i]
      /\ \A i \in 1..Len(pipe') : i > L => pipe'[i].m = m
      /\ Len(pipe') = L + n
  <2>1. ASSUME NEW i \in 1..Len(pipe'), i > L PROVE pipe'[i].m = m
    <3>1. pipe'[i] = [m |-> cur[p], pos |-> sent[p] + (i - L)]
      BY <1>2, <2>1 DEF Adds
    <3> QED
      BY <1>1, <3>1
  <2> QED
    BY <1>2, <2>1 DEF Adds
<1> DEFINE QueuedThen(q, k, l) == \E j \in 1..l : pipe'[j].m.from = q /\ pipe'[j].m.seq = k
           Settled(q, k) == Done(q, k) \/ AtHand(q, k)
<1>4. ASSUME NEW q, NEW k, NEW l \in 0..L, NEW h \in l..Len(pipe'), Queued(q, k, l)
      PROVE  QueuedThen(q, k, h)
  <2>1. PICK j \in 1..l : pipe[j].m.from = q /\ pipe[j].m.seq = k
    BY <1>4 DEF Queued
  <2>2. j \in 1..h /\ j \in 1..L
    BY <1>1, <1>3
  <2> QED
    BY <1>3, <2>1, <2>2
<1> HIDE DEF QueuedThen
<1>5. ASSUME NEW q \in Procs, NEW k \in 1..calls[q]
      PROVE  \/ Settled(q, k) \/ QueuedThen(q, k, Len(pipe'))
             \/ k = calls[q] /\ (pc'[q] = "locking" \/ (pc'[q] = "sending" /\ sent'[q] = 0))
  <2>1. CASE q = p /\ k = calls[p]
    <3>1. L + n \in 1..Len(pipe') /\ L + n > L
      BY <1>1, <1>3
    <3>2. pipe'[L + n].m = m
      BY <1>3, <3>1
    <3> QED
      BY <1>1, <2>1, <3>1, <3>2 DEF QueuedThen
  <2>2. CASE Queued(q, k, L)
    <3>1. L \in 0..L /\ Len(pipe') \in L..Len(pipe')
      BY <1>1, <1>3
    <3> QED
      BY <1>4, <2>2, <3>1
  <2>3. CASE Done(q, k) \/ AtHand(q, k)
    BY <2>3
  <2>4. CASE q # p /\ k = calls[q] /\ (pc[q] = "locking" \/ (pc[q] = "sending" /\ sent[q] = 0))
    BY <1>2, <2>4
  <2> QED
    BY <2>1, <2>2, <2>3, <2>4 DEF Ordered
<1>6. ASSUME NEW i \in 1..Len(pipe'), NEW k \in 1..pipe'[i].m.seq, k < pipe'[i].m.seq
      PROVE  \/ Settled(pipe'[i].m.from, k)
             \/ QueuedThen(pipe'[i].m.from, k, i - 1)
  <2>1. CASE i <= L
    <3>1. i \in 1..L /\ pipe'[i] = pipe[i] /\ i - 1 \in 0..L /\ i - 1 \in (i - 1)..Len(pipe')
      BY <1>1, <1>3, <2>1
    <3>2. PICK x : x = pipe[i].m.from
      OBVIOUS
    <3>3. Settled(x, k) \/ Queued(x, k, i - 1)
      BY <1>6, <3>1, <3>2 DEF Ordered
    <3>4. Queued(x, k, i - 1) => QueuedThen(x, k, i - 1)
      BY <1>4, <3>1
    <3> HIDE DEF Settled
    <3> QED
      BY <3>1, <3>2, <3>3, <3>4
  <2>2. CASE i > L
    <3>1. pipe'[i].m = m /\ k \in 1..calls[p] /\ k # calls[p]
      BY <1>1, <1>3, <1>6, <2>2
    <3>2. Settled(p, k) \/ Queued(p, k, L)
      BY <3>1 DEF Ordered
    <3>3. L \in 0..L /\ i - 1 \in L..Len(pipe')
      BY <1>1, <1>3, <2>2
    <3>4. Queued(p, k, L) => QueuedThen(p, k, i - 1)
      BY <1>4, <3>3
    <3> HIDE DEF Settled
    <3> QED
      BY <1>1, <3>1, <3>2, <3>4
  <2> QED
    BY <1>1, <2>1, <2>2
<1>7. Ordered'
  <2>1. \A q, k : (Done(q, k)' <=> Done(q, k)) /\ (AtHand(q, k)' <=> AtHand(q, k))
    BY <1>2 DEF Done, AtHand
  <2> HIDE DEF Settled
  <2>2. \A q \in Procs : \A k \in 1..calls'[q] :
          \/ Done(q, k)' \/ AtHand(q, k)' \/ QueuedThen(q, k, Len(pipe'))
          \/ k = calls'[q] /\ (pc'[q] = "locking" \/ (pc'[q] = "sending" /\ sent'[q] = 0))
    BY <1>2, <1>5, <2>1 DEF Settled
  <2>3. \A i \in 1..Len(pipe') : \A k \in 1..pipe'[i].m.seq : k < pipe'[i].m.seq =>
          \/ <<pipe'[i].m.from, k>> \in applied'
          \/ worker'.at = "field" /\ worker'.m.from = pipe'[i].m.from /\ worker'.m.seq = k
          \/ QueuedThen(pipe'[i].m.from, k, i - 1)
    BY <1>2, <1>6 DEF Settled, Done, AtHand
  <2>4. /\ Busy' => \A k \in 1..worker'.m.seq : k < worker'.m.seq =>
                       <<worker'.m.from, k>> \in applied'
        /\ worker'.at = "reply" => <<worker'.m.from, worker'.m.seq>> \in applied'
    BY <1>2 DEF Ordered, Busy, Done
  <2> QED
    BY <2>2, <2>3, <2>4 DEF Ordered, Queued, QueuedThen, Done, AtHand
<1>8. ReplyProvesApplied'
  BY <1>2 DEF ReplyProvesApplied
<1> QED
  BY <1>7, <1>8

-----------------------------------------------------------------------------
(* Steps of a process that leave the request pipe alone *)

\* A process begins a request, gets the lock, or reads of a reply.
Quiet(p) ==
    /\ Alone(p) /\ UNCHANGED <<pipe, worker, applied>>
    /\ pc[p] # "sending" /\ calls'[p] \in {calls[p], calls[p] + 1}
    /\ pc'[p] = "sending" => sent'[p] = 0
    /\ pc'[p] \in {"locking", "sending"} => calls'[p] = calls[p] + 1 \/ pc[p] = "locking"
    /\ calls'[p] = calls[p] + 1 => pc'[p] \in {"locking", "sending"}
    /\ pc[p] = "locking" => pc'[p] \in {"locking", "sending"} /\ calls'[p] = calls[p]

LEMMA QuietStream ==
    ASSUME Base, Stream, NEW p \in Procs, Quiet(p)
    PROVE  Stream'
<1>1. /\ TypeOK /\ Contiguous /\ FirstByte /\ LastByte /\ Rest /\ BegunAll /\ calls[p] \in Nat
      /\ pc[p] # "sending" /\ calls'[p] \in {calls[p], calls[p] + 1}
      /\ pc'[p] = "sending" => sent'[p] = 0
      /\ pc'[p] \in {"locking", "sending"} => calls'[p] = calls[p] + 1 \/ pc[p] = "locking"
      /\ pc[p] = "locking" => calls'[p] = calls[p]
  BY DEF Base, Stream, TypeOK, Quiet
<1>2. /\ pipe' = pipe /\ worker' = worker
      /\ \A q \in Procs : q # p =>
            /\ pc'[q] = pc[q] /\ cur'[q] = cur[q] /\ calls'[q] = calls[q] /\ sent'[q] = sent[q]
  BY DEF Quiet, Alone
<1>3. /\ Last' = Last /\ Consumed' = Consumed /\ (Reading' <=> Reading) /\ (Busy' <=> Busy)
  BY <1>2 DEF Last, Consumed, Reading, Busy
<1>4. Contiguous' /\ FirstByte' /\ Rest'
  BY <1>1, <1>2, <1>3 DEF Contiguous, FirstByte, Rest
<1>5. LastByte'
  <2>1. ASSUME NEW m \in Messages, NEW k, Sent(m, k)
        PROVE  pc'[m.from] = "sending" /\ cur'[m.from] = m /\ sent'[m.from] = k
    BY <1>1, <1>2, <2>1 DEF Sent, Messages
  <2>2. pipe # <<>> => Last.m \in Messages
    <3>1. pipe # <<>> => Len(pipe) \in 1..Len(pipe)
      BY <1>1, PipeFacts
    <3> QED
      BY <1>1, <3>1, PipeFacts DEF Last
  <2>3. worker.m \in Messages
    BY <1>1, WorkerRecord
  <2>4. pipe' # <<>> => Last'.pos = Length(Last'.m) \/ Sent(Last.m, Last.pos)'
    BY <1>1, <1>2, <1>3, <2>1, <2>2 DEF LastByte, Sent
  <2>5. pipe' = <<>> /\ Reading' => Sent(worker.m, Consumed)'
    BY <1>1, <1>2, <1>3, <2>1, <2>3 DEF LastByte, Sent
  <2>6. \A q \in Procs : pc'[q] = "sending" /\ sent'[q] > 0 =>
           IF pipe' # <<>> THEN Last'.m = cur'[q] /\ Last'.pos = sent'[q]
           ELSE Reading' /\ worker'.m = cur'[q] /\ Consumed' = sent'[q]
    BY <1>1, <1>2, <1>3 DEF LastByte
  <2> QED
    BY <2>4, <2>5, <2>6 DEF LastByte
<1>6. BegunAll'
  <2> DEFINE BegunThen(x) ==
         /\ x.seq <= calls'[x.from]
         /\ pc'[x.from] = "locking" \/ (pc'[x.from] = "sending" /\ sent'[x.from] = 0)
               => x.seq < calls'[x.from]
  <2>1. ASSUME NEW x \in Messages, Begun(x)
        PROVE  BegunThen(x)
    <3>1. x.seq \in Nat /\ x.from \in Procs
      BY DEF Messages
    <3>2. CASE x.from = p
      BY <1>1, <2>1, <3>1, <3>2 DEF Begun
    <3>3. CASE x.from # p
      BY <1>2, <2>1, <3>1, <3>3 DEF Begun
    <3> QED
      BY <3>2, <3>3
  <2>2. /\ \A i \in 1..Len(pipe) : pipe[i].m \in Messages /\ Begun(pipe[i].m)
        /\ Busy => Begun(worker.m) /\ worker.m \in Messages
    BY <1>1, PipeFacts, WorkerRecord DEF BegunAll
  <2> HIDE DEF BegunThen
  <2>3. (\A i \in 1..Len(pipe) : BegunThen(pipe[i].m)) /\ (Busy => BegunThen(worker.m))
    BY <2>1, <2>2
  <2> QED
    BY <1>2, <1>3, <2>3 DEF BegunAll, Begun, BegunThen
<1> QED
  BY <1>4, <1>5, <1>6 DEF Stream

LEMMA QuietOrdered ==
    ASSUME Base, Ordered, NEW p \in Procs, Quiet(p)
    PROVE  Ordered'
<1>1. /\ calls[p] \in Nat /\ pc[p] # "sending" /\ calls'[p] \in {calls[p], calls[p] + 1}
      /\ pc'[p] = "sending" => sent'[p] = 0
      /\ calls'[p] = calls[p] + 1 => pc'[p] \in {"locking", "sending"}
      /\ pc[p] = "locking" => pc'[p] \in {"locking", "sending"} /\ calls'[p] = calls[p]
  BY DEF Base, TypeOK, Quiet
<1>2. /\ pipe' = pipe /\ worker' = worker /\ applied' = applied
      /\ \A q \in Procs : q # p =>
            /\ pc'[q] = pc[q] /\ cur'[q] = cur[q] /\ calls'[q] = calls[q] /\ sent'[q] = sent[q]
  BY DEF Quiet, Alone
<1>3. ASSUME NEW q \in Procs, NEW k \in 1..calls'[q]
      PROVE  \/ Done(q, k) \/ AtHand(q, k) \/ Queued(q, k, Len(pipe))
             \/ k = calls'[q] /\ (pc'[q] = "locking" \/ (pc'[q] = "sending" /\ sent'[q] = 0))
  <2>1. CASE q # p
    BY <1>2, <2>1 DEF Ordered
  <2>2. CASE q = p /\ k = calls[p] + 1
    BY <1>1, <2>2
  <2>3. CASE q = p /\ k # calls[p] + 1
    <3>1. k \in 1..calls[p]
      BY <1>1, <2>3
    <3>2. \/ Done(p, k) \/ AtHand(p, k) \/ Queued(p, k, Len(pipe))
          \/ k = calls[p] /\ pc[p] = "locking"
      BY <1>1, <3>1 DEF Ordered
    <3> QED
      BY <1>1, <2>3, <3>2
  <2> QED
    BY <2>1, <2>2, <2>3
<1> QED
  BY <1>2, <1>3 DEF Ordered, Done, AtHand, Queued, Busy

\* A process that is neither writing nor waiting has nobody to answer it.
LEMMA EnterExchange ==
    ASSUME Base, Exchange, NEW p \in Procs, Alone(p), UNCHANGED <<pipe, replies, worker>>,
           pc[p] \notin {"sending", "awaiting"}, pc'[p] # "awaiting"
    PROVE  Exchange'
<1>1. TypeOK /\ WantedAll /\ AnswersTheAsker /\ \A q \in Procs : Counted(q)
  BY DEF Base, Exchange
<1>2. \A q \in Procs : q # p => pc'[q] = pc[q] /\ cur'[q] = cur[q] /\ got'[q] = got[q]
  BY DEF Alone
<1> DEFINE WantedThen(x) ==
       ReplyUnits(x.op) = 0 \/ (pc'[x.from] \in {"sending", "awaiting"} /\ cur'[x.from] = x)
<1>3. ASSUME NEW x \in Messages, Wanted(x) PROVE WantedThen(x)
  BY <1>2, <1>3 DEF Wanted, Messages
<1>4. WantedAll'
  <2>1. /\ \A i \in 1..Len(pipe) : pipe[i].m \in Messages /\ Wanted(pipe[i].m)
        /\ Busy => Wanted(worker.m) /\ worker.m \in Messages
    BY <1>1, PipeFacts, WorkerRecord DEF WantedAll
  <2> HIDE DEF WantedThen
  <2>2. (\A i \in 1..Len(pipe) : WantedThen(pipe[i].m)) /\ (Busy => WantedThen(worker.m))
    BY <1>3, <2>1
  <2> QED
    BY <2>2 DEF WantedAll, Wanted, WantedThen, Busy
<1>5. AnswersTheAsker'
  <2>1. ASSUME NEW i \in 1..Len(replies)
        PROVE  /\ pc'[replies[i].from] = "awaiting" /\ cur'[replies[i].from] = replies[i]
               /\ \A q \in Procs : pc'[q] = "awaiting" => q = replies[i].from
    <3>1. replies[i].from \in Procs
      BY <1>1, RepliesFacts DEF TypeOK, Messages
    <3> QED
      BY <1>1, <1>2, <3>1 DEF AnswersTheAsker
  <2> QED
    BY <2>1 DEF AnswersTheAsker
<1>6. ASSUME NEW q \in Procs PROVE Counted(q)'
  <2>1. CASE q = p
    BY <2>1 DEF Counted
  <2>2. CASE q # p
    <3>1. Counted(q) /\ pc'[q] = pc[q] /\ cur'[q] = cur[q] /\ got'[q] = got[q]
      BY <1>1, <1>2, <2>2
    <3>2. InFlight(cur[q])' <=> InFlight(cur[q])
      BY <3>1 DEF InFlight
    <3> QED
      BY <3>1, <3>2 DEF Counted
  <2> QED
    BY <2>1, <2>2
<1> QED
  BY <1>4, <1>5, <1>6 DEF Exchange

\* The process that reads a reply reads its own, and its request is not in the
\* request pipe any more; when it reads the last unit, there is no other.
LEMMA AskerReads ==
    ASSUME Base, Orderly, Exchange, NEW p \in Procs, ReadReply(p)
    PROVE  /\ lock.exclusive = p /\ lock.shared = {} /\ ~InFlight(cur[p])
           /\ \A q \in Procs : pc[q] = "awaiting" => q = p
           /\ \A i \in 1..Len(replies) : replies[i] = cur[p] /\ replies[i].from = p
           /\ worker.at = "reply" => worker.m = cur[p]
           /\ ~(got[p] + 1 < Awaits(p, cur[p].op)) => replies' = <<>> /\ worker.at # "reply"
<1>1. /\ TypeOK /\ Locked /\ Handling /\ WantedAll /\ AnswersTheAsker /\ Counted(p)
      /\ pc[p] = "awaiting" /\ replies # <<>> /\ replies' = Tail(replies)
      /\ got[p] \in Nat /\ replies \in Seq(Messages)
  BY ReadReplyFacts DEF Base, Exchange, TypeOK
<1>2. /\ lock.exclusive = p /\ lock.shared = {} /\ \A q \in Procs : pc[q] = "awaiting" => q = p
  BY <1>1, ProcAssumption DEF Locked
<1>3. ~InFlight(cur[p]) /\ Len(replies) \in Nat /\ Len(replies) >= 1
  BY <1>1, RepliesFacts DEF Counted
<1>4. \A i \in 1..Len(replies) : replies[i] = cur[p] /\ replies[i].from = p
  <2>1. \A i \in 1..Len(replies) : replies[i].from \in Procs
    BY <1>1, RepliesFacts DEF Messages
  <2> QED
    BY <1>1, <1>2, <2>1 DEF AnswersTheAsker
<1>5. ASSUME worker.at = "reply"
      PROVE  worker.m = cur[p] /\ worker.r < ReplyUnits(cur[p].op)
  <2>1. worker.m \in Messages /\ Wanted(worker.m) /\ worker.r < ReplyUnits(worker.m.op)
    BY <1>1, <1>5, WorkerRecord DEF WantedAll, Busy, Handling
  <2>2. ReplyUnits(worker.m.op) # 0
    BY <1>1, <2>1, WorkerRecord
  <2> QED
    BY <1>2, <2>1, <2>2, WantedHolds
<1>6. Awaits(p, cur[p].op) = ReplyUnits(cur[p].op) /\ ReplyUnits(cur[p].op) \in Nat
  <2>1. cur[p].op \in Ops
    BY <1>1 DEF TypeOK, Messages
  <2> QED
    BY <1>1, <2>1, OrderlyFacts DEF ReplyUnits, Ops, TokenOps
<1>7. ASSUME ~(got[p] + 1 < Awaits(p, cur[p].op))
      PROVE  replies' = <<>> /\ worker.at # "reply"
  <2>1. worker.at # "reply"
    BY <1>1, <1>3, <1>5, <1>6, <1>7 DEF Counted
  <2>2. got[p] + Len(replies) = ReplyUnits(cur[p].op)
    BY <1>1, <1>3, <2>1 DEF Counted
  <2>3. Len(replies) = 1
    <3>1. PICK g \in Nat, l \in Nat, u \in Nat :
             g = got[p] /\ l = Len(replies) /\ u = ReplyUnits(cur[p].op)
      BY <1>1, <1>3, <1>6
    <3>2. g + l = u /\ l >= 1 /\ ~(g + 1 < u)
      BY <1>3, <1>6, <1>7, <2>2, <3>1
    <3> QED
      BY <3>1, <3>2
  <2>4. replies' \in Seq(Messages) /\ Len(replies') = 0
    BY <1>1, <2>3, RepliesFacts
  <2> QED
    BY <2>1, <2>4, EmptySeq
<1> QED
  BY <1>2, <1>3, <1>4, <1>5, <1>7

LEMMA LeaveExchange ==
    ASSUME Base, Orderly, Exchange, NEW p \in Procs, ReadReply(p), Alone(p),
           ~(got[p] + 1 < Awaits(p, cur[p].op)), pc'[p] # "awaiting"
    PROVE  Exchange'
<1>1. /\ TypeOK /\ WantedAll /\ ~InFlight(cur[p]) /\ replies' = <<>> /\ worker.at # "reply"
      /\ pipe' = pipe /\ worker' = worker /\ lock.exclusive = p
      /\ \A q \in Procs : pc[q] = "awaiting" => q = p
  BY AskerReads, ReadReplyFacts DEF Base, Exchange
<1>2. ASSUME NEW x \in Messages, Wanted(x), InFlight(x)
      PROVE  ReplyUnits(x.op) = 0
  BY <1>1, <1>2, WantedHolds
<1>3. WantedAll'
  <2>1. \A i \in 1..Len(pipe) : ReplyUnits(pipe[i].m.op) = 0
    BY <1>1, <1>2, PipeFacts DEF WantedAll, InFlight
  <2>2. Busy => ReplyUnits(worker.m.op) = 0
    BY <1>1, <1>2, WorkerRecord DEF WantedAll, InFlight, Busy
  <2> QED
    BY <1>1, <2>1, <2>2 DEF WantedAll, Wanted, Busy
<1>4. AnswersTheAsker'
  <2>1. Len(replies') = 0
    BY <1>1
  <2> QED
    BY <2>1 DEF AnswersTheAsker
<1>5. ASSUME NEW q \in Procs PROVE Counted(q)'
  BY <1>1 DEF Counted, Alone
<1> QED
  BY <1>3, <1>4, <1>5 DEF Exchange

LEMMA ReadsMoreExchange ==
    ASSUME Base, Orderly, Exchange, NEW p \in Procs, ReadReply(p), ReadsMore(p)
    PROVE  Exchange'
<1>1. /\ TypeOK /\ WantedAll /\ AnswersTheAsker /\ Counted(p) /\ pc[p] = "awaiting"
      /\ replies # <<>> /\ replies' = Tail(replies) /\ replies \in Seq(Messages)
      /\ pipe' = pipe /\ worker' = worker /\ got[p] \in Nat
  BY ReadReplyFacts DEF Base, Exchange, TypeOK
<1>2. /\ ~InFlight(cur[p]) /\ \A q \in Procs : pc[q] = "awaiting" => q = p
      /\ \A i \in 1..Len(replies) : replies[i] = cur[p] /\ replies[i].from = p
  BY AskerReads
<1>3. /\ got[p] + 1 < Awaits(p, cur[p].op) /\ got' = [got EXCEPT ![p] = got[p] + 1]
      /\ UNCHANGED <<pc, cur, sent, lock, calls>>
  BY DEF ReadsMore
<1>4. Awaits(p, cur[p].op) = ReplyUnits(cur[p].op) /\ ReplyUnits(cur[p].op) \in Nat
  <2>1. cur[p].op \in Ops
    BY <1>1 DEF TypeOK, Messages
  <2> QED
    BY <1>1, <2>1, OrderlyFacts DEF ReplyUnits, Ops, TokenOps
<1>5. /\ Len(replies') = Len(replies) - 1 /\ Len(replies) \in Nat
      /\ \A i \in 1..Len(replies') : replies'[i] = cur[p] /\ replies'[i].from = p
  <2>1. /\ Len(replies') = Len(replies) - 1 /\ Len(replies) \in Nat /\ Len(replies) >= 1
        /\ \A i \in 1..Len(replies') : replies'[i] = replies[i + 1]
    BY <1>1, RepliesFacts
  <2>2. \A i \in 1..Len(replies') : i + 1 \in 1..Len(replies)
    BY <2>1
  <2> QED
    BY <1>2, <2>1, <2>2
<1>6. WantedAll'
  BY <1>1, <1>3 DEF WantedAll, Wanted, Busy
<1>7. AnswersTheAsker'
  BY <1>1, <1>2, <1>3, <1>5 DEF AnswersTheAsker
<1>8. ASSUME NEW q \in Procs PROVE Counted(q)'
  <2>1. CASE q # p
    BY <1>2, <1>3, <2>1 DEF Counted
  <2>2. CASE q = p
    <3>1. got'[p] = got[p] + 1
      BY <1>1, <1>3 DEF TypeOK
    <3>2. ~InFlight(cur[p])'
      BY <1>1, <1>2, <1>3 DEF InFlight
    <3>3. got'[p] + Len(replies') = got[p] + Len(replies)
      BY <1>1, <1>5, <3>1
    <3> QED
      BY <1>1, <1>2, <1>3, <1>4, <2>2, <3>1, <3>2, <3>3 DEF Counted
  <2> QED
    BY <2>1, <2>2
<1> QED
  BY <1>6, <1>7, <1>8 DEF Exchange

\* Nothing that happens makes good what was lost.
LEMMA OrderlyBefore ==
    ASSUME Base, Orderly', kills' \in {kills, kills + 1},
           calls'[Startup] \in {calls[Startup], calls[Startup] + 1}
    PROVE  Orderly
<1>1. kills \in Nat /\ calls[Startup] \in Nat
  BY BoundAssumption DEF Base, TypeOK, Procs
<1>2. kills = 0 \/ KillPoints \subseteq {"poll"}
  BY <1>1 DEF Orderly
<1>3. \A k \in 1..calls[Startup] : k \in 1..calls'[Startup]
  BY <1>1
<1> QED
  BY <1>2, <1>3 DEF Orderly

LEMMA StartPromises ==
    ASSUME Base, Orderly, Promises, NEW p \in Procs, NEW r, Offered(p, r), StartCall(p, r)
    PROVE  Promises'
<1>1. /\ Alone(p) /\ UNCHANGED <<pipe, replies, worker, applied>> /\ pc[p] = "idle"
      /\ pc' = [pc EXCEPT ![p] = "locking"] /\ calls' = [calls EXCEPT ![p] = @ + 1]
  BY StartBase DEF StartCall
<1>2. pc'[p] = "locking" /\ calls'[p] = calls[p] + 1 /\ calls[p] \in Nat
  BY <1>1 DEF Base, TypeOK
<1>3. Quiet(p)
  BY <1>1, <1>2 DEF Quiet
<1>4. Stream' /\ Ordered'
  BY <1>3, QuietStream, QuietOrdered DEF Promises
<1>5. Exchange'
  BY <1>1, <1>2, EnterExchange DEF Promises
<1> QED
  BY <1>1, <1>4, <1>5 DEF Promises, ReplyProvesApplied

LEMMA AcquirePromises ==
    ASSUME Base, Orderly, Promises, NEW p \in Procs, Acquire(p)
    PROVE  Promises'
<1>1. /\ Alone(p) /\ UNCHANGED <<pipe, replies, worker, applied, calls, sent>>
      /\ pc[p] = "locking" /\ pc' = [pc EXCEPT ![p] = "sending"]
  BY AcquireBase DEF Acquire
<1>2. pc'[p] = "sending" /\ sent'[p] = 0 /\ calls'[p] = calls[p] /\ calls[p] \in Nat
  BY <1>1 DEF Base, TypeOK, Written
<1>3. Quiet(p)
  BY <1>1, <1>2 DEF Quiet
<1>4. Stream' /\ Ordered'
  BY <1>3, QuietStream, QuietOrdered DEF Promises
<1>5. Exchange'
  BY <1>1, <1>2, EnterExchange DEF Promises
<1> QED
  BY <1>1, <1>4, <1>5 DEF Promises, ReplyProvesApplied

LEMMA SendPromises ==
    ASSUME Base, Orderly, Promises, NEW p \in Procs, Send(p)
    PROVE  Promises'
<1>1. PICK n \in Nat \ {0} : Writes(p, n)
  BY SendWrites
<1>2. Alone(p)
  BY <1>1, WritesBase
<1>3. Stream' /\ Exchange'
  BY <1>1, <1>2, WritesStream, WritesExchange DEF Promises
<1>4. Ordered' /\ ReplyProvesApplied'
  BY <1>1, <1>2, WritesOrdered DEF Promises
<1> QED
  BY <1>3, <1>4 DEF Promises

LEMMA ReadReplyPromises ==
    ASSUME Base, Orderly, Promises, NEW p \in Procs, ReadReply(p)
    PROVE  Promises'
<1>1. /\ Alone(p) /\ UNCHANGED <<pipe, worker, applied>> /\ pc[p] = "awaiting"
      /\ replies # <<>> /\ replies' = Tail(replies) /\ replies \in Seq(Messages)
      /\ (ReadsMore(p) \/ ReadsType(p) \/ ReadsLast(p)) /\ calls[p] \in Nat
  BY ReadReplyBase, ReadReplyFacts DEF Base, TypeOK
<1>2. Quiet(p) /\ Exchange'
  <2>1. /\ pc \in [Procs -> {"idle", "locking", "sending", "awaiting"}]
        /\ calls \in [Procs -> Nat] /\ sent \in [Procs -> Nat] /\ calls[p] \in Nat
    BY DEF Base, TypeOK
  <2>2. CASE ReadsMore(p)
    <3>1. Quiet(p)
      BY <1>1, <2>1, <2>2 DEF Quiet, ReadsMore
    <3> QED
      BY <2>2, <3>1, ReadsMoreExchange DEF Promises
  <2>3. CASE ReadsType(p)
    <3>1. /\ pc'[p] = "sending" /\ sent'[p] = 0 /\ calls'[p] = calls[p] + 1
          /\ ~(got[p] + 1 < Awaits(p, cur[p].op))
      BY <2>1, <2>3 DEF ReadsType
    <3>2. Quiet(p)
      BY <1>1, <2>1, <3>1 DEF Quiet
    <3> QED
      BY <1>1, <3>1, <3>2, LeaveExchange DEF Promises
  <2>4. CASE ReadsLast(p)
    <3>1. pc'[p] = "idle" /\ calls'[p] = calls[p] /\ ~(got[p] + 1 < Awaits(p, cur[p].op))
      BY <2>1, <2>4 DEF ReadsLast
    <3>2. Quiet(p)
      BY <1>1, <2>1, <3>1 DEF Quiet
    <3> QED
      BY <1>1, <3>1, <3>2, LeaveExchange DEF Promises
  <2> QED
    BY <1>1, <2>2, <2>3, <2>4
<1>3. Stream' /\ Ordered'
  BY <1>2, QuietStream, QuietOrdered DEF Promises
<1>4. ReplyProvesApplied'
  <2>1. /\ Len(replies) \in Nat /\ Len(replies) >= 1 /\ Len(replies') = Len(replies) - 1
        /\ \A i \in 1..Len(replies') : replies'[i] = replies[i + 1]
    BY <1>1, RepliesFacts
  <2>2. \A i \in 1..Len(replies') : i + 1 \in 1..Len(replies)
    BY <2>1
  <2>3. ASSUME NEW i \in 1..Len(replies')
        PROVE  \A k \in 1..replies'[i].seq : <<replies'[i].from, k>> \in applied
    BY <2>1, <2>2 DEF Promises, ReplyProvesApplied
  <2> QED
    BY <1>1, <2>3 DEF ReplyProvesApplied
<1> QED
  BY <1>2, <1>3, <1>4 DEF Promises

-----------------------------------------------------------------------------
(* Steps of the worker *)

\* The worker takes k bytes: the opcode of a message, or a field of the one it has.
Reads(k) ==
    /\ Takes(k) /\ UNCHANGED <<lock, replies, client, recovering, applied, kills>>
    /\ worker.at # "reply" /\ (worker.at = "field" => worker.m = pipe[1].m)
    /\ worker'.at = "field" /\ worker'.m = pipe[1].m
    /\ Consumed' = pipe[1].pos + (k - 1) /\ Consumed' <= Length(pipe[1].m)
    /\ Reading' <=> Consumed' < Length(pipe[1].m)

\* When the worker is at a field, there is enough in the pipe for it.
LEMMA EnoughBytes ==
    ASSUME Base, Orderly, Stream
    PROVE  NeverShort
<1>1. SUFFICES ASSUME Reading, pipe # <<>>, Consumed + Len(pipe) < End(worker.m, worker.f)
               PROVE  FALSE
  <2>1. Reading => Consumed \in Nat /\ End(worker.m, worker.f) \in Nat /\ Len(pipe) \in Nat
    BY FieldSize, PipeFacts DEF Base, Reading
  <2> QED
    BY <2>1 DEF NeverShort, Reading
<1> DEFINE L == Len(pipe)
<1>2. PICK m \in Messages, f \in Nat, c \in Nat :
         m = worker.m /\ f = worker.f /\ c = Consumed
  BY <1>1, FieldSize, WorkerRecord DEF Base, Reading
<1>3. /\ f \in 2..Fields(m) /\ End(m, f) \in Nat /\ End(m, f) <= Length(m) /\ c = End(m, f - 1)
      /\ L \in Nat /\ L >= 1 /\ Length(m) \in Nat /\ Fields(m) \in Nat /\ c + L < End(m, f)
  BY <1>1, <1>2, FieldSize, PipeFacts, EndValues DEF Base, Reading, Consumed
<1>4. pipe[L].m = m /\ pipe[L].pos = c + L
  <2>1. 1 \in 1..L /\ L \in 1..L /\ 1 <= L
    BY <1>3
  <2>2. pipe[1].m = m /\ pipe[1].pos = c + 1
    BY <1>1, <1>2 DEF Stream, FirstByte
  <2>3. pipe[1].pos + (L - 1) <= Length(pipe[1].m)
    BY <1>3, <2>2
  <2>4. pipe[L].m = pipe[1].m /\ pipe[L].pos = pipe[1].pos + (L - 1)
    BY <2>1, <2>3 DEF Stream, Contiguous
  <2> QED
    BY <1>3, <2>2, <2>4
<1>5. Sent(m, c + L)
  BY <1>1, <1>3, <1>4 DEF Stream, LastByte, Last
<1>6. PICK q \in Procs : q = m.from /\ pc[q] = "sending" /\ cur[q] = m /\ sent[q] = c + L
  BY <1>5 DEF Sent, Messages
<1>7. /\ Written(q) /\ sent[q] > 0 /\ (q = Startup => Length(m) <= PIPE_BUF)
  BY <1>3, <1>6, OrderlyFacts DEF Base
<1>8. q # Startup
  BY <1>3, <1>6, <1>7, SizeAssumption DEF Written
<1>9. PICK g \in HeadFields(m.op)..Fields(m) : c + L = End(m, g)
  BY <1>6, <1>7, <1>8 DEF Written
<1>10. /\ g \in 0..Fields(m) /\ f \in 0..Fields(m) /\ f - 1 \in 0..Fields(m) /\ g \in Nat
  <2>1. HeadFields(m.op) \in 3..6
    BY HeadFacts DEF Messages
  <2> QED
    BY <1>3, <1>9, <2>1
<1>11. ~(g >= f)
  <2>1. g = f => FALSE
    BY <1>3, <1>9
  <2>2. g > f => End(m, f) < End(m, g)
    BY <1>10, EndIncreases
  <2> QED
    BY <1>3, <1>9, <1>10, <2>1, <2>2, EndValues
<1>12. ~(g <= f - 1)
  <2>1. g = f - 1 => FALSE
    BY <1>3, <1>9
  <2>2. g < f - 1 => End(m, g) < End(m, f - 1)
    BY <1>10, EndIncreases
  <2> QED
    BY <1>3, <1>9, <1>10, <2>1, <2>2, EndValues
<1> QED
  BY <1>10, <1>11, <1>12, <1>2

LEMMA ReadOpcodeReads ==
    ASSUME Base, Stream, ReadOpcode
    PROVE  Reads(1)
<1>1. /\ TypeOK /\ worker.at = "poll" /\ pipe # <<>> /\ Takes(1) /\ pipe[1].m \in Messages
      /\ UNCHANGED <<lock, replies, client, recovering, applied, kills>>
      /\ worker' = IF pipe[1].pos = 1
                   THEN [at |-> "field", m |-> pipe[1].m, f |-> 2, r |-> 0]
                   ELSE [worker EXCEPT !.at = "dead"]
  BY ReadOpcodeFacts DEF Base
<1>2. pipe[1].pos = 1
  BY <1>1 DEF Stream, FirstByte, Reading
<1>3. /\ worker'.at = "field" /\ worker'.m = pipe[1].m /\ worker'.f = 2
  BY <1>1, <1>2
<1>4. /\ Fields(pipe[1].m) \in Nat /\ Fields(pipe[1].m) >= 3 /\ Length(pipe[1].m) \in Nat
      /\ Length(pipe[1].m) > 1 /\ End(pipe[1].m, 1) = 1
  <2>1. PICK m \in Messages : m = pipe[1].m
    BY <1>1
  <2>2. 1 \in 0..Fields(m) /\ Fields(m) \in 0..Fields(m) /\ 1 < Fields(m)
    BY EndValues
  <2>3. End(m, 1) < End(m, Fields(m))
    BY <2>2, EndIncreases
  <2> QED
    BY <2>1, <2>3, EndValues
<1>5. Consumed' = 1
  BY <1>3, <1>4 DEF Consumed
<1>6. Reading'
  BY <1>3, <1>4 DEF Reading
<1> QED
  BY <1>1, <1>2, <1>3, <1>4, <1>5, <1>6 DEF Reads

LEMMA ReadFieldReads ==
    ASSUME Base, Orderly, Stream, ReadField
    PROVE  \E k : Reads(k)
<1>1. /\ TypeOK /\ Handling /\ Reading
      /\ UNCHANGED <<lock, replies, client, recovering, applied, kills>>
      /\ \/ /\ Takes(End(worker.m, worker.f) - Consumed)
            /\ worker' = [worker EXCEPT !.f = @ + 1]
         \/ /\ Consumed + Len(pipe) < End(worker.m, worker.f) /\ Takes(Len(pipe))
  BY ReadFieldFacts DEF Base
<1>2. /\ End(worker.m, worker.f) \in Nat /\ Consumed \in Nat
      /\ Consumed < End(worker.m, worker.f) /\ End(worker.m, worker.f) <= Length(worker.m)
      /\ worker.m \in Messages /\ worker.f \in 2..Fields(worker.m) /\ worker.at = "field"
      /\ Fields(worker.m) \in Nat /\ Length(worker.m) \in Nat
  BY <1>1, FieldSize, EndValues DEF Reading
<1>3. pipe # <<>> /\ Len(pipe) \in Nat
  BY <1>1, PipeFacts DEF ReadField
<1>4. Consumed + Len(pipe) >= End(worker.m, worker.f)
  BY <1>1, <1>3, EnoughBytes DEF NeverShort, Reading
<1>5. /\ Takes(End(worker.m, worker.f) - Consumed) /\ worker' = [worker EXCEPT !.f = worker.f + 1]
  BY <1>1, <1>2, <1>3, <1>4
<1>6. worker'.at = "field" /\ worker'.m = worker.m /\ worker'.f = worker.f + 1
  BY <1>1, <1>2, <1>5, WorkerRecord
<1>7. pipe[1].m = worker.m /\ pipe[1].pos = Consumed + 1
  BY <1>1, <1>3 DEF Stream, FirstByte
<1>8. Consumed' = End(worker.m, worker.f)
  <2>1. worker'.f - 1 = worker.f
    BY <1>2, <1>6
  <2> QED
    BY <1>6, <2>1 DEF Consumed
<1>9. Reading' <=> End(worker.m, worker.f) < Length(worker.m)
  <2>1. CASE worker.f = Fields(worker.m)
    BY <1>2, <1>6, <2>1, EndValues DEF Reading
  <2>2. CASE worker.f < Fields(worker.m)
    <3>1. worker.f \in 0..Fields(worker.m) /\ Fields(worker.m) \in 0..Fields(worker.m)
      BY <1>2
    <3>2. End(worker.m, worker.f) < Length(worker.m)
      BY <1>2, <2>2, <3>1, EndIncreases, EndValues
    <3> QED
      BY <1>2, <1>6, <2>2, <3>2 DEF Reading
  <2> QED
    BY <1>2, <2>1, <2>2
<1>10. Consumed' = pipe[1].pos + ((End(worker.m, worker.f) - Consumed) - 1)
  BY <1>2, <1>7, <1>8
<1>11. Reads(End(worker.m, worker.f) - Consumed)
  BY <1>1, <1>2, <1>5, <1>6, <1>7, <1>8, <1>9, <1>10 DEF Reads
<1> QED
  BY <1>11

\* The same, of the message m: its bytes up to c are read.
ReadTo(k, m, c) ==
    /\ k \in 1..Len(pipe) /\ Len(pipe') = Len(pipe) - k
    /\ \A j \in 1..k : pipe[j].m = m
    /\ pipe[k].pos = c /\ c <= Length(m)
    /\ \A i \in 1..Len(pipe') : i + k \in 1..Len(pipe) /\ pipe'[i] = pipe[i + k]
    /\ UNCHANGED <<lock, replies, pc, cur, sent, got, calls, applied>>
    /\ worker.at # "reply" /\ (worker.at = "field" => worker.m = m)
    /\ worker'.at = "field" /\ worker'.m = m /\ Consumed' = c
    /\ Reading' <=> c < Length(m)

LEMMA ReadsTo ==
    ASSUME Base, Stream, NEW k, Reads(k)
    PROVE  \E m \in Messages, c \in Nat : ReadTo(k, m, c)
<1>1. /\ TypeOK /\ k \in 1..Len(pipe) /\ Len(pipe) \in Nat /\ k \in Nat /\ k >= 1
      /\ Len(pipe') = Len(pipe) - k /\ \A i \in 1..Len(pipe') : pipe'[i] = pipe[i + k]
  BY PipeFacts DEF Base, Reads, Takes
<1>2. PICK m \in Messages, s \in Nat : m = pipe[1].m /\ s = pipe[1].pos
  <2>1. 1 \in 1..Len(pipe)
    BY <1>1
  <2> QED
    BY <1>1, <2>1, PipeFacts
<1>3. /\ UNCHANGED <<lock, replies, pc, cur, sent, got, calls, applied>>
      /\ worker.at # "reply" /\ (worker.at = "field" => worker.m = m)
      /\ worker'.at = "field" /\ worker'.m = m
      /\ Consumed' = s + (k - 1) /\ s + (k - 1) <= Length(m)
      /\ Reading' <=> s + (k - 1) < Length(m)
  BY <1>2 DEF Reads, client
<1>4. Length(m) \in Nat
  BY LengthPositive
<1>5. ASSUME NEW j \in 1..k
      PROVE  pipe[j].m = m /\ pipe[j].pos = s + (j - 1)
  <2>1. 1 \in 1..Len(pipe) /\ j \in 1..Len(pipe) /\ 1 <= j
    BY <1>1
  <2>2. s + (j - 1) <= Length(m)
    BY <1>1, <1>3, <1>4
  <2>3. pipe[1].pos + (j - 1) <= Length(pipe[1].m)
    BY <1>2, <2>2
  <2>4. pipe[j].m = pipe[1].m /\ pipe[j].pos = pipe[1].pos + (j - 1)
    BY <2>1, <2>3 DEF Stream, Contiguous
  <2> QED
    BY <1>2, <2>4
<1>6. PICK c \in Nat : c = s + (k - 1)
  BY <1>1
<1>7. pipe[k].pos = c
  BY <1>1, <1>5, <1>6
<1>8. \A i \in 1..Len(pipe') : i + k \in 1..Len(pipe)
  BY <1>1
<1>9. ReadTo(k, m, c)
  BY <1>1, <1>3, <1>5, <1>6, <1>7, <1>8 DEF ReadTo
<1> QED
  BY <1>9

LEMMA ReadsStream ==
    ASSUME Base, Orderly, Stream, NEW k, Reads(k), NEW m \in Messages, NEW c \in Nat, ReadTo(k, m, c)
    PROVE  Stream'
<1>1. /\ TypeOK /\ Contiguous /\ FirstByte /\ LastByte /\ Rest /\ BegunAll
      /\ Len(pipe) \in Nat /\ k \in Nat /\ k >= 1 /\ k <= Len(pipe) /\ pipe # <<>>
      /\ Length(m) \in Nat
  BY PipeFacts, LengthPositive DEF Base, Stream, ReadTo
<1>2. /\ Len(pipe') = Len(pipe) - k /\ pipe[k].m = m /\ pipe[k].pos = c /\ c <= Length(m)
      /\ \A i \in 1..Len(pipe') : i + k \in 1..Len(pipe) /\ pipe'[i] = pipe[i + k]
      /\ UNCHANGED <<lock, replies, pc, cur, sent, got, calls, applied>>
      /\ worker'.at = "field" /\ worker'.m = m /\ Consumed' = c
      /\ Reading' <=> c < Length(m)
  BY <1>1 DEF ReadTo
<1>3. Contiguous'
  BY <1>1, TakesContiguous DEF Reads
<1>4. pipe' = <<>> <=> Len(pipe') = 0
  BY EmptySeq DEF Reads, Takes
<1>5. FirstByte'
  <2>1. SUFFICES ASSUME pipe' # <<>>
                 PROVE  IF Reading' THEN pipe'[1].m = m /\ pipe'[1].pos = c + 1
                        ELSE pipe'[1].pos = 1
    BY <1>2 DEF FirstByte
  <2>2. 1 \in 1..Len(pipe') /\ 1 + k = k + 1 /\ k \in 1..Len(pipe) /\ k < Len(pipe)
        /\ k + 1 \in 1..Len(pipe)
    BY <1>1, <1>2, <1>4, <2>1
  <2>3. pipe'[1] = pipe[k + 1]
    BY <1>2, <2>2
  <2>4. CASE c < Length(m)
    <3>3. k <= k + 1 /\ c + ((k + 1) - k) = c + 1 /\ c + ((k + 1) - k) <= Length(m)
      BY <1>1, <2>4
    <3>1. /\ k <= k + 1 /\ pipe[k].pos + ((k + 1) - k) <= Length(pipe[k].m)
          /\ c + ((k + 1) - k) = c + 1
      BY <1>2, <3>3
    <3>2. pipe[k + 1].m = pipe[k].m /\ pipe[k + 1].pos = pipe[k].pos + ((k + 1) - k)
      BY <1>1, <2>2, <3>1 DEF Contiguous
    <3> QED
      BY <1>2, <2>3, <2>4, <3>1, <3>2
  <2>5. CASE ~(c < Length(m))
    <3>1. pipe[k].pos = Length(pipe[k].m)
      BY <1>1, <1>2, <2>5
    <3>2. pipe[k + 1].pos = 1
      BY <1>1, <2>2, <3>1 DEF Contiguous
    <3> QED
      BY <1>2, <2>3, <2>5, <3>2
  <2> QED
    BY <2>4, <2>5
<1>6. LastByte'
  <2>1. pipe' # <<>> => Last' = Last
    <3>1. SUFFICES ASSUME pipe' # <<>> PROVE Last' = Last
      OBVIOUS
    <3>2. Len(pipe') \in 1..Len(pipe') /\ Len(pipe') + k = Len(pipe)
      BY <1>1, <1>2, <1>4, <3>1
    <3> QED
      BY <1>2, <3>2 DEF Last
  <2>2. pipe' = <<>> => Last.m = m /\ Last.pos = c
    BY <1>1, <1>2, <1>4 DEF Last
  <2>3. \A x, y : Sent(x, y) => pc'[x.from] = "sending" /\ cur'[x.from] = x /\ sent'[x.from] = y
    BY <1>2 DEF Sent
  <2>4. pipe' # <<>> => Last'.pos = Length(Last'.m) \/ Sent(Last.m, Last.pos)'
    <3>1. SUFFICES ASSUME pipe' # <<>>, Last.pos # Length(Last.m)
                   PROVE  Sent(Last.m, Last.pos)'
      BY <2>1
    <3>2. Sent(Last.m, Last.pos)
      BY <1>1, <3>1 DEF LastByte
    <3> QED
      BY <2>1, <2>3, <3>1, <3>2 DEF Sent
  <2>5. pipe' = <<>> /\ Reading' => Sent(worker.m, Consumed)'
    <3>1. SUFFICES ASSUME pipe' = <<>>, Reading' PROVE Sent(worker.m, Consumed)'
      OBVIOUS
    <3>2. Last.m = m /\ Last.pos = c /\ c # Length(m)
      BY <1>1, <1>2, <2>2, <3>1
    <3>3. Sent(m, c)
      BY <1>1, <3>2 DEF LastByte
    <3> QED
      BY <1>2, <2>3, <3>3 DEF Sent
  <2>6. ASSUME NEW p \in Procs, pc[p] = "sending", sent[p] > 0
        PROVE  IF pipe' # <<>> THEN Last'.m = cur[p] /\ Last'.pos = sent[p]
               ELSE Reading' /\ worker'.m = cur[p] /\ Consumed' = sent[p]
    <3>1. Last.m = cur[p] /\ Last.pos = sent[p] /\ sent[p] < Length(cur[p])
      BY <1>1, <2>6 DEF LastByte, Base, Written
    <3> QED
      BY <1>2, <2>1, <2>2, <3>1
  <2> QED
    BY <1>2, <2>4, <2>5, <2>6 DEF LastByte
<1>7. Rest'
  <2>1. ASSUME NEW i \in 1..Len(pipe'), pipe'[i].m = m PROVE pipe'[i].pos = c + i
    <3>1. PICK j \in 1..Len(pipe) : j = i + k /\ pipe'[i] = pipe[j]
      BY <1>2
    <3>2. k \in 1..Len(pipe) /\ k <= j /\ j - k = i /\ pipe[k].m = pipe[j].m
      BY <1>1, <1>2, <2>1, <3>1
    <3>3. pipe[j].pos = pipe[k].pos + (j - k)
      BY <1>1, <3>2 DEF Contiguous
    <3> QED
      BY <1>2, <3>1, <3>2, <3>3
  <2> QED
    BY <1>2, <2>1 DEF Rest
<1>8. BegunAll'
  <2>1. \A x : Begun(x)' <=> Begun(x)
    BY <1>2 DEF Begun
  <2> DEFINE BegunThen(x) ==
         /\ x.seq <= calls'[x.from]
         /\ pc'[x.from] = "locking" \/ (pc'[x.from] = "sending" /\ sent'[x.from] = 0)
               => x.seq < calls'[x.from]
  <2>2. \A x : Begun(x) => BegunThen(x)
    BY <1>2 DEF Begun
  <2>3. (\A i \in 1..Len(pipe) : Begun(pipe[i].m)) /\ Begun(m)
    <3>1. k \in 1..Len(pipe)
      BY <1>1
    <3> QED
      BY <1>1, <1>2, <3>1 DEF BegunAll
  <2> HIDE DEF BegunThen
  <2>4. (\A i \in 1..Len(pipe') : BegunThen(pipe'[i].m)) /\ BegunThen(worker'.m)
    BY <1>2, <2>2, <2>3
  <2> QED
    BY <2>4 DEF BegunAll, Begun, BegunThen
<1> QED
  BY <1>3, <1>5, <1>6, <1>7, <1>8 DEF Stream

LEMMA ReadsExchange ==
    ASSUME Base, Exchange, NEW k, NEW m \in Messages, NEW c \in Nat, ReadTo(k, m, c)
    PROVE  Exchange'
<1>1. /\ TypeOK /\ WantedAll /\ AnswersTheAsker /\ \A q \in Procs : Counted(q)
      /\ Len(pipe) \in Nat /\ k \in Nat /\ k >= 1 /\ k <= Len(pipe)
  BY PipeFacts DEF Base, Exchange, ReadTo
<1>2. /\ Len(pipe') = Len(pipe) - k /\ \A j \in 1..k : pipe[j].m = m
      /\ \A i \in 1..Len(pipe') : i + k \in 1..Len(pipe) /\ pipe'[i] = pipe[i + k]
      /\ UNCHANGED <<replies, pc, cur, got>>
      /\ worker.at # "reply" /\ (worker.at = "field" => worker.m = m)
      /\ worker'.at = "field" /\ worker'.m = m
  BY <1>1 DEF ReadTo
<1>3. WantedAll'
  <2> DEFINE WantedThen(x) ==
         ReplyUnits(x.op) = 0 \/ (pc'[x.from] \in {"sending", "awaiting"} /\ cur'[x.from] = x)
  <2>1. \A x : Wanted(x) => WantedThen(x)
    BY <1>2 DEF Wanted
  <2>2. (\A i \in 1..Len(pipe) : Wanted(pipe[i].m)) /\ Wanted(m)
    <3>1. 1 \in 1..Len(pipe) /\ 1 \in 1..k
      BY <1>1
    <3> QED
      BY <1>1, <1>2, <3>1 DEF WantedAll
  <2> HIDE DEF WantedThen
  <2>3. (\A i \in 1..Len(pipe') : WantedThen(pipe'[i].m)) /\ WantedThen(worker'.m)
    BY <1>2, <2>1, <2>2
  <2> QED
    BY <2>3 DEF WantedAll, Wanted, WantedThen
<1>4. AnswersTheAsker'
  BY <1>1, <1>2 DEF AnswersTheAsker
<1>5. ASSUME NEW q \in Procs PROVE Counted(q)'
  <2>1. PICK x : x = cur[q] /\ x = cur'[q]
    BY <1>2
  <2> DEFINE FlyingThen == (\E i \in 1..Len(pipe') : pipe'[i].m = x) \/ m = x
  <2>2. FlyingThen => InFlight(x)
    <3>1. (\E i \in 1..Len(pipe') : pipe'[i].m = x) => \E j \in 1..Len(pipe) : pipe[j].m = x
      BY <1>2
    <3>2. m = x => \E j \in 1..Len(pipe) : pipe[j].m = x
      <4>1. 1 \in 1..Len(pipe) /\ 1 \in 1..k
        BY <1>1
      <4> QED
        BY <1>2, <4>1
    <3> QED
      BY <3>1, <3>2 DEF InFlight
  <2>3. InFlight(x) => FlyingThen
    <3>1. ASSUME NEW j \in 1..Len(pipe), pipe[j].m = x PROVE FlyingThen
      <4>1. CASE j <= k
        <5>1. j \in 1..k
          BY <1>1, <4>1
        <5> QED
          BY <1>2, <3>1, <5>1
      <4>2. CASE j > k
        <5>1. j - k \in 1..Len(pipe') /\ (j - k) + k = j
          BY <1>1, <1>2, <4>2
        <5>2. pipe'[j - k] = pipe[j]
          BY <1>2, <5>1
        <5> QED
          BY <3>1, <5>1, <5>2
      <4> QED
        BY <1>1, <4>1, <4>2
    <3>2. ASSUME worker.at = "field", worker.m = x PROVE FlyingThen
      BY <1>2, <3>2
    <3> HIDE DEF FlyingThen
    <3> QED
      BY <3>1, <3>2 DEF InFlight
  <2>4. InFlight(cur[q])' <=> FlyingThen
    BY <1>2, <2>1 DEF InFlight
  <2>5. InFlight(cur[q])' <=> InFlight(cur[q])
    BY <2>1, <2>2, <2>3, <2>4
  <2> HIDE DEF FlyingThen
  <2> QED
    BY <1>1, <1>2, <2>5 DEF Counted
<1> QED
  BY <1>3, <1>4, <1>5 DEF Exchange

LEMMA ReadsOrdered ==
    ASSUME Base, Ordered, NEW k, NEW m \in Messages, NEW c \in Nat, ReadTo(k, m, c)
    PROVE  Ordered'
<1>1. /\ TypeOK /\ Len(pipe) \in Nat /\ k \in Nat /\ k >= 1 /\ k <= Len(pipe)
  BY PipeFacts DEF Base, ReadTo
<1>2. /\ Len(pipe') = Len(pipe) - k /\ \A j \in 1..k : pipe[j].m = m
      /\ \A i \in 1..Len(pipe') : i + k \in 1..Len(pipe) /\ pipe'[i] = pipe[i + k]
      /\ UNCHANGED <<pc, sent, calls, applied>>
      /\ worker.at # "reply" /\ (worker.at = "field" => worker.m = m)
      /\ worker'.at = "field" /\ worker'.m = m
  BY <1>1 DEF ReadTo
<1> DEFINE QueuedThen(q, s, l) == \E j \in 1..l : pipe'[j].m.from = q /\ pipe'[j].m.seq = s
           AtHandThen(q, s) == m.from = q /\ m.seq = s
\* What was queued up to byte l is in the worker's hands or k bytes nearer.
<1>3. ASSUME NEW q, NEW s, NEW l \in 0..Len(pipe), Queued(q, s, l)
      PROVE  AtHandThen(q, s) \/ QueuedThen(q, s, l - k)
  <2>1. PICK j \in 1..l : pipe[j].m.from = q /\ pipe[j].m.seq = s
    BY <1>3 DEF Queued
  <2>2. CASE j <= k
    <3>1. j \in 1..k
      BY <1>1, <2>2
    <3> QED
      BY <1>2, <2>1, <3>1
  <2>3. CASE j > k
    <3>1. j - k \in 1..(l - k) /\ j - k \in 1..Len(pipe') /\ (j - k) + k = j
      BY <1>1, <1>2, <2>3
    <3>2. pipe'[j - k] = pipe[j]
      BY <1>2, <3>1
    <3> QED
      BY <2>1, <3>1, <3>2
  <2> QED
    BY <1>1, <2>2, <2>3
<1>4. \A q, s : AtHand(q, s) => AtHandThen(q, s)
  BY <1>2 DEF AtHand
<1> HIDE DEF QueuedThen, AtHandThen
<1>5. ASSUME NEW q \in Procs, NEW s \in 1..calls[q]
      PROVE  \/ Done(q, s) \/ AtHandThen(q, s) \/ QueuedThen(q, s, Len(pipe'))
             \/ s = calls[q] /\ (pc[q] = "locking" \/ (pc[q] = "sending" /\ sent[q] = 0))
  <2>1. \/ Done(q, s) \/ AtHand(q, s) \/ Queued(q, s, Len(pipe))
        \/ s = calls[q] /\ (pc[q] = "locking" \/ (pc[q] = "sending" /\ sent[q] = 0))
    BY DEF Ordered
  <2>2. Queued(q, s, Len(pipe)) => AtHandThen(q, s) \/ QueuedThen(q, s, Len(pipe'))
    <3>1. Len(pipe) \in 0..Len(pipe)
      BY <1>1
    <3> QED
      BY <1>2, <1>3, <3>1
  <2> QED
    BY <1>4, <2>1, <2>2
<1>6. ASSUME NEW i \in 1..Len(pipe'), NEW s \in 1..pipe'[i].m.seq, s < pipe'[i].m.seq
      PROVE  \/ Done(pipe'[i].m.from, s) \/ AtHandThen(pipe'[i].m.from, s)
             \/ QueuedThen(pipe'[i].m.from, s, i - 1)
  <2>5. PICK j \in 1..Len(pipe) : j = i + k /\ pipe'[i] = pipe[j]
    BY <1>2
  <2>1. PICK q : j = i + k /\ pipe'[i] = pipe[j] /\ q = pipe[j].m.from
    BY <2>5
  <2>2. Done(q, s) \/ AtHand(q, s) \/ Queued(q, s, j - 1)
    BY <1>6, <2>1 DEF Ordered
  <2>3. j - 1 \in 0..Len(pipe) /\ (j - 1) - k = i - 1
    BY <1>1, <2>1
  <2>4. Queued(q, s, j - 1) => AtHandThen(q, s) \/ QueuedThen(q, s, i - 1)
    BY <1>3, <2>3
  <2> QED
    BY <1>4, <2>1, <2>2, <2>4
<1>7. ASSUME NEW s \in 1..m.seq, s < m.seq PROVE Done(m.from, s)
  <2>1. 1 \in 1..Len(pipe) /\ 1 \in 1..k /\ m.seq \in Nat
    BY <1>1 DEF Messages
  <2>2. pipe[1].m = m
    BY <1>2, <2>1
  <2>3. Done(m.from, s) \/ AtHand(m.from, s) \/ Queued(m.from, s, 1 - 1)
    BY <1>7, <2>1, <2>2 DEF Ordered
  <2>4. ~AtHand(m.from, s)
    BY <1>2, <1>7, <2>1 DEF AtHand
  <2>5. ~Queued(m.from, s, 1 - 1)
    BY DEF Queued
  <2> QED
    BY <2>3, <2>4, <2>5
<1>8. \A q, s : (Done(q, s)' <=> Done(q, s)) /\ (AtHand(q, s)' <=> AtHandThen(q, s))
  BY <1>2 DEF Done, AtHand, AtHandThen
<1>9. \A q \in Procs : \A s \in 1..calls'[q] :
         \/ Done(q, s)' \/ AtHand(q, s)' \/ QueuedThen(q, s, Len(pipe'))
         \/ s = calls'[q] /\ (pc'[q] = "locking" \/ (pc'[q] = "sending" /\ sent'[q] = 0))
  BY <1>2, <1>5, <1>8
<1>10. \A i \in 1..Len(pipe') : \A s \in 1..pipe'[i].m.seq : s < pipe'[i].m.seq =>
          \/ <<pipe'[i].m.from, s>> \in applied'
          \/ worker'.at = "field" /\ worker'.m.from = pipe'[i].m.from /\ worker'.m.seq = s
          \/ QueuedThen(pipe'[i].m.from, s, i - 1)
  BY <1>2, <1>6 DEF Done, AtHandThen
<1>11. \A s \in 1..worker'.m.seq : s < worker'.m.seq => <<worker'.m.from, s>> \in applied'
  BY <1>2, <1>7 DEF Done
<1> QED
  BY <1>2, <1>9, <1>10, <1>11 DEF Ordered, Queued, QueuedThen, Done, AtHand

LEMMA ReadsPromises ==
    ASSUME Base, Orderly, Promises, NEW k, Reads(k)
    PROVE  Promises'
<1>1. PICK m \in Messages, c \in Nat : ReadTo(k, m, c)
  BY ReadsTo DEF Promises
<1>2. Stream' /\ Exchange' /\ Ordered'
  BY <1>1, ReadsStream, ReadsExchange, ReadsOrdered DEF Promises
<1>3. ReplyProvesApplied'
  BY <1>1 DEF Promises, ReplyProvesApplied, ReadTo
<1> QED
  BY <1>2, <1>3 DEF Promises

\* A message is applied when all of it is read.
LEMMA ApplyFacts ==
    ASSUME Base, Stream, Apply
    PROVE  /\ worker.at = "field" /\ ~Reading /\ worker.r = 0
           /\ \A i \in 1..Len(pipe) : pipe[i].m # worker.m
           /\ applied' = applied \cup {<<worker.m.from, worker.m.seq>>}
           /\ worker'.m = worker.m /\ worker'.r = worker.r
           /\ worker'.at = IF ReplyUnits(worker.m.op) = 0 THEN "poll" ELSE "reply"
           /\ UNCHANGED <<pipe, replies, pc, cur, sent, got, calls>>
<1>1. /\ worker.at = "field" /\ worker.f > Fields(worker.m)
      /\ applied' = applied \cup {<<worker.m.from, worker.m.seq>>}
      /\ worker' = [worker EXCEPT !.at = IF ReplyUnits(worker.m.op) = 0 THEN "poll" ELSE "reply"]
      /\ UNCHANGED <<pipe, replies, pc, cur, sent, got, calls>>
  BY DEF Apply, client
<1>2. /\ worker \in [at : {"poll", "field", "reply", "dead"}, m : Messages, f : Nat, r : Nat]
      /\ worker.m \in Messages /\ Fields(worker.m) \in Nat /\ worker.f \in Nat
      /\ worker.f \in 2..(Fields(worker.m) + 1) /\ worker.r = 0 /\ TypeOK /\ Rest
  BY <1>1, WorkerRecord DEF Base, Handling, Stream
<1>3. worker.f - 1 = Fields(worker.m)
  BY <1>1, <1>2
<1>4. Consumed = Length(worker.m) /\ Length(worker.m) \in Nat
  BY <1>2, <1>3, EndValues DEF Consumed
<1>5. ASSUME NEW i \in 1..Len(pipe) PROVE pipe[i].m # worker.m
  <2>1. SUFFICES ASSUME pipe[i].m = worker.m PROVE FALSE
    OBVIOUS
  <2>2. pipe[i].pos = Length(worker.m) + i
    BY <1>1, <1>2, <1>4, <2>1 DEF Rest
  <2>4. pipe[i].pos <= Length(pipe[i].m) /\ Len(pipe) \in Nat
    BY <1>2, PipeFacts
  <2>3. pipe[i].pos <= Length(worker.m) /\ i \in Nat /\ i >= 1
    BY <2>1, <2>4
  <2> QED
    BY <1>4, <2>2, <2>3
<1>6. /\ worker'.m = worker.m /\ worker'.r = worker.r
      /\ worker'.at = IF ReplyUnits(worker.m.op) = 0 THEN "poll" ELSE "reply"
  BY <1>1, <1>2
<1>7. ~Reading
  BY <1>1, <1>2 DEF Reading
<1> QED
  BY <1>1, <1>2, <1>5, <1>6, <1>7

\* The worker puts its message aside, or goes on with it, without reading.
LEMMA RestsStream ==
    ASSUME Base, Stream, UNCHANGED <<pipe, pc, cur, sent, got, calls>>,
           ~Reading, worker'.at # "field",
           worker'.at = "reply" => /\ Busy /\ worker'.m = worker.m
                                   /\ \A i \in 1..Len(pipe) : pipe[i].m # worker.m
    PROVE  Stream'
<1>1. Contiguous /\ FirstByte /\ LastByte /\ BegunAll
  BY DEF Stream
<1>2. ~Reading' /\ Last' = Last
  BY DEF Reading, Last
<1>3. Contiguous' /\ FirstByte'
  BY <1>1, <1>2 DEF Contiguous, FirstByte
<1>4. LastByte'
  <2>1. \A x, y : Sent(x, y) => pc'[x.from] = "sending" /\ cur'[x.from] = x /\ sent'[x.from] = y
    BY DEF Sent
  <2>2. pipe # <<>> /\ Last.pos # Length(Last.m) => Sent(Last.m, Last.pos)
    BY <1>1 DEF LastByte
  <2>3. pipe' # <<>> => Last'.pos = Length(Last'.m) \/ Sent(Last.m, Last.pos)'
    BY <1>2, <2>1, <2>2 DEF Sent
  <2>4. \A p \in Procs : pc'[p] = "sending" /\ sent'[p] > 0 =>
           pipe # <<>> /\ Last'.m = cur'[p] /\ Last'.pos = sent'[p]
    BY <1>1, <1>2 DEF LastByte
  <2> QED
    BY <1>2, <2>3, <2>4 DEF LastByte
<1>5. Rest'
  BY DEF Rest
<1>6. BegunAll'
  <2> DEFINE BegunThen(x) ==
         /\ x.seq <= calls'[x.from]
         /\ pc'[x.from] = "locking" \/ (pc'[x.from] = "sending" /\ sent'[x.from] = 0)
               => x.seq < calls'[x.from]
  <2>1. \A x : Begun(x) => BegunThen(x)
    BY DEF Begun
  <2> HIDE DEF BegunThen
  <2>2. (\A i \in 1..Len(pipe') : BegunThen(pipe'[i].m)) /\ (Busy' => BegunThen(worker'.m))
    BY <1>1, <2>1 DEF BegunAll, Busy
  <2> QED
    BY <2>2 DEF BegunAll, Begun, BegunThen
<1> QED
  BY <1>3, <1>4, <1>5, <1>6 DEF Stream

LEMMA RestsWanted ==
    ASSUME WantedAll, UNCHANGED <<pipe, pc, cur>>, Busy' => Busy /\ worker'.m = worker.m
    PROVE  WantedAll'
<1> DEFINE WantedThen(x) ==
       ReplyUnits(x.op) = 0 \/ (pc'[x.from] \in {"sending", "awaiting"} /\ cur'[x.from] = x)
<1>1. \A x : Wanted(x) => WantedThen(x)
  BY DEF Wanted
<1> HIDE DEF WantedThen
<1>2. (\A i \in 1..Len(pipe') : WantedThen(pipe'[i].m)) /\ (Busy' => WantedThen(worker'.m))
  BY <1>1 DEF WantedAll
<1> QED
  BY <1>2 DEF WantedAll, Wanted, WantedThen

LEMMA ApplyPromises ==
    ASSUME Base, Orderly, Promises, Apply
    PROVE  Promises'
<1>1. /\ worker.at = "field" /\ ~Reading /\ worker.r = 0
      /\ \A i \in 1..Len(pipe) : pipe[i].m # worker.m
      /\ applied' = applied \cup {<<worker.m.from, worker.m.seq>>}
      /\ worker'.m = worker.m /\ worker'.r = worker.r
      /\ worker'.at = IF ReplyUnits(worker.m.op) = 0 THEN "poll" ELSE "reply"
      /\ UNCHANGED <<pipe, replies, pc, cur, sent, got, calls>>
  BY ApplyFacts DEF Promises
<1>2. /\ TypeOK /\ Locked /\ WantedAll /\ AnswersTheAsker /\ (\A q \in Procs : Counted(q))
      /\ Ordered /\ ReplyProvesApplied /\ worker.m \in Messages /\ Busy
      /\ Wanted(worker.m)
  BY <1>1, WorkerRecord DEF Base, Promises, Exchange, Busy, WantedAll
<1>3. Stream'
  BY <1>1, <1>2, RestsStream DEF Promises
<1>4. WantedAll'
  BY <1>1, <1>2, RestsWanted
<1>5. AnswersTheAsker'
  BY <1>1, <1>2 DEF AnswersTheAsker
<1>6. ASSUME NEW q \in Procs PROVE Counted(q)'
  <2>1. SUFFICES ASSUME pc[q] = "awaiting" PROVE Counted(q)'
    BY <1>1 DEF Counted
  <2>2. PICK x \in Messages : x = cur[q] /\ x = cur'[q]
    BY <1>1, <1>2 DEF TypeOK
  <2>3. /\ got[q] < ReplyUnits(x.op) /\ got[q] \in Nat
        /\ InFlight(x) => got[q] = 0 /\ replies = <<>>
        /\ ~InFlight(x) => got[q] + Len(replies) = ReplyUnits(x.op)
    BY <1>1, <1>2, <2>1, <2>2 DEF Counted, TypeOK
  <2>4. InFlight(x)' <=> \E i \in 1..Len(pipe) : pipe[i].m = x
    BY <1>1 DEF InFlight
  <2>5. InFlight(x) <=> InFlight(x)' \/ x = worker.m
    BY <1>1, <2>4 DEF InFlight
  <2>6. ASSUME ReplyUnits(worker.m.op) # 0
        PROVE  x = worker.m
    <3>1. lock.exclusive = worker.m.from /\ cur[worker.m.from] = worker.m
      BY <1>2, <2>6, WantedHolds
    <3> QED
      BY <1>2, <2>1, <2>2, <3>1 DEF Locked
  <2>7. worker'.at = "reply" => worker'.r = got[q] + Len(replies)
    <3>1. SUFFICES ASSUME worker'.at = "reply" PROVE worker'.r = got[q] + Len(replies)
      OBVIOUS
    <3>2. InFlight(x)
      BY <1>1, <2>5, <2>6, <3>1
    <3>3. got[q] = 0 /\ Len(replies) = 0
      BY <2>3, <3>2
    <3> QED
      BY <1>1, <3>3
  <2>8. worker'.at # "reply" => x # worker.m
    BY <1>1, <2>3
  <2>9. InFlight(cur[q])' <=> InFlight(x)'
    BY <2>2, <2>4, <1>1 DEF InFlight
  <2>10. /\ got'[q] < ReplyUnits(x.op)
         /\ InFlight(x)' => got'[q] = 0 /\ replies' = <<>>
         /\ worker'.at = "reply" => worker'.r = got'[q] + Len(replies')
         /\ worker'.at # "reply" /\ ~InFlight(x)' => got'[q] + Len(replies') = ReplyUnits(x.op)
    BY <1>1, <2>3, <2>5, <2>7, <2>8
  <2> QED
    BY <1>1, <2>2, <2>9, <2>10 DEF Counted
<1>7. Ordered'
  <2>1. \A q, s : Done(q, s) \/ AtHand(q, s) => <<q, s>> \in applied'
    BY <1>1 DEF Done, AtHand
  <2>2. \A q, s, l : Queued(q, s, l) => \E j \in 1..l : pipe'[j].m.from = q /\ pipe'[j].m.seq = s
    BY <1>1 DEF Queued
  <2>3. ASSUME NEW q \in Procs, NEW s \in 1..calls'[q]
        PROVE  \/ <<q, s>> \in applied'
               \/ \E j \in 1..Len(pipe) : pipe'[j].m.from = q /\ pipe'[j].m.seq = s
               \/ s = calls'[q] /\ (pc'[q] = "locking" \/ (pc'[q] = "sending" /\ sent'[q] = 0))
    <3>1. \/ Done(q, s) \/ AtHand(q, s) \/ Queued(q, s, Len(pipe))
          \/ s = calls[q] /\ (pc[q] = "locking" \/ (pc[q] = "sending" /\ sent[q] = 0))
      BY <1>1, <1>2 DEF Ordered
    <3>2. /\ Done(q, s) \/ AtHand(q, s) => <<q, s>> \in applied'
          /\ Queued(q, s, Len(pipe)) =>
                \E j \in 1..Len(pipe) : pipe'[j].m.from = q /\ pipe'[j].m.seq = s
      BY <2>1, <2>2
    <3> QED
      BY <1>1, <3>1, <3>2
  <2>4. \A i \in 1..Len(pipe) : \A s \in 1..pipe[i].m.seq : s < pipe[i].m.seq =>
           \/ <<pipe[i].m.from, s>> \in applied'
           \/ \E j \in 1..(i - 1) : pipe'[j].m.from = pipe[i].m.from /\ pipe'[j].m.seq = s
    BY <1>2, <2>1, <2>2 DEF Ordered
  <2>5. /\ \A s \in 1..worker.m.seq : s < worker.m.seq => <<worker.m.from, s>> \in applied'
        /\ <<worker.m.from, worker.m.seq>> \in applied'
    BY <1>1, <1>2, <2>1 DEF Ordered
  <2> QED
    BY <1>1, <2>3, <2>4, <2>5 DEF Ordered, Done, Queued, Busy
<1>8. ReplyProvesApplied'
  BY <1>1, <1>2 DEF ReplyProvesApplied
<1> QED
  BY <1>3, <1>4, <1>5, <1>6, <1>7, <1>8 DEF Promises, Exchange

LEMMA ReplyPromises ==
    ASSUME Base, Orderly, Promises, Reply
    PROVE  Promises'
<1> DEFINE p == worker.m.from
           L == Len(replies)
<1>1. /\ worker.at = "reply" /\ replies' = Append(replies, worker.m)
      /\ UNCHANGED <<pipe, pc, cur, sent, got, calls, applied>>
      /\ worker' = [worker EXCEPT !.r = worker.r + 1,
                       !.at = IF worker.r + 1 = ReplyUnits(worker.m.op) THEN "poll" ELSE "reply"]
  BY DEF Reply, client
<1>2. /\ TypeOK /\ Locked /\ WantedAll /\ AnswersTheAsker /\ (\A q \in Procs : Counted(q))
      /\ Ordered /\ ReplyProvesApplied /\ worker.m \in Messages /\ Busy /\ Rest
      /\ Wanted(worker.m) /\ worker.r \in Nat /\ worker.r < ReplyUnits(worker.m.op)
      /\ worker \in [at : {"poll", "field", "reply", "dead"}, m : Messages, f : Nat, r : Nat]
  BY <1>1, WorkerRecord DEF Base, Promises, Stream, Exchange, Busy, WantedAll, Handling
<1>3. /\ worker'.m = worker.m /\ worker'.r = worker.r + 1
      /\ worker'.at = IF worker.r + 1 = ReplyUnits(worker.m.op) THEN "poll" ELSE "reply"
  <2>1. CASE worker.r + 1 = ReplyUnits(worker.m.op)
    BY <1>1, <1>2, <2>1
  <2>2. CASE worker.r + 1 # ReplyUnits(worker.m.op)
    BY <1>1, <1>2, <2>2
  <2> QED
    BY <2>1, <2>2
<1>4. ReplyUnits(worker.m.op) # 0 /\ ReplyUnits(worker.m.op) \in Nat
  BY <1>2 DEF ReplyUnits, Messages, Ops, TokenOps
<1>5. /\ p \in Procs /\ lock.exclusive = p /\ pc[p] \in {"sending", "awaiting"} /\ cur[p] = worker.m
  BY <1>2, <1>4, WantedHolds
<1>6. pc[p] = "awaiting" /\ \A q \in Procs : pc[q] = "awaiting" => q = p
  <2>1. pc[p] # "sending"
    BY <1>1, <1>5, Continues DEF Promises
  <2> QED
    BY <1>2, <1>5, <2>1 DEF Locked
<1>7. \A i \in 1..Len(pipe) : pipe[i].m # worker.m
  BY <1>1, <1>2 DEF Rest
<1>8. Stream'
  BY <1>1, <1>2, <1>3, <1>7, RestsStream DEF Promises, Reading
<1>9. WantedAll'
  BY <1>1, <1>2, <1>3, RestsWanted
<1>10. /\ L \in Nat /\ Len(replies') = L + 1 /\ replies'[L + 1] = worker.m
       /\ \A i \in 1..L : replies'[i] = replies[i]
  BY <1>1, <1>2, AppendProperties, LenProperties DEF TypeOK
<1> HIDE DEF p, L
<1>11. \A i \in 1..Len(replies') : i \in 1..L \/ i = L + 1
  BY <1>10
<1>12. AnswersTheAsker'
  <2>1. ASSUME NEW i \in 1..Len(replies')
        PROVE  /\ pc[replies'[i].from] = "awaiting" /\ cur[replies'[i].from] = replies'[i]
               /\ \A q \in Procs : pc[q] = "awaiting" => q = replies'[i].from
    <3>1. CASE i \in 1..L
      BY <1>2, <1>10, <3>1 DEF AnswersTheAsker, L
    <3>2. CASE i = L + 1
      BY <1>5, <1>6, <1>10, <3>2 DEF p
    <3> QED
      BY <1>11, <3>1, <3>2
  <2> QED
    BY <1>1, <2>1 DEF AnswersTheAsker
<1>13. ASSUME NEW q \in Procs PROVE Counted(q)'
  <2>1. SUFFICES ASSUME pc[q] = "awaiting" PROVE Counted(q)'
    BY <1>1 DEF Counted
  <2>2. q = p
    BY <1>6, <2>1
  <2>3. worker.r = got[p] + L /\ got[p] < ReplyUnits(worker.m.op) /\ got[p] \in Nat
    BY <1>1, <1>2, <1>5, <1>6 DEF Counted, L, TypeOK
  <2>4. ~InFlight(cur[q])'
    BY <1>1, <1>3, <1>5, <1>7, <2>2 DEF InFlight
  <2>5. worker.r + 1 = got[p] + Len(replies')
    BY <1>2, <1>10, <2>3
  <2> QED
    BY <1>1, <1>3, <1>5, <2>2, <2>3, <2>4, <2>5 DEF Counted
<1>14. Ordered'
  <2>1. \A q, s : ~AtHand(q, s)
    BY <1>1 DEF AtHand
  <2>2. ASSUME NEW q \in Procs, NEW s \in 1..calls'[q]
        PROVE  \/ <<q, s>> \in applied'
               \/ \E j \in 1..Len(pipe) : pipe'[j].m.from = q /\ pipe'[j].m.seq = s
               \/ s = calls'[q] /\ (pc'[q] = "locking" \/ (pc'[q] = "sending" /\ sent'[q] = 0))
    BY <1>1, <1>2, <2>1 DEF Ordered, Done, Queued
  <2>3. ASSUME NEW i \in 1..Len(pipe), NEW s \in 1..pipe[i].m.seq, s < pipe[i].m.seq
        PROVE  \/ <<pipe[i].m.from, s>> \in applied'
               \/ \E j \in 1..(i - 1) : pipe'[j].m.from = pipe[i].m.from /\ pipe'[j].m.seq = s
    <3>1. Done(pipe[i].m.from, s) \/ Queued(pipe[i].m.from, s, i - 1)
      BY <1>2, <2>1, <2>3 DEF Ordered
    <3> QED
      BY <1>1, <3>1 DEF Done, Queued
  <2>4. /\ \A s \in 1..worker.m.seq : s < worker.m.seq => <<worker.m.from, s>> \in applied'
        /\ <<worker.m.from, worker.m.seq>> \in applied'
    BY <1>1, <1>2 DEF Ordered, Done
  <2> QED
    BY <1>1, <1>3, <2>2, <2>3, <2>4 DEF Ordered, Done, Queued, Busy
<1>15. ReplyProvesApplied'
  <2>1. ASSUME NEW i \in 1..Len(replies'), NEW s \in 1..replies'[i].seq
        PROVE  <<replies'[i].from, s>> \in applied
    <3>1. CASE i \in 1..L
      BY <1>2, <1>10, <2>1, <3>1 DEF ReplyProvesApplied, L
    <3>2. CASE i = L + 1
      <4>1. replies'[i] = worker.m /\ worker.m.seq \in Nat
        BY <1>2, <1>10, <3>2 DEF Messages
      <4>2. s \in 1..worker.m.seq /\ (s < worker.m.seq \/ s = worker.m.seq)
        BY <4>1
      <4> QED
        BY <1>1, <1>2, <4>1, <4>2 DEF Ordered, Done
    <3> QED
      BY <1>11, <3>1, <3>2
  <2> QED
    BY <1>1, <2>1 DEF ReplyProvesApplied
<1> QED
  BY <1>8, <1>9, <1>12, <1>13, <1>14, <1>15 DEF Promises, Exchange

\* The worker has no message, before and after; or nothing of this changes.
LEMMA RestingPromises ==
    ASSUME Base, Promises, UNCHANGED <<pipe, replies, client, applied>>,
           worker' = worker \/ (~Busy /\ ~Busy')
    PROVE  Promises'
<1>1. /\ WantedAll /\ AnswersTheAsker /\ (\A q \in Procs : Counted(q)) /\ Ordered
      /\ ReplyProvesApplied /\ UNCHANGED <<pipe, replies, pc, cur, sent, got, calls, applied>>
  BY DEF Promises, Exchange, client
<1>2. CASE worker' = worker
  <2>1. /\ Last' = Last /\ Consumed' = Consumed /\ (Reading' <=> Reading) /\ (Busy' <=> Busy)
    BY <1>1, <1>2 DEF Last, Consumed, Reading, Busy
  <2>2. Stream'
    BY <1>1, <1>2, <2>1 DEF Promises, Stream, Contiguous, FirstByte, LastByte, Sent, Rest, BegunAll, Begun
  <2>3. Exchange'
    BY <1>1, <1>2, <2>1 DEF Exchange, WantedAll, Wanted, AnswersTheAsker, Counted, InFlight
  <2>4. Ordered' /\ ReplyProvesApplied'
    BY <1>1, <1>2, <2>1 DEF Ordered, Done, AtHand, Queued, ReplyProvesApplied
  <2> QED
    BY <2>2, <2>3, <2>4 DEF Promises
<1>3. CASE ~Busy /\ ~Busy'
  <2>1. /\ worker.at \notin {"field", "reply"} /\ worker'.at \notin {"field", "reply"} /\ ~Reading
    BY <1>3 DEF Busy, Reading
  <2>2. Stream'
    BY <1>1, <2>1, RestsStream DEF Promises
  <2>3. WantedAll'
    BY <1>1, <1>3, RestsWanted
  <2>4. AnswersTheAsker' /\ ReplyProvesApplied'
    BY <1>1 DEF AnswersTheAsker, ReplyProvesApplied
  <2>5. \A q \in Procs : Counted(q)'
    BY <1>1, <2>1 DEF Counted, InFlight
  <2>6. Ordered'
    BY <1>1, <1>3, <2>1 DEF Ordered, Done, AtHand, Queued
  <2> QED
    BY <2>2, <2>3, <2>4, <2>5, <2>6 DEF Promises, Exchange
<1> QED
  BY <1>2, <1>3

-----------------------------------------------------------------------------
(* The invariant *)

LEMMA InitInv == Init => Inv
<1> SUFFICES ASSUME Init PROVE Inv
  OBVIOUS
<1>1. NoMessage \in Messages
  BY DEF NoMessage, Messages, Procs, Ops, TokenOps
<1>2. /\ pipe = <<>> /\ Len(pipe) = 0 /\ replies = <<>> /\ Len(replies) = 0
      /\ worker.at = "poll" /\ worker.m = NoMessage /\ \A p \in Procs : pc[p] = "idle" /\ calls[p] = 0
  BY DEF Init
<1>3. TypeOK
  <2>1. PipeCap \in Nat /\ ReplyCap \in Nat /\ kills \in 0..MaxKills
    BY SizeAssumption, BoundAssumption DEF Init
  <2>2. worker \in [at : {"poll", "field", "reply", "dead"}, m : Messages, f : Nat, r : Nat]
    BY <1>1 DEF Init
  <2>3. lock \in [shared : SUBSET Procs, exclusive : Procs \cup {None}]
    BY DEF Init
  <2> QED
    BY <1>1, <1>2, <2>1, <2>2, <2>3 DEF Init, TypeOK
<1>4. Base
  BY <1>2, <1>3 DEF Init, Base, Locked, Handling, Current, Written
<1>5. ~Reading /\ ~Busy
  BY <1>2 DEF Reading, Busy
<1>6. Stream
  BY <1>2, <1>5 DEF Stream, Contiguous, FirstByte, LastByte, Rest, BegunAll
<1>7. Exchange
  BY <1>2, <1>5 DEF Exchange, WantedAll, AnswersTheAsker, Counted
<1>8. Ordered /\ ReplyProvesApplied
  BY <1>2, <1>5 DEF Ordered, ReplyProvesApplied
<1> QED
  BY <1>4, <1>6, <1>7, <1>8 DEF Inv, Promises

\* A request that is begun is one its process may make.
LEMMA RequestsOffered ==
    ASSUME Base, NEW s \in Sessions, NEW r \in Requests, Request(s, r)
    PROVE  s \in Procs /\ Offered(s, r) /\ StartCall(s, r)
BY ProcAssumption DEF Request, Offered, Procs

LEMMA RedoOffered ==
    ASSUME Base, Redo
    PROVE  \E r : Startup \in Procs /\ Offered(Startup, r) /\ StartCall(Startup, r)
<1>1. Startup \in Procs /\ calls[Startup] \in Nat /\ Len(Records) \in Nat
  BY CallAssumption, LenProperties DEF Base, TypeOK, Procs
<1>2. calls[Startup] < Len(Records) /\ StartCall(Startup, Records[calls[Startup] + 1])
  BY DEF Redo
<1> QED
  BY <1>1, <1>2 DEF Offered

\* What a step does to what Orderly is about.
LEMMA StepCounts ==
    ASSUME Base, Next
    PROVE  /\ kills' \in {kills, kills + 1}
           /\ calls'[Startup] \in {calls[Startup], calls[Startup] + 1}
<1>1. /\ Startup \in Procs /\ calls \in [Procs -> Nat]
  BY DEF Base, TypeOK, Procs
<1>2. ASSUME NEW p \in Procs, NEW r, StartCall(p, r)
      PROVE  kills' = kills /\ calls' = [calls EXCEPT ![p] = @ + 1]
  BY <1>2 DEF StartCall
<1>3. ASSUME NEW p \in Procs, Acquire(p) \/ Send(p) \/ ReadReply(p)
      PROVE  kills' = kills /\ (calls' = calls \/ calls' = [calls EXCEPT ![p] = @ + 1])
  BY <1>3 DEF Acquire, Send, ReadReply
<1>4. CASE \E s \in Sessions, r \in Requests : Request(s, r)
  BY <1>1, <1>2, <1>4, RequestsOffered
<1>5. CASE Redo
  BY <1>1, <1>2, <1>5, RedoOffered
<1>6. CASE Promote
  BY <1>6 DEF Promote, client
<1>7. CASE \E p \in Procs : Acquire(p) \/ Send(p) \/ ReadReply(p)
  BY <1>1, <1>3, <1>7
<1>8. CASE Work
  BY <1>8 DEF Work, ReadOpcode, ReadField, Apply, Reply, Restart, client
<1>9. CASE Kill
  BY <1>9 DEF Kill, client
<1> QED
  BY <1>4, <1>5, <1>6, <1>7, <1>8, <1>9 DEF Next

LEMMA StepBase ==
    ASSUME Base, Next
    PROVE  Base'
<1>1. ASSUME NEW s \in Sessions, NEW r \in Requests, Request(s, r) PROVE Base'
  BY <1>1, RequestsOffered, StartBase
<1>2. CASE Redo
  BY <1>2, RedoOffered, StartBase
<1>3. ASSUME NEW p \in Procs, Acquire(p) PROVE Base'
  BY <1>3, AcquireBase
<1>4. ASSUME NEW p \in Procs, Send(p) PROVE Base'
  BY <1>4, SendWrites, WritesBase
<1>5. ASSUME NEW p \in Procs, ReadReply(p) PROVE Base'
  BY <1>5, ReadReplyBase
<1>6. CASE Work
  BY <1>6, ReadOpcodeBase, ReadFieldBase, ApplyBase, ReplyBase, RestartBase DEF Work
<1>7. CASE Promote \/ Kill
  BY <1>7, PromoteBase, KillBase
<1> QED
  BY <1>1, <1>2, <1>3, <1>4, <1>5, <1>6, <1>7 DEF Next

LEMMA StepPromises ==
    ASSUME Base, Orderly, Orderly', Promises, Next
    PROVE  Promises'
<1>1. ASSUME NEW s \in Sessions, NEW r \in Requests, Request(s, r) PROVE Promises'
  BY <1>1, RequestsOffered, StartPromises
<1>2. CASE Redo
  BY <1>2, RedoOffered, StartPromises
<1>3. ASSUME NEW p \in Procs, Acquire(p) PROVE Promises'
  BY <1>3, AcquirePromises
<1>4. ASSUME NEW p \in Procs, Send(p) PROVE Promises'
  BY <1>4, SendPromises
<1>5. ASSUME NEW p \in Procs, ReadReply(p) PROVE Promises'
  BY <1>5, ReadReplyPromises
<1>6. CASE ReadOpcode
  BY <1>6, ReadOpcodeReads, ReadsPromises DEF Promises
<1>7. CASE ReadField
  BY <1>7, ReadFieldReads, ReadsPromises DEF Promises
<1>8. CASE Apply
  BY <1>8, ApplyPromises
<1>9. CASE Reply
  BY <1>9, ReplyPromises
<1>10. CASE Restart
  <2>1. UNCHANGED <<pipe, replies, client, applied>> /\ worker.at = "dead" /\ worker'.at = "poll"
    BY <1>10 DEF Restart
  <2> QED
    BY <2>1, RestingPromises DEF Busy
<1>11. CASE Kill
  <2>1. /\ UNCHANGED <<pipe, replies, client, applied>> /\ worker.at \in KillPoints
        /\ kills' = kills + 1 /\ worker' = [worker EXCEPT !.at = "dead"] /\ kills \in Nat
    BY <1>11, BoundAssumption DEF Kill, Base, TypeOK
  <2>2. KillPoints \subseteq {"poll"}
    BY <2>1 DEF Orderly
  <2>3. worker.at = "poll" /\ worker'.at = "dead"
    BY <2>1, <2>2, WorkerRecord DEF Base
  <2> QED
    BY <2>1, <2>3, RestingPromises DEF Busy
<1>12. CASE Promote
  <2>1. UNCHANGED <<pipe, replies, client, applied>> /\ worker' = worker
    BY <1>12 DEF Promote
  <2> QED
    BY <2>1, RestingPromises
<1> QED
  BY <1>1, <1>2, <1>3, <1>4, <1>5, <1>6, <1>7, <1>8, <1>9, <1>10, <1>11, <1>12 DEF Next, Work

LEMMA StepInv == Inv /\ [Next]_vars => Inv'
<1>1. ASSUME Inv, Next PROVE Inv'
  <2>1. Base /\ Base'
    BY <1>1, StepBase DEF Inv
  <2>2. SUFFICES ASSUME Orderly' PROVE Promises'
    BY <2>1 DEF Inv
  <2>3. Orderly
    BY <1>1, <2>1, <2>2, StepCounts, OrderlyBefore
  <2> QED
    BY <1>1, <2>1, <2>2, <2>3, StepPromises DEF Inv
<1>2. ASSUME Inv, UNCHANGED vars PROVE Inv'
  <2>1. Base /\ Base'
    BY <1>2, StutterBase DEF Inv
  <2>2. UNCHANGED <<pipe, replies, client, applied>> /\ worker' = worker
        /\ kills' = kills /\ calls' = calls
    BY <1>2 DEF vars, client
  <2>3. Orderly' <=> Orderly
    BY <2>2 DEF Orderly
  <2> QED
    BY <1>2, <2>1, <2>2, <2>3, RestingPromises DEF Inv
<1> QED
  BY <1>1, <1>2

\* Inv is an invariant of the conversation between backends and worker.
THEOREM ConversationInvariant == Spec => []Inv
BY InitInv, StepInv, PTL DEF Spec

-----------------------------------------------------------------------------
(* What it means for the runs' properties *)

\* The bytes in the pipe are whole messages, one after the other.
LEMMA BytesFramed ==
    ASSUME Base, Stream
    PROVE  Framed
<1>1. /\ TypeOK /\ Contiguous /\ FirstByte /\ Len(pipe) \in Nat /\ (pipe = <<>> <=> Len(pipe) = 0)
      /\ \A i \in 1..Len(pipe) :
            /\ pipe[i].pos \in Nat /\ pipe[i].pos <= Length(pipe[i].m) /\ Length(pipe[i].m) \in Nat
            /\ pipe[i] = [m |-> pipe[i].m, pos |-> pipe[i].pos]
  BY PipeFacts DEF Base, Stream
<1>2. ASSUME NEW i \in 1..(Len(pipe) - 1)
      PROVE  pipe[i + 1] = IF pipe[i].pos < Length(pipe[i].m)
                           THEN [pipe[i] EXCEPT !.pos = @ + 1]
                           ELSE [m |-> pipe[i + 1].m, pos |-> 1]
  <2>1. PICK j \in 1..Len(pipe) : j = i + 1 /\ i \in 1..Len(pipe) /\ i < Len(pipe) /\ j - i = 1 /\ i <= j
    BY <1>1
  <2>2. CASE pipe[i].pos < Length(pipe[i].m)
    <3>5. pipe[i].pos \in Nat /\ Length(pipe[i].m) \in Nat
      BY <1>1, <2>1
    <3>1. pipe[i].pos + (j - i) <= Length(pipe[i].m)
      BY <2>1, <2>2, <3>5
    <3>2. pipe[j].m = pipe[i].m /\ pipe[j].pos = pipe[i].pos + 1
      BY <1>1, <2>1, <3>1 DEF Contiguous
    <3>3. /\ pipe[j] = [m |-> pipe[j].m, pos |-> pipe[j].pos]
          /\ pipe[i] = [m |-> pipe[i].m, pos |-> pipe[i].pos]
      BY <1>1, <2>1
    <3>4. [pipe[i] EXCEPT !.pos = @ + 1] = [m |-> pipe[i].m, pos |-> pipe[i].pos + 1]
      BY <3>3
    <3> QED
      BY <2>1, <2>2, <3>2, <3>3, <3>4
  <2>3. CASE ~(pipe[i].pos < Length(pipe[i].m))
    <3>3. /\ pipe[i].pos \in Nat /\ Length(pipe[i].m) \in Nat
          /\ pipe[i].pos <= Length(pipe[i].m)
      BY <1>1, <2>1
    <3>1. pipe[i].pos = Length(pipe[i].m)
      BY <2>3, <3>3
    <3>2. pipe[j].pos = 1
      BY <1>1, <2>1, <3>1 DEF Contiguous
    <3> QED
      BY <1>1, <2>1, <2>3, <3>2
  <2> QED
    BY <2>2, <2>3
<1>3. ASSUME pipe # <<>>
      PROVE  pipe[1] = IF worker.at = "field" /\ worker.f <= Fields(worker.m)
                       THEN [m |-> worker.m, pos |-> Consumed + 1]
                       ELSE [m |-> pipe[1].m, pos |-> 1]
  <2>1. pipe[1] = [m |-> pipe[1].m, pos |-> pipe[1].pos]
    BY <1>1, <1>3
  <2> QED
    BY <1>1, <1>3, <2>1 DEF FirstByte, Reading
<1> QED
  BY <1>2, <1>3 DEF Framed

\* The variables have their types, whatever is killed or replayed: neither pipe
\* exceeds its capacity, no byte lies past its message (provsql_shmem.c,
\* provsql_mmap.h).
THEOREM TypeCorrect == Spec => []TypeOK
<1>1. Inv => TypeOK
  BY DEF Inv, Base
<1> QED
  BY <1>1, ConversationInvariant, PTL

\* The lock keeps the writers of more than one write() apart: an exclusive holder
\* is alone, and whoever waits for a reply is one.
THEOREM OneAtATime == Spec => []Locked
<1>1. Inv => Locked
  BY DEF Inv, Base
<1> QED
  BY <1>1, ConversationInvariant, PTL

\* The request pipe holds whole messages and no field is read short, as long as
\* Orderly (STARTWRITEM and SENDWRITEM against the READMs of the main loop).
THEOREM PipeInvariant == Spec => [](Orderly => PipeInv)
<1>1. Inv => (Orderly => PipeInv)
  BY BytesFramed, EnoughBytes DEF Inv, Base, Promises, PipeInv
<1> QED
  BY <1>1, ConversationInvariant, PTL

\* A reply goes to the process that asked, as long as Orderly.
THEOREM RepliesReachTheAsker == Spec => [](Orderly => AnswersTheAsker)
<1>1. Inv => (Orderly => AnswersTheAsker)
  BY DEF Inv, Promises, Exchange
<1> QED
  BY <1>1, ConversationInvariant, PTL

\* A reply proves that every earlier message of its asker is applied, as long
\* as Orderly: what provsql_mmap_sync and the pre-commit barrier rely on.
THEOREM RepliesProveApplied == Spec => [](Orderly => ReplyProvesApplied)
<1>1. Inv => (Orderly => ReplyProvesApplied)
  BY DEF Inv, Promises
<1> QED
  BY <1>1, ConversationInvariant, PTL

\* Where the worker is not ended within a message and the log holds one-write
\* records only, Orderly always holds, and so do the three properties.
THEOREM Undisturbed ==
    ASSUME MaxKills = 0 \/ KillPoints \subseteq {"poll"},
           \A k \in 1..Len(Records) : OneShot(Records[k])
    PROVE  Spec => [](PipeInv /\ AnswersTheAsker /\ ReplyProvesApplied)
<1>1. Inv => Orderly
  <2> SUFFICES ASSUME Inv PROVE Orderly
    OBVIOUS
  <2>1. kills \in 0..MaxKills /\ Startup \in Procs /\ calls \in [Procs -> Nat]
    BY DEF Inv, Base, TypeOK, Procs
  <2>2. /\ kills \in 0..MaxKills /\ MaxKills \in Nat /\ Len(Records) \in Nat
        /\ calls[Startup] \in Nat
    BY <2>1, BoundAssumption, CallAssumption, LenProperties
  <2>3. kills = 0 \/ KillPoints \subseteq {"poll"}
    BY <2>2
  <2>4. \A k \in 1..calls[Startup] : k <= Len(Records) => k \in 1..Len(Records)
    BY <2>2
  <2> QED
    BY <2>3, <2>4 DEF Orderly
<1>2. Inv => PipeInv /\ AnswersTheAsker /\ ReplyProvesApplied
  BY <1>1, BytesFramed, EnoughBytes DEF Inv, Base, Promises, PipeInv, Exchange
<1> QED
  BY <1>2, ConversationInvariant, PTL
=============================================================================
