------------------------------- MODULE KCMCP -------------------------------
(***************************************************************************)
(* The sessions, the managed server and its supervisor together, and what  *)
(* they promise: the caller of a compilation cannot tell them from the     *)
(* CompileService.                                                         *)
(***************************************************************************)
EXTENDS KCMCPClient, KCMCPServer

Init ==
    /\ link = [k \in Links |-> Closed] /\ backlog = <<>>
    /\ pc = [s \in Backends |-> "idle"] /\ call = [s \in Backends |-> 0]
    /\ fd = [c \in Clients |-> None] /\ trying = [s \in Backends |-> None]
    /\ attempt = [s \in Backends |-> 0] /\ lastId = [s \in Backends |-> 0]
    /\ outcome = [s \in Backends |-> None] /\ interrupted = [s \in Backends |-> FALSE]
    /\ stage = "down" /\ current = None /\ job = None
    /\ at = "top" /\ child = FALSE /\ endpoint = None /\ command = "server" /\ reload = None
    /\ events = 0

Next ==
    \/ \E s \in Backends : Call(s) \/ BackendStep(s) \/ Interrupt(s) \/ Exit(s)
    \/ ServerStep \/ PollQuiet \/ FinishJob \/ Crash
    \/ SupervisorStep \/ Signal
    \/ \E p \in Peers : PeerConnect(p) \/ PeerClose(p)

\* What the operating system and the loops give: a process that can go on
\* does, and a build ends.  No call, exit, signal or fault need ever come.
Fairness ==
    /\ \A s \in Backends : WF_vars(BackendStep(s))
    /\ WF_vars(ServerStep) /\ WF_vars(FinishJob)
    /\ WF_vars(SupervisorStep)

Spec == Init /\ [][Next]_vars /\ Fairness

-----------------------------------------------------------------------------
(* What the sockets and the three parties keep to *)

Kinds == {"HELLO", "NEWER", "REQUEST", "CANCEL", "PING", "PONG", "BYE", "COMPRESSED",
          "OVERSIZE", "PROGRESS", "RESULT", "ERROR"}
Problems == (Clients \X Nat) \cup {None}
Frames == [type : Kinds, id : Nat, of : Problems]
Jobs == [id : Nat, of : Problems]
Outcomes == [kind : {"answer", "failed", "cancelled"}, of : Problems]
Connections == [by : Clients \cup {None}, client : BOOLEAN, server : BOOLEAN,
                up : Seq(Frames), down : Seq(Frames)]

TypeOK ==
    /\ link \in [Links -> Connections] /\ backlog \in Seq(Links)
    /\ pc \in [Backends -> {"idle", "ensure", "hello", "send", "wait"}]
    /\ call \in [Backends -> Nat] /\ lastId \in [Backends -> Nat]
    /\ fd \in [Clients -> Links \cup {None}] /\ trying \in [Backends -> Links \cup {None}]
    /\ attempt \in [Backends -> {0, 1}] /\ interrupted \in [Backends -> BOOLEAN]
    /\ outcome \in [Backends -> Outcomes \cup {None}]
    /\ stage \in {"down", "dead", "starting", "accept", "hello", "ready", "job"}
    /\ current \in Links \cup {None} /\ job \in Jobs \cup {None}
    /\ at \in {"top", "latch", "nap", "gone"} /\ child \in BOOLEAN
    /\ endpoint \in {"path", None} /\ command \in Commands
    /\ reload \in Commands \cup {"terminate", None}
    /\ events \in 0..MaxEvents

\* The server has a connection when it serves one; the ones that wait for it are
\* different, and open on its side; without a process there is none.  What was
\* sent to a server that closed is lost.
ServerInv ==
    /\ stage \in {"hello", "ready", "job"} <=> current # None
    /\ stage = "job" => job \in Jobs
    /\ current # None => link[current].server
    /\ \A i \in DOMAIN backlog :
          /\ link[backlog[i]].server /\ backlog[i] # current
          /\ \A j \in DOMAIN backlog : backlog[i] = backlog[j] => i = j
    /\ stage \in {"down", "dead", "starting"} =>
          backlog = <<>> /\ \A k \in Links : ~link[k].server
    /\ ~child => stage = "down"
    /\ \A k \in Links : ~link[k].server => link[k].up = <<>>

\* The connection a session keeps, or tries to open.
Held(s) == IF pc[s] = "hello" THEN trying[s] ELSE fd[s]

\* A connection the client has open is held by the one who opened it.
Owned(s) ==
    /\ pc[s] = "hello" => fd[s] = None
    /\ pc[s] \in {"hello", "send", "wait"} => Held(s) # None
    /\ Held(s) # None => link[Held(s)].by = s /\ link[Held(s)].client

PeersInv == \A p \in Peers : fd[p] # None => link[fd[p]].by = p /\ link[fd[p]].client

\* The frames of an answer to problem p: reports, and at the end at most one
\* RESULT, of that very problem, or ERROR.
AnswersTo(p, frames) ==
    \A i \in DOMAIN frames :
        /\ frames[i].type \in {"PROGRESS", "RESULT", "ERROR"}
        /\ frames[i].type = "RESULT" => frames[i].of = p
        /\ frames[i].type # "PROGRESS" => i = Len(frames)
Complete(frames) == frames # <<>> /\ frames[Len(frames)].type # "PROGRESS"

OneFrame(frames, type) == Len(frames) = 1 /\ frames[1].type = type

\* Where the two ends of connection k, which a session holds, may be with one
\* another.  An open end of the server is in its backlog or is being served.
Greeting(k) ==
    /\ link[k].down = <<>> \/ (OneFrame(link[k].down, "HELLO") /\ link[k].up = <<>>)
    /\ link[k].server =>
          \/ /\ OneFrame(link[k].up, "HELLO") /\ link[k].down = <<>>
             /\ current = k => stage = "hello"
          \/ /\ link[k].up = <<>> /\ link[k].down # <<>>
             /\ current = k /\ stage = "ready"

Quiet(k) ==
    /\ link[k].up = <<>> /\ link[k].down = <<>>
    /\ link[k].server => current = k /\ stage = "ready"

Working(p, k) ==
    /\ AnswersTo(p, link[k].down)
    /\ link[k].server =>
          /\ current = k
          /\ \/ /\ stage = "ready" /\ ~Complete(link[k].down)
                /\ OneFrame(link[k].up, "REQUEST") /\ link[k].up[1].of = p
             \/ /\ stage = "job" /\ ~Complete(link[k].down)
                /\ link[k].up = <<>> /\ job.of = p
             \/ /\ stage = "ready" /\ Complete(link[k].down) /\ link[k].up = <<>>

Talk(s) ==
    Held(s) # None =>
        /\ pc[s] = "hello" => Greeting(Held(s))
        /\ pc[s] \in {"idle", "ensure", "send"} => Quiet(Held(s))
        /\ pc[s] = "wait" => Working(Problem(s), Held(s))

\* The inductive invariant.  An answer is about the problem of the session that
\* reads it although nothing compares identifiers, because a connection is
\* given up before anything is left on it.
ConnectionInv ==
    /\ TypeOK /\ ServerInv /\ PeersInv
    /\ \A s \in Backends : Owned(s) /\ Talk(s)

-----------------------------------------------------------------------------
\* Bound of a run: one session calls twice, the others once.
OneCallsTwice ==
    LET first == CHOOSE s \in Backends : TRUE
    IN [s \in Backends |-> IF s = first THEN 2 ELSE 1]

\* Each call ends once, with the answer to its own problem, a failure or the
\* interruption it was sent (kcmcp_compile; nothing compares request ids).
Asking == [s \in Backends |-> pc[s] # "idle"]
Service == INSTANCE CompileService WITH asking <- Asking
ServiceSpec == Service!Spec

\* A connection kept for the next call has nothing left to read on it: an
\* answer to an abandoned request would be taken for the next one's
\* (wait_readable_or_cancel closes before it raises).
KeptConnectionsAreQuiet ==
    \A s \in Backends : pc[s] \in {"idle", "send"} /\ fd[s] # None => ~HasAnswer(fd[s])

\* Session s waits for a handshake behind another client, which holds the
\* server without a job.
Starved(s) ==
    /\ pc[s] = "hello"
    /\ current # None /\ link[current].by # s /\ link[current].client /\ stage \in {"hello", "ready"}

\* A call ends, unless somebody else's connection, idle, keeps the server from
\* accepting it (run_session serves a connection until it is closed).
CallsEnd == \A s \in Backends : []<>(pc[s] = "idle") \/ <>[]Starved(s)

\* While a server is configured and the supervisor lives, one that ends is
\* there again (provsql_kcmcp_worker).
Listening == stage \notin {"down", "dead", "starting"}
Relaunched == []<>(Listening \/ command # "server" \/ at = "gone")
=============================================================================
