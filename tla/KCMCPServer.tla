---------------------------- MODULE KCMCPServer ----------------------------
(***************************************************************************)
(* The compile service: the server and the worker that launches it.        *)
(*                                                                         *)
(* tdkc --kcmcp (kcmcp_server.cpp): one process, one thread, one session   *)
(* at a time.  A session is served until its client says BYE, closes, or   *)
(* breaks the protocol; while a job runs, the loops of the compiler call   *)
(* provsql_tdkc_poll, which looks at the connection.                       *)
(*                                                                         *)
(* stage says where the process is: "down" (none), "dead" (ended, not yet  *)
(* reaped), "starting", "accept", "hello", "ready" (run_session waits for  *)
(* a frame) or "job".                                                      *)
(***************************************************************************)
EXTENDS KCMCPLink

Hello == Frame("HELLO", 0, None)
Newer == Frame("NEWER", 0, None)   \* the HELLO of a later major version
Work(p) == Frame("REQUEST", 1, <<p, 1>>)

\* The frames a peer may send: what the protocol has, and the two that
\* Connection::recv refuses, one of them without losing its place.
PeerFrames(p) ==
    {Hello, Newer, Work(p), Frame("CANCEL", 1, None), Frame("PING", 2, None),
     Frame("BYE", 0, None), Frame("COMPRESSED", 3, None), Frame("OVERSIZE", 3, None)}

\* What it writes at once: the server may read the last frame during the job.
Scripts(p) ==
    {<<Newer>>, <<Work(p)>>}
      \cup {<<Hello, m>> : m \in PeerFrames(p)} \cup {<<Hello, Work(p), m>> : m \in PeerFrames(p)}

\* Peers read what they are sent at once; nothing depends on it.

Reply(m, f) == IF link[current].by \in Peers THEN f ELSE Answered(current, m, f)

\* run_session returns and the connection is closed.
Leave(f) ==
    /\ link' = Dropped(current, f)
    /\ current' = None /\ job' = None
    /\ stage' = "accept"
    /\ UNCHANGED backlog

\* An exception leaves run_session: nothing in kcmcp_serve or main catches it
\* and the process ends, with every connection it has.
Terminate ==
    /\ link' = ServerGone(link)
    /\ backlog' = <<>>
    /\ current' = None /\ job' = None
    /\ stage' = "dead"

\* conn.send outside every try: on to the next stage, or the end.
SendOrTerminate(m, f, next) ==
    IF CanAnswer(current)
    THEN /\ link' = Reply(m, f)
         /\ stage' = next /\ job' = None
         /\ UNCHANGED <<backlog, current>>
    ELSE Terminate

others == <<clientVars, interrupted, supervisorVars, reload, events>>

\* bind and listen: the socket file of a server before it is unlinked first.
Listen ==
    /\ stage = "starting"
    /\ stage' = "accept"
    /\ UNCHANGED <<link, backlog, current, job, others>>

Accept ==
    /\ stage = "accept" /\ backlog # <<>>
    /\ current' = Head(backlog) /\ backlog' = Tail(backlog)
    /\ stage' = "hello"
    /\ UNCHANGED <<link, job, others>>

\* The frame recv returns, and the connection once it is read.
Read == Head(link[current].up)
After == [link EXCEPT ![current].up = Tail(@)]

\* The start of run_session, where every send is inside a try.
Greet ==
    /\ stage = "hello"
    /\ \/ RequestsEnd(current) /\ Leave(link)
       \/ /\ HasRequest(current)
          /\ \/ /\ Read.type # "HELLO"
                /\ Leave(Reply(Frame("ERROR", Read.id, None), After))
             \/ /\ Read.type = "HELLO"
                /\ IF CanAnswer(current)
                   THEN /\ link' = Reply(Frame("HELLO", 0, None), After)
                        /\ stage' = "ready"
                        /\ UNCHANGED <<backlog, current, job>>
                   ELSE Leave(After)
    /\ UNCHANGED others

\* A bug: a session whose client closes without a BYE is still served.
Serve_WaitsOn ==
    /\ stage = "ready" /\ HasRequest(current)
    /\ IF Read.type = "REQUEST"
       THEN /\ job' = [id |-> Read.id, of |-> Read.of]
            /\ stage' = "job" /\ link' = After
            /\ UNCHANGED <<backlog, current>>
       ELSE Leave(After)
    /\ UNCHANGED others

\* The request loop.  parse_request, parse_dimacs_cnf and the tests of formats
\* and operations accept a problem or answer with an error.
Serve ==
    /\ stage = "ready"
    /\ \/ RequestsEnd(current) /\ Leave(link)
       \/ /\ HasRequest(current) /\ Read.type = "REQUEST"
          /\ \/ SendOrTerminate(Frame("ERROR", Read.id, None), After, "ready")
             \/ /\ job' = [id |-> Read.id, of |-> Read.of]
                /\ stage' = "job" /\ link' = After
                /\ UNCHANGED <<backlog, current>>
       \/ /\ HasRequest(current) /\ Read.type = "PING"
          /\ SendOrTerminate(Frame("PONG", Read.id, None), After, "ready")
       \/ /\ HasRequest(current) /\ Read.type = "CANCEL"
          /\ link' = After
          /\ UNCHANGED <<backlog, current, job, stage>>
       \/ /\ HasRequest(current) /\ Read.type \in {"BYE", "OVERSIZE"}
          /\ Leave(After)
       \/ /\ HasRequest(current) /\ Read.type = "COMPRESSED"
          /\ IF CanAnswer(current)
             THEN /\ link' = Reply(Frame("ERROR", Read.id, None), After)
                  /\ UNCHANGED <<backlog, current, job, stage>>
             ELSE Leave(After)
       \/ /\ HasRequest(current) /\ Read.type \in {"HELLO", "NEWER"}
          /\ SendOrTerminate(Frame("ERROR", Read.id, None), After, "ready")
    /\ UNCHANGED others

\* Cancelled leaves the build; its handler answers ERROR, outside every try.
Abort(f) == SendOrTerminate(Frame("ERROR", job.id, None), f, "ready")

\* provsql_tdkc_poll finds something to read: a frame, or the end of the
\* connection, which abandons the job.
PollReads ==
    /\ stage = "job"
    /\ \/ RequestsEnd(current) /\ Abort(link)
       \/ /\ HasRequest(current)
          /\ \/ /\ \/ Read.type = "CANCEL" /\ Read.id = job.id
                   \/ Read.type \in {"COMPRESSED", "OVERSIZE"}
                   \/ Read.type = "PING" /\ ~CanAnswer(current)
                /\ Abort(After)
             \/ /\ Read.type = "PING" /\ CanAnswer(current)
                /\ link' = Reply(Frame("PONG", Read.id, None), After)
                /\ UNCHANGED <<backlog, current, job, stage>>
             \/ /\ \/ Read.type \in {"HELLO", "NEWER", "REQUEST", "BYE"}
                   \/ Read.type = "CANCEL" /\ Read.id # job.id
                /\ link' = After
                /\ UNCHANGED <<backlog, current, job, stage>>
    /\ UNCHANGED others

\* The poll finds nothing to read: the deadline of the request may be over (the
\* extension sets none), or a PROGRESS is due.  At most one waits to be read.
PollQuiet ==
    /\ stage = "job" /\ ~HasRequest(current) /\ ~RequestsEnd(current)
    /\ \/ /\ link[current].by \in Peers
          /\ SendOrTerminate(Frame("ERROR", job.id, None), link, "ready")
       \/ /\ link[current].down = <<>>
          /\ link' = Reply(Frame("PROGRESS", job.id, None), link)
          /\ UNCHANGED <<backlog, current, job, stage>>
    /\ UNCHANGED others

\* The build ends: with a d-DNNF, or with an exception of its own.  A send that
\* fails is an exception too, and the answer to that is sent outside the try.
FinishJob ==
    /\ stage = "job"
    /\ \/ SendOrTerminate(Frame("RESULT", job.id, job.of), link, "ready")
       \/ SendOrTerminate(Frame("ERROR", job.id, None), link, "ready")
    /\ UNCHANGED others

\* The process is killed, runs out of memory, or was never a server.
Crash ==
    /\ stage \notin {"down", "dead"} /\ Event
    /\ Terminate
    /\ UNCHANGED <<clientVars, interrupted, supervisorVars, reload>>

ServerStep == Listen \/ Accept \/ Greet \/ Serve \/ PollReads

\* A peer connects and writes; it closes when it likes.
PeerConnect(p) ==
    /\ fd[p] = None /\ stage \notin {"down", "dead", "starting"} /\ FreeLinks # {}
    /\ Spend(2)
    /\ \E script \in Scripts(p) : link' = [link EXCEPT ![NextLink] = Opened(p, script)]
    /\ fd' = [fd EXCEPT ![p] = NextLink]
    /\ backlog' = Append(backlog, NextLink)
    /\ UNCHANGED <<pc, call, trying, attempt, lastId, outcome, interrupted, serverVars,
                   supervisorVars, reload>>

PeerClose(p) ==
    /\ fd[p] # None
    /\ link' = HungUp(fd[p], link)
    /\ fd' = [fd EXCEPT ![p] = None]
    /\ UNCHANGED <<backlog, pc, call, trying, attempt, lastId, outcome, interrupted, serverVars,
                   supervisorVars, reload, events>>

-----------------------------------------------------------------------------
(* The background worker that launches the managed server and publishes    *)
(* its address (kcmcp_supervisor.c).  command is provsql.kcmcp_server as   *)
(* the worker last read it: "server" (a command with an {endpoint}),       *)
(* "bare" (one without) or "" ; reload is what the configuration file says *)
(* after a SIGHUP not yet served, or "terminate" after a SIGTERM.          *)
(*                                                                         *)
(* at is where the loop is: "top", "latch" (it waits for a signal), "nap"  *)
(* (a second at most) or "gone".                                           *)

Commands == {"server", "bare", ""}

rest == <<clientVars, interrupted, events>>

\* kill_server and the publish_endpoint("") that follows it.
KillServer ==
    IF child
    THEN /\ child' = FALSE /\ endpoint' = None
         /\ stage' = "down" /\ current' = None /\ job' = None
         /\ backlog' = <<>> /\ link' = ServerGone(link)
    ELSE UNCHANGED <<child, endpoint, stage, current, job, backlog, link>>

\* SIGHUP: the file is read again and the server recycled, whatever changed.
ServeReload ==
    /\ at = "top" /\ reload \in Commands
    /\ command' = reload /\ reload' = None
    /\ KillServer
    /\ UNCHANGED <<at, rest>>

\* SIGTERM: the loop ends, the server is killed and no address is left.
ServeTerminate ==
    /\ at = "top" /\ reload = "terminate"
    /\ at' = "gone" /\ reload' = None
    /\ KillServer
    /\ UNCHANGED <<command, rest>>

\* Nothing to run: the worker waits on its latch.
Idle ==
    /\ at = "top" /\ reload = None
    /\ command = "" \/ (command = "bare" /\ ~child)
    /\ KillServer
    /\ at' = "latch"
    /\ UNCHANGED <<command, reload, rest>>

\* A server is launched when there is none; fork may fail.
Launch ==
    /\ at = "top" /\ reload = None /\ command = "server" /\ ~child
    /\ \/ /\ child' = TRUE /\ endpoint' = "path" /\ stage' = "starting"
          /\ UNCHANGED events
       \/ Event /\ UNCHANGED <<child, endpoint, stage>>
    /\ at' = "nap"
    /\ UNCHANGED <<link, backlog, current, job, command, reload, clientVars, interrupted>>

\* The wait on the latch ends: a signal.
Woken ==
    /\ at = "latch" /\ reload # None
    /\ at' = "top"
    /\ UNCHANGED <<link, backlog, serverVars, child, endpoint, command, reload, rest>>

\* A bug: the child that was reaped is still taken for running.
Reap_KeepsChild ==
    /\ at = "nap" /\ (~child \/ stage = "dead" \/ reload # None)
    /\ at' = "top"
    /\ IF child /\ stage = "dead"
       THEN endpoint' = None /\ stage' = "down"
       ELSE UNCHANGED <<endpoint, stage>>
    /\ UNCHANGED <<child, link, backlog, current, job, command, reload, rest>>

\* The nap ends: a signal, the end of the child or the timeout; waitpid tells
\* whether the server is still there.  A nap that changes nothing is no step.
Reap ==
    /\ at = "nap" /\ (~child \/ stage = "dead" \/ reload # None)
    /\ at' = "top"
    /\ IF child /\ stage = "dead"
       THEN child' = FALSE /\ endpoint' = None /\ stage' = "down"
       ELSE UNCHANGED <<child, endpoint, stage>>
    /\ UNCHANGED <<link, backlog, current, job, command, reload, rest>>

SupervisorStep == ServeReload \/ ServeTerminate \/ Idle \/ Launch \/ Woken \/ Reap

\* The file is edited and the postmaster told, or the worker is terminated.
Signal ==
    /\ Event /\ at # "gone"
    /\ reload' \in Commands \cup {"terminate"}
    /\ reload # "terminate"
    /\ UNCHANGED <<link, backlog, clientVars, interrupted, serverVars, supervisorVars>>
=============================================================================
