---------------------------- MODULE KCMCPClient ----------------------------
(***************************************************************************)
(* The client in a backend (kcmcp_client.cpp, and the branch of            *)
(* BooleanCircuit::compilation that calls it).  A session keeps one        *)
(* connection for its whole life, and compiles one problem at a time.  The *)
(* wait for an answer looks for a cancellation every 100 ms; connecting    *)
(* and the handshake do not.                                               *)
(***************************************************************************)
EXTENDS KCMCPLink

\* A problem is known by the session and the number of its call.
Problem(s) == <<s, call[s]>>

\* What a call can come to.
Answer(p) == [kind |-> "answer", of |-> p]
Failure == [kind |-> "failed", of |-> None]
Cancelled == [kind |-> "cancelled", of |-> None]

\* The statement is over, with this outcome.
Ends(s, o) ==
    /\ pc' = [pc EXCEPT ![s] = "idle"]
    /\ outcome' = [outcome EXCEPT ![s] = o]
    /\ interrupted' = [interrupted EXCEPT ![s] = FALSE]
    /\ attempt' = [attempt EXCEPT ![s] = 0]

\* A query needs a compilation.  With no endpoint published there is nothing
\* to connect to, and the caller goes on without the server.
Call(s) ==
    /\ pc[s] = "idle" /\ call[s] < MaxCalls[s]
    /\ call' = [call EXCEPT ![s] = @ + 1]
    /\ IF endpoint = None
       THEN Ends(s, Failure)
       ELSE /\ pc' = [pc EXCEPT ![s] = "ensure"]
            /\ outcome' = [outcome EXCEPT ![s] = None]
            /\ attempt' = [attempt EXCEPT ![s] = 0]
            /\ UNCHANGED interrupted
    /\ UNCHANGED <<link, backlog, fd, trying, lastId, serverVars, supervisorVars, reload, events>>

\* What kcmcp_compile does with an exception: a connection that was reused is
\* replaced by a fresh one, once; a fresh one that fails is given up.
GiveUpOrRetry(s, reused) ==
    IF reused /\ attempt[s] = 0
    THEN /\ pc' = [pc EXCEPT ![s] = "ensure"]
         /\ attempt' = [attempt EXCEPT ![s] = 1]
         /\ UNCHANGED <<outcome, interrupted>>
    ELSE Ends(s, Failure)

\* The connection in use is one the session had before this attempt.
Reusing(s) == attempt[s] = 0 /\ trying[s] = None

\* close_cached, then the retry or the failure.
Broken(s) ==
    /\ link' = HungUp(fd[s], link)
    /\ fd' = [fd EXCEPT ![s] = None]
    /\ trying' = [trying EXCEPT ![s] = None]
    /\ GiveUpOrRetry(s, Reusing(s))

\* ensure_connection, up to the wait for the server's HELLO.
ensure_connection(s) ==
    /\ pc[s] = "ensure"
    /\ IF fd[s] # None
       THEN /\ pc' = [pc EXCEPT ![s] = "send"]
            /\ UNCHANGED <<link, backlog, trying, attempt, outcome, interrupted>>
       ELSE IF stage \in {"down", "dead", "starting"}
       THEN /\ Ends(s, Failure)
            /\ UNCHANGED <<link, backlog, trying>>
       ELSE /\ FreeLinks # {}
            /\ link' = [link EXCEPT ![NextLink] = Opened(s, <<Frame("HELLO", 0, None)>>)]
            /\ backlog' = Append(backlog, NextLink)
            /\ trying' = [trying EXCEPT ![s] = NextLink]
            /\ pc' = [pc EXCEPT ![s] = "hello"]
            /\ UNCHANGED <<attempt, outcome, interrupted>>
    /\ UNCHANGED <<call, fd, lastId, serverVars, supervisorVars, reload, events>>

\* The rest of it: recv, which nothing interrupts, and what the answer says.
Handshake(s) ==
    /\ pc[s] = "hello"
    /\ LET k == trying[s] IN
       \/ /\ HasAnswer(k) /\ Head(link[k].down).type = "HELLO"
          /\ fd' = [fd EXCEPT ![s] = k]
          /\ link' = [link EXCEPT ![k].down = Tail(@)]
          /\ pc' = [pc EXCEPT ![s] = "send"]
          /\ UNCHANGED <<trying, attempt, outcome, interrupted>>
       \/ /\ AnswersEnd(k) \/ (HasAnswer(k) /\ Head(link[k].down).type # "HELLO")
          /\ link' = HungUp(k, link)
          /\ trying' = [trying EXCEPT ![s] = None]
          /\ Ends(s, Failure)
          /\ UNCHANGED fd
    /\ UNCHANGED <<backlog, call, lastId, serverVars, supervisorVars, reload, events>>

\* do_compile up to the loop: the REQUEST leaves with a new identifier.
SendRequest(s) ==
    /\ pc[s] = "send"
    /\ lastId' = [lastId EXCEPT ![s] = @ + 1]
    /\ IF CanAsk(fd[s])
       THEN /\ link' = Asked(fd[s], Frame("REQUEST", lastId'[s], Problem(s)), link)
            /\ pc' = [pc EXCEPT ![s] = "wait"]
            /\ UNCHANGED <<fd, trying, attempt, outcome, interrupted>>
       ELSE Broken(s)
    /\ UNCHANGED <<backlog, call, serverVars, supervisorVars, reload, events>>

\* A bug: a PROGRESS is taken for an answer that cannot be used.
Receive_ProgressEnds(s) ==
    /\ pc[s] = "wait" /\ HasAnswer(fd[s])
    /\ link' = [link EXCEPT ![fd[s]].down = Tail(@)]
    /\ trying' = [trying EXCEPT ![s] = None]
    /\ LET m == Head(link[fd[s]].down) IN
       Ends(s, IF m.type = "RESULT" THEN Answer(m.of) ELSE Failure)
    /\ UNCHANGED <<backlog, call, fd, lastId, serverVars, supervisorVars, reload, events>>

\* One turn of the loop when the socket is readable.  Nothing compares the
\* identifier of the answer with that of the request.
Receive(s) ==
    /\ pc[s] = "wait"
    /\ LET k == fd[s]
           m == Head(link[k].down)
       IN \/ /\ HasAnswer(k) /\ m.type \in {"PROGRESS", "RESULT", "ERROR"}
             /\ link' = [link EXCEPT ![k].down = Tail(@)]
             /\ trying' = [trying EXCEPT ![s] = IF m.type = "PROGRESS" THEN @ ELSE None]
             /\ IF m.type = "PROGRESS"
                THEN UNCHANGED <<pc, attempt, outcome, interrupted>>
                ELSE Ends(s, IF m.type = "RESULT" THEN Answer(m.of) ELSE Failure)
             /\ UNCHANGED fd
          \/ /\ AnswersEnd(k) \/ (HasAnswer(k) /\ m.type \notin {"PROGRESS", "RESULT", "ERROR"})
             /\ Broken(s)
    /\ UNCHANGED <<backlog, call, lastId, serverVars, supervisorVars, reload, events>>

\* A bug: the error is raised and the connection kept for the next call.
CancelWait_KeepsConnection(s) ==
    /\ pc[s] = "wait" /\ ~HasAnswer(fd[s]) /\ ~AnswersEnd(fd[s])
    /\ interrupted[s]
    /\ trying' = [trying EXCEPT ![s] = None]
    /\ Ends(s, Cancelled)
    /\ UNCHANGED <<link, fd, backlog, call, lastId, serverVars, supervisorVars, reload, events>>

\* wait_readable_or_cancel finds nothing to read and a cancellation pending:
\* the connection is closed first, then the error is raised.
CancelWait(s) ==
    /\ pc[s] = "wait" /\ ~HasAnswer(fd[s]) /\ ~AnswersEnd(fd[s])
    /\ interrupted[s]
    /\ link' = HungUp(fd[s], link)
    /\ fd' = [fd EXCEPT ![s] = None]
    /\ trying' = [trying EXCEPT ![s] = None]
    /\ Ends(s, Cancelled)
    /\ UNCHANGED <<backlog, call, lastId, serverVars, supervisorVars, reload, events>>

\* pg_cancel_backend or statement_timeout.
Interrupt(s) ==
    /\ pc[s] # "idle" /\ ~interrupted[s] /\ Event
    /\ interrupted' = [interrupted EXCEPT ![s] = TRUE]
    /\ UNCHANGED <<link, backlog, clientVars, serverVars, supervisorVars, reload>>

\* kcmcp_atexit: a session that ends says BYE, if it can, and closes.
Exit(s) ==
    /\ pc[s] = "idle" /\ fd[s] # None
    /\ link' = HungUp(fd[s], IF CanAsk(fd[s]) THEN Asked(fd[s], Frame("BYE", 0, None), link)
                             ELSE link)
    /\ fd' = [fd EXCEPT ![s] = None]
    /\ UNCHANGED <<backlog, pc, call, trying, attempt, lastId, outcome, interrupted, serverVars,
                   supervisorVars, reload, events>>

\* Everything a backend does of its own accord once it has been asked.
BackendStep(s) ==
    ensure_connection(s) \/ Handshake(s) \/ SendRequest(s) \/ Receive(s) \/ CancelWait(s)
=============================================================================
