----------------------------- MODULE KCMCPLink -----------------------------
(***************************************************************************)
(* The sockets of KCMCP, the protocol between the backends and a knowledge *)
(* compiler that keeps running (kcmcp_protocol.cpp), and the state its     *)
(* three parties share: the client in a backend (KCMCPClient), the server  *)
(* tdkc and the worker that launches it (KCMCPServer).                     *)
(*                                                                         *)
(* A frame is [type, id, of]: id is the request identifier of the header,  *)
(* of the problem the payload is about, if it is about one.                *)
(* The MORE frames of a message arrive together or, when the writer dies   *)
(* among them, count as the end of the connection.                         *)
(***************************************************************************)
EXTENDS Naturals, Sequences, FiniteSets

CONSTANTS
    Backends,     \* sessions of PostgreSQL, which use the extension's client
    Peers,        \* other programs that speak the protocol to the same server
    Links,        \* bound: the connections open at a time
    MaxCalls,     \* bound: [Backends -> Nat], the compilations a session asks
    MaxEvents,    \* bound: what the environment does, all kinds together
    None

Clients == Backends \cup Peers

ASSUME ClientAssumption ==
    /\ Backends \cap Peers = {} /\ None \notin Clients
    /\ None \notin Links
    /\ MaxCalls \in [Backends -> Nat] /\ MaxEvents \in Nat

VARIABLES
    link,      \* the connections: who opened one, which ends are open, what is in flight
    backlog,   \* the connections the server has not accepted, in order
    \* a backend
    pc, call, fd, trying, attempt, lastId, outcome, interrupted,
    \* the server
    stage, current, job,
    \* the supervisor
    at, child, endpoint, command, reload,
    events     \* what the environment has done: interruptions, crashes, failed
               \* forks, signals to the supervisor, visits of peers

clientVars == <<pc, call, fd, trying, attempt, lastId, outcome>>
serverVars == <<stage, current, job>>
supervisorVars == <<at, child, endpoint, command>>
vars == <<link, backlog, clientVars, interrupted, serverVars, supervisorVars, reload, events>>

Frame(type, id, of) == [type |-> type, id |-> id, of |-> of]

Connection(by, client, server, up, down) ==
    [by |-> by, client |-> client, server |-> server, up |-> up, down |-> down]
Closed == Connection(None, FALSE, FALSE, <<>>, <<>>)
Opened(c, script) == Connection(c, TRUE, TRUE, script, <<>>)

FreeLinks == {k \in Links : link[k] = Closed}
NextLink == CHOOSE k \in FreeLinks : TRUE

\* A connection nobody holds any more is forgotten.
Swept(l) == IF l.client \/ l.server THEN l ELSE Closed
ClientGone(l) == Swept(Connection(l.by, FALSE, l.server, l.up, <<>>))
ServerLeft(l) == Swept(Connection(l.by, l.client, FALSE, <<>>, l.down))
HungUp(k, f) == [f EXCEPT ![k] = ClientGone(@)]
Dropped(k, f) == [f EXCEPT ![k] = ServerLeft(@)]

\* Something happens that no party decides; a visit of a peer counts double.
Spend(n) == events + n <= MaxEvents /\ events' = events + n
Event == Spend(1)

\* Writing on a socket the other end of which is closed fails (EPIPE; SIGPIPE
\* is ignored on both sides).
CanAsk(k) == link[k].server
CanAnswer(k) == link[k].client

Asked(k, m, f) == [f EXCEPT ![k].up = Append(@, m)]
Answered(k, m, f) == IF f[k].client THEN [f EXCEPT ![k].down = Append(@, m)] ELSE f

\* recv on either side: a message, or the end of the connection.
HasAnswer(k) == link[k].down # <<>>
AnswersEnd(k) == link[k].down = <<>> /\ ~link[k].server
HasRequest(k) == link[k].up # <<>>
RequestsEnd(k) == link[k].up = <<>> /\ ~link[k].client

\* The server's process is gone: every connection it had, accepted or waiting.
ServerGone(f) == [k \in Links |-> ServerLeft(f[k])]
=============================================================================
