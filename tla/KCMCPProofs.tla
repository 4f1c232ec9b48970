---------------------------- MODULE KCMCPProofs ----------------------------
(***************************************************************************)
(* For every number of sessions, peers, connections and calls, under every *)
(* interruption and crash the model allows: what is in flight on a         *)
(* connection fits what its two ends are doing (ConnectionInv), therefore  *)
(* a connection kept for the next call is quiet, and the client, server    *)
(* and supervisor together implement the CompileService.                   *)
(***************************************************************************)
EXTENDS KCMCP, SequenceTheorems, TLAPS

-----------------------------------------------------------------------------
(* The sockets *)

\* Closing the client's end (close in kcmcp_client.cpp) changes that connection
\* only; the server's end and what was written to it stay.
LEMMA HungUpFacts ==
    ASSUME NEW f \in [Links -> Connections], NEW k \in Links
    PROVE  /\ HungUp(k, f) \in [Links -> Connections]
           /\ \A j \in Links : j # k => HungUp(k, f)[j] = f[j]
           /\ ~HungUp(k, f)[k].client /\ HungUp(k, f)[k].server = f[k].server
           /\ f[k].server => HungUp(k, f)[k].up = f[k].up
           /\ ~f[k].server => HungUp(k, f)[k].up = <<>>
<1>1. ClientGone(f[k]) \in Connections
  BY DEF ClientGone, Swept, Closed, Connection, Connections
<1> QED
  BY <1>1 DEF HungUp, ClientGone, Swept, Closed, Connection, Connections

\* Closing the server's end loses what was written to it.
LEMMA ServerLeftFacts ==
    ASSUME NEW l \in Connections
    PROVE  /\ ServerLeft(l) \in Connections
           /\ ~ServerLeft(l).server /\ ServerLeft(l).up = <<>>
           /\ l.client => /\ ServerLeft(l).client
                          /\ ServerLeft(l).by = l.by /\ ServerLeft(l).down = l.down
BY DEF ServerLeft, Swept, Closed, Connection, Connections

LEMMA DroppedFacts ==
    ASSUME NEW f \in [Links -> Connections], NEW k \in Links
    PROVE  /\ Dropped(k, f) \in [Links -> Connections]
           /\ \A j \in Links : j # k => Dropped(k, f)[j] = f[j]
           /\ Dropped(k, f)[k] = ServerLeft(f[k])
BY ServerLeftFacts DEF Dropped

\* A connection that is opened is one that nobody holds.
LEMMA NextLinkFacts ==
    ASSUME FreeLinks # {}
    PROVE  NextLink \in Links /\ link[NextLink] = Closed
BY DEF FreeLinks, NextLink

\* A step that leaves the two ends of its connection alone leaves a session where it was.
LEMMA SessionFrame ==
    ASSUME NEW s \in Backends, Owned(s), Talk(s),
           pc'[s] = pc[s], call'[s] = call[s], fd'[s] = fd[s], trying'[s] = trying[s],
           Held(s) # None => link'[Held(s)] = link[Held(s)],
           Held(s) # None /\ Held(s) \in {current, current'} =>
               current' = current /\ stage' = stage /\ job' = job
    PROVE  Owned(s)' /\ Talk(s)'
<1>1. Held(s)' = Held(s)
  BY DEF Held
<1>2. Owned(s)'
  BY <1>1 DEF Owned
<1>3. CASE Held(s) = None
  BY <1>1, <1>2, <1>3 DEF Talk
<1>4. CASE Held(s) # None /\ Held(s) \notin {current, current'}
  <2>1. pc[s] = "hello" => Greeting(Held(s))'
    BY <1>1, <1>4 DEF Talk, Greeting
  <2>2. pc[s] \in {"idle", "ensure", "send"} => Quiet(Held(s))'
    BY <1>1, <1>4 DEF Talk, Quiet
  <2>3. pc[s] = "wait" => Working(Problem(s), Held(s))'
    BY <1>1, <1>4 DEF Talk, Working, Problem
  <2> QED
    BY <1>1, <1>2, <2>1, <2>2, <2>3 DEF Talk
<1>5. CASE Held(s) # None /\ Held(s) \in {current, current'}
  <2>1. pc[s] = "hello" => Greeting(Held(s))'
    BY <1>1, <1>5 DEF Talk, Greeting
  <2>2. pc[s] \in {"idle", "ensure", "send"} => Quiet(Held(s))'
    BY <1>1, <1>5 DEF Talk, Quiet
  <2>3. pc[s] = "wait" => Working(Problem(s), Held(s))'
    BY <1>1, <1>5 DEF Talk, Working, Problem
  <2> QED
    BY <1>1, <1>2, <2>1, <2>2, <2>3 DEF Talk
<1> QED
  BY <1>3, <1>4, <1>5

\* A sequence of one frame has nothing behind it.
LEMMA TailOfOne ==
    ASSUME NEW S, NEW q \in Seq(S), Len(q) = 1
    PROVE  Tail(q) = <<>>
<1>1. q # <<>>
  BY EmptySeq
<1>2. Tail(q) \in Seq(S) /\ Len(Tail(q)) = 0
  BY <1>1, HeadTailProperties
<1> QED
  BY <1>2, EmptySeq

\* Writing on a connection appends to it, and reading takes the first frame off.
LEMMA AskedFacts ==
    ASSUME NEW f \in [Links -> Connections], NEW k \in Links, NEW m \in Frames
    PROVE  /\ Asked(k, m, f) \in [Links -> Connections]
           /\ \A j \in Links : j # k => Asked(k, m, f)[j] = f[j]
           /\ Asked(k, m, f)[k].by = f[k].by
           /\ Asked(k, m, f)[k].client = f[k].client
           /\ Asked(k, m, f)[k].server = f[k].server
           /\ Asked(k, m, f)[k].up = Append(f[k].up, m)
           /\ Asked(k, m, f)[k].down = f[k].down
<1>1. f[k] \in Connections /\ f[k].up \in Seq(Frames)
  BY DEF Connections
<1>2. Append(f[k].up, m) \in Seq(Frames)
  BY <1>1
<1>3. LET l == [f[k] EXCEPT !.up = Append(f[k].up, m)]
      IN  /\ l \in Connections
          /\ l.by = f[k].by /\ l.client = f[k].client /\ l.server = f[k].server
          /\ l.up = Append(f[k].up, m) /\ l.down = f[k].down
  BY <1>1, <1>2 DEF Connections
<1> QED
  BY <1>3 DEF Asked

LEMMA AnsweredFacts ==
    ASSUME NEW f \in [Links -> Connections], NEW k \in Links, NEW m \in Frames
    PROVE  /\ Answered(k, m, f) \in [Links -> Connections]
           /\ \A j \in Links : j # k => Answered(k, m, f)[j] = f[j]
           /\ Answered(k, m, f)[k].by = f[k].by
           /\ Answered(k, m, f)[k].client = f[k].client
           /\ Answered(k, m, f)[k].server = f[k].server
           /\ Answered(k, m, f)[k].up = f[k].up
           /\ f[k].client => Answered(k, m, f)[k].down = Append(f[k].down, m)
           /\ ~f[k].client => Answered(k, m, f)[k].down = f[k].down
<1>1. f[k] \in Connections /\ f[k].down \in Seq(Frames)
  BY DEF Connections
<1>2. Append(f[k].down, m) \in Seq(Frames)
  BY <1>1
<1>3. LET l == [f[k] EXCEPT !.down = Append(f[k].down, m)]
      IN  /\ l \in Connections
          /\ l.by = f[k].by /\ l.client = f[k].client /\ l.server = f[k].server
          /\ l.down = Append(f[k].down, m) /\ l.up = f[k].up
  BY <1>1, <1>2 DEF Connections
<1> QED
  BY <1>3 DEF Answered

LEMMA ReadUpFacts ==
    ASSUME NEW f \in [Links -> Connections], NEW k \in Links, f[k].up # <<>>
    PROVE  LET g == [f EXCEPT ![k].up = Tail(@)] IN
           /\ g \in [Links -> Connections] /\ Head(f[k].up) \in Frames
           /\ \A j \in Links : j # k => g[j] = f[j]
           /\ g[k].by = f[k].by /\ g[k].client = f[k].client /\ g[k].server = f[k].server
           /\ g[k].up = Tail(f[k].up) /\ g[k].down = f[k].down
<1>1. f[k] \in Connections /\ f[k].up \in Seq(Frames)
  BY DEF Connections
<1>2. Tail(f[k].up) \in Seq(Frames) /\ Head(f[k].up) \in Frames
  BY <1>1
<1>3. LET l == [f[k] EXCEPT !.up = Tail(f[k].up)]
      IN  /\ l \in Connections
          /\ l.by = f[k].by /\ l.client = f[k].client /\ l.server = f[k].server
          /\ l.up = Tail(f[k].up) /\ l.down = f[k].down
  BY <1>1, <1>2 DEF Connections
<1> QED
  BY <1>2, <1>3

LEMMA ReadDownFacts ==
    ASSUME NEW f \in [Links -> Connections], NEW k \in Links, f[k].down # <<>>
    PROVE  LET g == [f EXCEPT ![k].down = Tail(@)] IN
           /\ g \in [Links -> Connections] /\ Head(f[k].down) \in Frames
           /\ \A j \in Links : j # k => g[j] = f[j]
           /\ g[k].by = f[k].by /\ g[k].client = f[k].client /\ g[k].server = f[k].server
           /\ g[k].down = Tail(f[k].down) /\ g[k].up = f[k].up
<1>1. f[k] \in Connections /\ f[k].down \in Seq(Frames)
  BY DEF Connections
<1>2. Tail(f[k].down) \in Seq(Frames) /\ Head(f[k].down) \in Frames
  BY <1>1
<1>3. LET l == [f[k] EXCEPT !.down = Tail(f[k].down)]
      IN  /\ l \in Connections
          /\ l.by = f[k].by /\ l.client = f[k].client /\ l.server = f[k].server
          /\ l.down = Tail(f[k].down) /\ l.up = f[k].up
  BY <1>1, <1>2 DEF Connections
<1> QED
  BY <1>2, <1>3

\* What TypeOK says of the sockets.
LEMMA SocketTypes ==
    ASSUME TypeOK
    PROVE  /\ link \in [Links -> Connections] /\ backlog \in Seq(Links)
           /\ current \in Links \cup {None}
BY DEF TypeOK

\* The connections a session and a peer have are connections.
LEMMA HeldIsLink ==
    ASSUME TypeOK
    PROVE  /\ \A s \in Backends : Held(s) \in Links \cup {None} /\ s \in Clients
           /\ \A p \in Peers : fd[p] \in Links \cup {None} /\ p \in Clients
           /\ None \notin Links
<1>1. /\ fd \in [Clients -> Links \cup {None}]
      /\ trying \in [Backends -> Links \cup {None}]
  BY DEF TypeOK
<1> QED
  BY <1>1, ClientAssumption DEF Held, Clients

\* What a client does to its own connection, or to one nobody holds, does not
\* reach the others.
LEMMA ClientFrame ==
    ASSUME ConnectionInv, NEW c \in Clients, NEW k \in Links,
           link[k].by = c \/ ~link[k].client,
           \A j \in Links : j # k => link'[j] = link[j],
           \A u \in Backends : u # c => pc'[u] = pc[u] /\ call'[u] = call[u] /\ trying'[u] = trying[u],
           \A u \in Clients : u # c => fd'[u] = fd[u],
           current' = current, stage' = stage, job' = job
    PROVE  /\ \A u \in Backends : u # c => Owned(u)' /\ Talk(u)'
           /\ \A p \in Peers : p # c /\ fd'[p] # None => link'[fd'[p]].by = p /\ link'[fd'[p]].client
<1>1. ASSUME NEW u \in Backends, u # c
      PROVE  Owned(u)' /\ Talk(u)'
  <2>1. Owned(u) /\ Talk(u) /\ u \in Clients
    BY <1>1 DEF ConnectionInv, Clients
  <2>2. Held(u) # None => Held(u) \in Links
    BY HeldIsLink DEF ConnectionInv
  <2>3. Held(u) # None => link'[Held(u)] = link[Held(u)]
    BY <1>1, <2>1, <2>2 DEF Owned
  <2> QED
    BY <1>1, <2>1, <2>3, SessionFrame
<1>2. ASSUME NEW p \in Peers, p # c, fd'[p] # None
      PROVE  link'[fd'[p]].by = p /\ link'[fd'[p]].client
  <2>1. /\ fd'[p] = fd[p] /\ fd[p] \in Links
        /\ link[fd[p]].by = p /\ link[fd[p]].client
    BY <1>2, HeldIsLink DEF ConnectionInv, PeersInv
  <2> QED
    BY <1>2, <2>1
<1> QED
  BY <1>1, <1>2

\* What the server does to the connection it serves does not reach the others.
LEMMA ServerFrame ==
    ASSUME ConnectionInv, current \in Links,
           \A j \in Links : j # current => link'[j] = link[j],
           current' \in {current, None},
           link[current].client => link'[current].client /\ link'[current].by = link[current].by,
           UNCHANGED clientVars
    PROVE  /\ \A u \in Backends : Held(u) # current => Owned(u)' /\ Talk(u)'
           /\ PeersInv'
<1>1. ASSUME NEW u \in Backends, Held(u) # current
      PROVE  Owned(u)' /\ Talk(u)'
  <2>1. Owned(u) /\ Talk(u)
    BY <1>1 DEF ConnectionInv
  <2>2. Held(u) # None => Held(u) \in Links
    BY HeldIsLink DEF ConnectionInv
  <2>3. Held(u) # None => link'[Held(u)] = link[Held(u)] /\ Held(u) \notin {current, current'}
    BY <1>1, <2>2
  <2> QED
    BY <1>1, <2>1, <2>3, SessionFrame DEF clientVars
<1>2. ASSUME NEW p \in Peers, fd'[p] # None
      PROVE  link'[fd'[p]].by = p /\ link'[fd'[p]].client
  <2>1. /\ fd'[p] = fd[p] /\ fd[p] \in Links
        /\ link[fd[p]].by = p /\ link[fd[p]].client
    BY <1>2, HeldIsLink DEF ConnectionInv, PeersInv, clientVars
  <2> QED
    BY <2>1
<1> QED
  BY <1>1, <1>2 DEF PeersInv

\* A session whose connection the server closes is where it was, with nobody at
\* the other end.
LEMMA SessionLosesServer ==
    ASSUME ConnectionInv, NEW s \in Backends,
           UNCHANGED clientVars,
           Held(s) # None => link'[Held(s)] = ServerLeft(link[Held(s)])
    PROVE  Owned(s)' /\ Talk(s)'
<1>1. Owned(s) /\ Talk(s) /\ Held(s)' = Held(s)
  BY DEF ConnectionInv, Held, clientVars
<1>2. CASE Held(s) = None
  BY <1>1, <1>2 DEF Owned, Talk, clientVars
<1>3. CASE Held(s) # None
  <2>1. link[Held(s)] \in Connections
    BY <1>3, HeldIsLink DEF ConnectionInv, TypeOK
  <2>2. link[Held(s)].client /\ link[Held(s)].by = s
    BY <1>1, <1>3 DEF Owned
  <2>3. /\ link'[Held(s)].client /\ link'[Held(s)].by = s
        /\ ~link'[Held(s)].server /\ link'[Held(s)].up = <<>>
        /\ link'[Held(s)].down = link[Held(s)].down
    BY <1>3, <2>1, <2>2, ServerLeftFacts
  <2>4. Owned(s)'
    BY <1>1, <1>3, <2>3 DEF Owned, clientVars
  <2>5. pc[s] = "hello" => Greeting(Held(s))'
    BY <1>1, <1>3, <2>3 DEF Talk, Greeting
  <2>6. pc[s] \in {"idle", "ensure", "send"} => Quiet(Held(s))'
    BY <1>1, <1>3, <2>3 DEF Talk, Quiet
  <2>7. pc[s] = "wait" => Working(Problem(s), Held(s))'
    BY <1>1, <1>3, <2>3 DEF Talk, Working, Problem, clientVars
  <2> QED
    BY <1>1, <2>4, <2>5, <2>6, <2>7 DEF Talk, clientVars
<1> QED
  BY <1>2, <1>3

\* A step that leaves the ends and the backlog alone leaves the server where it was.
LEMMA BooksFrame ==
    ASSUME backlog \in Seq(Links), current \in Links \cup {None}, ServerInv,
           backlog' = backlog, current' = current, child' = child,
           stage' = stage \/ (stage \in {"hello", "ready", "job"} /\ stage' \in {"hello", "ready", "job"}),
           stage' = "job" => job' \in Jobs,
           \A k \in Links : /\ link'[k].server = link[k].server
                            /\ ~link[k].server => link'[k].up = <<>>
    PROVE  ServerInv'
<1>1. \A i \in DOMAIN backlog : backlog[i] \in Links
  OBVIOUS
<1>2. current # None => link'[current].server
  BY DEF ServerInv
<1>3. \A i \in DOMAIN backlog' :
          /\ link'[backlog'[i]].server /\ backlog'[i] # current'
          /\ \A j \in DOMAIN backlog' : backlog'[i] = backlog'[j] => i = j
  BY <1>1 DEF ServerInv
<1>4. stage' \in {"down", "dead", "starting"} =>
          backlog' = <<>> /\ \A k \in Links : ~link'[k].server
  BY DEF ServerInv
<1> QED
  BY <1>2, <1>3, <1>4 DEF ServerInv

-----------------------------------------------------------------------------
(* The steps of a backend *)

\* Between two messages of its own, a session that changes its mind about what
\* it waits for has nothing in flight.
LEMMA QuietStep ==
    ASSUME NEW s \in Backends, Owned(s), Talk(s),
           pc[s] \in {"idle", "ensure", "send"}, pc'[s] \in {"idle", "ensure", "send"},
           fd'[s] = fd[s], fd[s] # None \/ pc'[s] # "send",
           fd[s] # None => link'[fd[s]] = link[fd[s]],
           current' = current, stage' = stage
    PROVE  Owned(s)' /\ Talk(s)'
<1>1. Held(s) = fd[s] /\ Held(s)' = fd[s]
  BY DEF Held
<1>2. Owned(s)'
  BY <1>1 DEF Owned
<1>3. Held(s) # None => Quiet(Held(s))'
  BY <1>1 DEF Talk, Quiet
<1> QED
  BY <1>1, <1>2, <1>3 DEF Talk

\* The variables of a session that a call ends.
LEMMA EndsType ==
    ASSUME TypeOK, NEW s \in Backends, NEW o \in Outcomes, Ends(s, o)
    PROVE  /\ pc' \in [Backends -> {"idle", "ensure", "hello", "send", "wait"}]
           /\ attempt' \in [Backends -> {0, 1}] /\ interrupted' \in [Backends -> BOOLEAN]
           /\ outcome' \in [Backends -> Outcomes \cup {None}]
BY DEF TypeOK, Ends

LEMMA FailureType == Failure \in Outcomes /\ Cancelled \in Outcomes
BY DEF Failure, Cancelled, Outcomes, Problems

LEMMA CallKeeps ==
    ASSUME ConnectionInv, NEW s \in Backends, Call(s)
    PROVE  ConnectionInv'
<1>1. TypeOK /\ ServerInv /\ PeersInv /\ s \in Clients
  BY DEF ConnectionInv, Clients
<1>2. TypeOK'
  <2>1. call' \in [Backends -> Nat]
    BY <1>1 DEF TypeOK, Call
  <2>2. /\ pc' \in [Backends -> {"idle", "ensure", "hello", "send", "wait"}]
        /\ attempt' \in [Backends -> {0, 1}] /\ interrupted' \in [Backends -> BOOLEAN]
        /\ outcome' \in [Backends -> Outcomes \cup {None}]
    <3>1. CASE Ends(s, Failure)
      BY <1>1, <3>1, EndsType, FailureType
    <3>2. CASE ~Ends(s, Failure)
      BY <1>1, <3>2 DEF TypeOK, Call
    <3> QED
      BY <3>1, <3>2
  <2> QED
    BY <1>1, <2>1, <2>2 DEF TypeOK, Call, serverVars, supervisorVars
<1>3. ServerInv' /\ PeersInv'
  BY <1>1 DEF ServerInv, PeersInv, Call, serverVars, supervisorVars
<1>4. ASSUME NEW u \in Backends, u # s
      PROVE  Owned(u)' /\ Talk(u)'
  <2>1. pc'[u] = pc[u] /\ call'[u] = call[u]
    BY <1>1, <1>4 DEF TypeOK, Call, Ends
  <2> QED
    BY <2>1, SessionFrame DEF ConnectionInv, Call, serverVars
<1>5. Owned(s)' /\ Talk(s)'
  <2>1. pc[s] = "idle" /\ pc'[s] \in {"idle", "ensure"}
    BY <1>1 DEF TypeOK, Call, Ends
  <2> QED
    BY <2>1, QuietStep DEF ConnectionInv, Call, serverVars
<1> QED
  BY <1>2, <1>3, <1>4, <1>5 DEF ConnectionInv

\* A client gives its connection up: close_cached, or the close that follows a
\* failed handshake, with what it wrote last in f.
LEMMA HangUpKeeps ==
    ASSUME ConnectionInv, NEW c \in Clients, NEW k \in Links, link[k].by = c, link[k].client,
           NEW f \in [Links -> Connections], \A j \in Links : j # k => f[j] = link[j],
           f[k].server = link[k].server, link' = HungUp(k, f),
           \A u \in Backends : u # c => pc'[u] = pc[u] /\ call'[u] = call[u] /\ trying'[u] = trying[u],
           \A u \in Clients : u # c => fd'[u] = fd[u],
           fd'[c] = None, c \in Backends => pc'[c] \in {"idle", "ensure"},
           UNCHANGED <<backlog, serverVars, child>>
    PROVE  /\ link' \in [Links -> Connections]
           /\ ServerInv' /\ PeersInv' /\ \A s \in Backends : Owned(s)' /\ Talk(s)'
<1>1. TypeOK /\ ServerInv /\ backlog \in Seq(Links) /\ current \in Links \cup {None}
  BY DEF ConnectionInv, TypeOK
<1>2. /\ link' \in [Links -> Connections]
      /\ \A j \in Links : j # k => link'[j] = link[j]
      /\ link'[k].server = link[k].server
      /\ ~link[k].server => link'[k].up = <<>>
  BY HungUpFacts
<1>3. \A j \in Links : /\ link'[j].server = link[j].server
                       /\ ~link[j].server => link'[j].up = <<>>
  BY <1>1, <1>2 DEF ServerInv
<1>4. ServerInv'
  BY <1>1, <1>3, BooksFrame DEF ServerInv, serverVars
<1>5. /\ \A u \in Backends : u # c => Owned(u)' /\ Talk(u)'
      /\ \A p \in Peers : p # c /\ fd'[p] # None => link'[fd'[p]].by = p /\ link'[fd'[p]].client
  BY <1>2, ClientFrame DEF serverVars
<1>6. PeersInv'
  BY <1>5 DEF PeersInv
<1>7. ASSUME c \in Backends
      PROVE  Owned(c)' /\ Talk(c)'
  BY <1>7 DEF Owned, Talk, Held
<1> QED
  BY <1>2, <1>4, <1>5, <1>6, <1>7

LEMMA GiveUpType ==
    ASSUME TypeOK, NEW s \in Backends, NEW reused, GiveUpOrRetry(s, reused)
    PROVE  /\ pc' \in [Backends -> {"idle", "ensure", "hello", "send", "wait"}]
           /\ attempt' \in [Backends -> {0, 1}] /\ interrupted' \in [Backends -> BOOLEAN]
           /\ outcome' \in [Backends -> Outcomes \cup {None}]
           /\ pc'[s] \in {"idle", "ensure"} /\ \A u \in Backends : u # s => pc'[u] = pc[u]
<1>1. CASE Ends(s, Failure)
  <2>1. pc'[s] = "idle" /\ \A u \in Backends : u # s => pc'[u] = pc[u]
    BY <1>1 DEF TypeOK, Ends
  <2> QED
    BY <1>1, <2>1, EndsType, FailureType
<1>2. CASE ~Ends(s, Failure)
  BY <1>2 DEF TypeOK, GiveUpOrRetry
<1> QED
  BY <1>1, <1>2

LEMMA BrokenKeeps ==
    ASSUME ConnectionInv, NEW s \in Backends, pc[s] \in {"send", "wait"}, Broken(s),
           lastId' \in [Backends -> Nat],
           UNCHANGED <<backlog, call, serverVars, supervisorVars, reload, events>>
    PROVE  ConnectionInv'
<1>1. TypeOK /\ s \in Clients /\ fd[s] \in Links /\ link[fd[s]].by = s /\ link[fd[s]].client
  BY HeldIsLink DEF ConnectionInv, Owned, Held
<1>2. /\ pc' \in [Backends -> {"idle", "ensure", "hello", "send", "wait"}]
      /\ attempt' \in [Backends -> {0, 1}] /\ interrupted' \in [Backends -> BOOLEAN]
      /\ outcome' \in [Backends -> Outcomes \cup {None}]
      /\ pc'[s] \in {"idle", "ensure"} /\ \A u \in Backends : u # s => pc'[u] = pc[u]
  BY <1>1, GiveUpType DEF Broken
<1>3. /\ fd' \in [Clients -> Links \cup {None}] /\ trying' \in [Backends -> Links \cup {None}]
      /\ fd'[s] = None
      /\ \A u \in Clients : u # s => fd'[u] = fd[u]
      /\ \A u \in Backends : u # s => trying'[u] = trying[u]
  BY <1>1 DEF TypeOK, Broken
<1>4. /\ link \in [Links -> Connections] /\ link' = HungUp(fd[s], link)
  BY <1>1 DEF TypeOK, Broken
<1>5. /\ link' \in [Links -> Connections]
      /\ ServerInv' /\ PeersInv' /\ \A u \in Backends : Owned(u)' /\ Talk(u)'
  BY <1>1, <1>2, <1>3, <1>4, HangUpKeeps DEF supervisorVars
<1>6. TypeOK'
  BY <1>1, <1>2, <1>3, <1>5 DEF TypeOK, serverVars, supervisorVars
<1> QED
  BY <1>5, <1>6 DEF ConnectionInv

\* A connection is opened by a client that has none, and queued behind the others.
LEMMA OpenKeeps ==
    ASSUME ConnectionInv, NEW c \in Clients, FreeLinks # {}, NEW script \in Seq(Frames),
           stage \notin {"down", "dead", "starting"},
           link' = [link EXCEPT ![NextLink] = Opened(c, script)],
           backlog' = Append(backlog, NextLink),
           UNCHANGED <<serverVars, child>>
    PROVE  /\ link' \in [Links -> Connections] /\ backlog' \in Seq(Links)
           /\ NextLink \in Links /\ NextLink # current /\ ~link[NextLink].client
           /\ \A j \in Links : j # NextLink => link'[j] = link[j]
           /\ link'[NextLink] = Opened(c, script)
           /\ ServerInv'
<1> DEFINE k == NextLink
<1>1. /\ k \in Links /\ link[k] = Closed /\ ~link[k].server /\ ~link[k].client
  BY NextLinkFacts DEF Closed, Connection
<1>2. Opened(c, script) \in Connections /\ Opened(c, script).server
  BY DEF Opened, Connection, Connections, Frames
<1>3. /\ link \in [Links -> Connections] /\ backlog \in Seq(Links) /\ ServerInv
      /\ current \in Links \cup {None}
  BY DEF ConnectionInv, TypeOK
<1> HIDE DEF k
<1>4. k # current /\ \A i \in DOMAIN backlog : backlog[i] # k
  BY <1>1, <1>3, ClientAssumption DEF ServerInv
<1>5. /\ link' \in [Links -> Connections]
      /\ \A j \in Links : j # k => link'[j] = link[j]
      /\ link'[k] = Opened(c, script)
  BY <1>1, <1>2, <1>3 DEF k
<1>6. /\ backlog' \in Seq(Links) /\ Len(backlog') = Len(backlog) + 1
      /\ backlog'[Len(backlog) + 1] = k
      /\ \A i \in 1..Len(backlog) : backlog'[i] = backlog[i]
  BY <1>1, <1>3 DEF k
<1>7. ServerInv'
  <2>1. \A i \in DOMAIN backlog' :
            /\ link'[backlog'[i]].server /\ backlog'[i] # current'
            /\ \A j \in DOMAIN backlog' : backlog'[i] = backlog'[j] => i = j
    <3>1. DOMAIN backlog = 1..Len(backlog) /\ Len(backlog) \in Nat
      BY <1>3
    <3>2. DOMAIN backlog' = 1..(Len(backlog) + 1)
      BY <1>6
    <3>3. \A i \in 1..Len(backlog) : link'[backlog'[i]].server /\ backlog'[i] # current /\ backlog'[i] # k
      BY <1>3, <1>4, <1>5, <1>6, <3>1 DEF ServerInv
    <3>4. \A i \in 1..Len(backlog) : \A j \in 1..Len(backlog) : backlog'[i] = backlog'[j] => i = j
      BY <1>3, <1>6, <3>1 DEF ServerInv
    <3> QED
      BY <1>2, <1>4, <1>5, <1>6, <3>1, <3>2, <3>3, <3>4 DEF serverVars
  <2>2. current' # None => link'[current'].server
    BY <1>3, <1>4, <1>5 DEF ServerInv, serverVars
  <2>3. \A j \in Links : ~link'[j].server => link'[j].up = <<>>
    BY <1>2, <1>3, <1>5 DEF ServerInv
  <2> QED
    BY <1>3, <2>1, <2>2, <2>3 DEF ServerInv, serverVars
<1> QED
  BY <1>1, <1>4, <1>5, <1>6, <1>7 DEF k

LEMMA ensure_connectionKeeps ==
    ASSUME ConnectionInv, NEW s \in Backends, ensure_connection(s)
    PROVE  ConnectionInv'
<1>1. /\ TypeOK /\ ServerInv /\ PeersInv /\ Owned(s) /\ Talk(s) /\ s \in Clients
      /\ pc[s] = "ensure" /\ UNCHANGED <<call, fd, lastId, serverVars, supervisorVars, reload, events>>
  BY HeldIsLink DEF ConnectionInv, ensure_connection
<1>2. ASSUME UNCHANGED <<link, backlog, trying>>, pc'[s] \in {"idle", "send"},
             fd[s] # None \/ pc'[s] # "send",
             \A u \in Backends : u # s => pc'[u] = pc[u]
      PROVE  ServerInv' /\ PeersInv' /\ \A u \in Backends : Owned(u)' /\ Talk(u)'
  <2>1. Owned(s)' /\ Talk(s)'
    BY <1>1, <1>2, QuietStep DEF serverVars
  <2>2. \A u \in Backends : u # s => Owned(u)' /\ Talk(u)'
    BY <1>1, <1>2, SessionFrame DEF ConnectionInv, serverVars
  <2>3. ServerInv' /\ PeersInv'
    BY <1>1, <1>2 DEF ServerInv, PeersInv, serverVars, supervisorVars
  <2> QED
    BY <2>1, <2>2, <2>3
<1>3. CASE fd[s] # None
  <2>1. /\ UNCHANGED <<link, backlog, trying, attempt, outcome, interrupted>>
        /\ pc' = [pc EXCEPT ![s] = "send"]
    BY <1>3 DEF ensure_connection
  <2>2. /\ pc' \in [Backends -> {"idle", "ensure", "hello", "send", "wait"}]
        /\ pc'[s] = "send" /\ \A u \in Backends : u # s => pc'[u] = pc[u]
    BY <1>1, <2>1 DEF TypeOK
  <2>3. TypeOK'
    BY <1>1, <2>1, <2>2 DEF TypeOK, serverVars, supervisorVars
  <2> QED
    BY <1>2, <1>3, <2>1, <2>2, <2>3 DEF ConnectionInv
<1>4. CASE fd[s] = None /\ stage \in {"down", "dead", "starting"}
  <2>1. UNCHANGED <<link, backlog, trying>> /\ Ends(s, Failure)
    BY <1>4 DEF ensure_connection
  <2>2. pc'[s] = "idle" /\ \A u \in Backends : u # s => pc'[u] = pc[u]
    BY <1>1, <2>1 DEF TypeOK, Ends
  <2>3. TypeOK'
    BY <1>1, <2>1, EndsType, FailureType DEF TypeOK, serverVars, supervisorVars
  <2> QED
    BY <1>2, <2>1, <2>2, <2>3 DEF ConnectionInv
<1>5. CASE fd[s] = None /\ stage \notin {"down", "dead", "starting"}
  <2> DEFINE script == <<Frame("HELLO", 0, None)>>
  <2>1. /\ FreeLinks # {} /\ link' = [link EXCEPT ![NextLink] = Opened(s, script)]
        /\ backlog' = Append(backlog, NextLink)
        /\ trying' = [trying EXCEPT ![s] = NextLink] /\ pc' = [pc EXCEPT ![s] = "hello"]
        /\ UNCHANGED <<attempt, outcome, interrupted>>
    BY <1>5 DEF ensure_connection
  <2>2. /\ script \in Seq(Frames) /\ OneFrame(script, "HELLO") /\ script # <<>>
    BY DEF Frame, Frames, Kinds, Problems, OneFrame
  <2> HIDE DEF script
  <2> PICK k \in Links : k = NextLink
    BY <2>1, NextLinkFacts
  <2>3. /\ link' \in [Links -> Connections] /\ backlog' \in Seq(Links)
        /\ k # current /\ ~link[k].client
        /\ \A j \in Links : j # k => link'[j] = link[j]
        /\ link'[k] = Opened(s, script)
        /\ ServerInv'
    BY <1>1, <1>5, <2>1, <2>2, OpenKeeps DEF supervisorVars
  <2>4. /\ pc' \in [Backends -> {"idle", "ensure", "hello", "send", "wait"}]
        /\ trying' \in [Backends -> Links \cup {None}]
        /\ pc'[s] = "hello" /\ trying'[s] = k
        /\ \A u \in Backends : u # s => pc'[u] = pc[u] /\ trying'[u] = trying[u]
    BY <1>1, <2>1, <2>3 DEF TypeOK
  <2>5. TypeOK'
    BY <1>1, <2>1, <2>3, <2>4 DEF TypeOK, serverVars, supervisorVars
  <2>6. /\ \A u \in Backends : u # s => Owned(u)' /\ Talk(u)'
        /\ \A p \in Peers : p # s /\ fd'[p] # None => link'[fd'[p]].by = p /\ link'[fd'[p]].client
    BY <1>1, <2>3, <2>4, ClientFrame DEF serverVars
  <2>7. PeersInv'
    BY <2>6, ClientAssumption DEF PeersInv
  <2>8. Held(s)' = k
    BY <2>4 DEF Held
  <2>9. Owned(s)'
    BY <1>1, <1>5, <2>3, <2>4, <2>8, ClientAssumption DEF Owned, Opened, Connection
  <2>10. Greeting(k)'
    BY <1>1, <2>2, <2>3, HeldIsLink DEF Greeting, Opened, Connection, serverVars
  <2>11. Talk(s)'
    BY <2>4, <2>8, <2>10 DEF Talk
  <2> QED
    BY <2>3, <2>5, <2>6, <2>7, <2>9, <2>11 DEF ConnectionInv
<1> QED
  BY <1>3, <1>4, <1>5

LEMMA HandshakeKeeps ==
    ASSUME ConnectionInv, NEW s \in Backends, Handshake(s)
    PROVE  ConnectionInv'
<1>1. /\ TypeOK /\ ServerInv /\ PeersInv /\ Owned(s) /\ Talk(s) /\ s \in Clients
      /\ pc[s] = "hello" /\ UNCHANGED <<backlog, call, lastId, serverVars, supervisorVars, reload, events>>
  BY HeldIsLink DEF ConnectionInv, Handshake
<1> PICK k \in Links : k = trying[s]
  BY <1>1, HeldIsLink DEF Owned, Held
<1>2. /\ Held(s) = k /\ link[k].by = s /\ link[k].client /\ Greeting(k)
      /\ fd[s] = None
  BY <1>1, HeldIsLink DEF Owned, Talk, Held
<1>3. CASE /\ HasAnswer(k) /\ Head(link[k].down).type = "HELLO"
           /\ fd' = [fd EXCEPT ![s] = k]
           /\ link' = [link EXCEPT ![k].down = Tail(@)]
           /\ pc' = [pc EXCEPT ![s] = "send"]
           /\ UNCHANGED <<trying, attempt, outcome, interrupted>>
  <2>1. /\ link' \in [Links -> Connections]
        /\ \A j \in Links : j # k => link'[j] = link[j]
        /\ link'[k].server = link[k].server /\ link'[k].client = link[k].client
        /\ link'[k].by = link[k].by /\ link'[k].up = link[k].up
        /\ link'[k].down = Tail(link[k].down)
    <3>1. link \in [Links -> Connections] /\ link[k].down # <<>>
      BY <1>1, <1>3 DEF TypeOK, HasAnswer
    <3> QED
      BY <1>3, <3>1, ReadDownFacts
  <2>2. /\ pc' \in [Backends -> {"idle", "ensure", "hello", "send", "wait"}]
        /\ fd' \in [Clients -> Links \cup {None}]
        /\ pc'[s] = "send" /\ fd'[s] = k
        /\ \A u \in Backends : u # s => pc'[u] = pc[u]
        /\ \A u \in Clients : u # s => fd'[u] = fd[u]
    BY <1>1, <1>2, <1>3 DEF TypeOK
  <2>3. TypeOK'
    BY <1>1, <1>3, <2>1, <2>2 DEF TypeOK, serverVars, supervisorVars
  <2>4. /\ backlog \in Seq(Links) /\ current \in Links \cup {None}
        /\ \A j \in Links : /\ link'[j].server = link[j].server
                            /\ ~link[j].server => link'[j].up = <<>>
    BY <1>1, <2>1 DEF TypeOK, ServerInv
  <2>5. ServerInv'
    BY <1>1, <2>4, BooksFrame DEF ServerInv, serverVars, supervisorVars
  <2>6. /\ \A u \in Backends : u # s => Owned(u)' /\ Talk(u)'
        /\ \A p \in Peers : p # s /\ fd'[p] # None => link'[fd'[p]].by = p /\ link'[fd'[p]].client
    BY <1>1, <1>2, <1>3, <2>1, <2>2, ClientFrame DEF serverVars
  <2>7. PeersInv'
    BY <2>6, ClientAssumption DEF PeersInv
  <2>8. /\ link[k].up = <<>> /\ Tail(link[k].down) = <<>>
        /\ link[k].server => current = k /\ stage = "ready"
    <3>1. link[k].down \in Seq(Frames)
      BY <1>1, <1>2 DEF TypeOK, Connections
    <3>2. OneFrame(link[k].down, "HELLO") /\ link[k].up = <<>>
      BY <1>2, <1>3 DEF Greeting, HasAnswer
    <3>3. Tail(link[k].down) = <<>>
      BY <3>1, <3>2, TailOfOne DEF OneFrame
    <3> QED
      BY <1>2, <1>3, <3>2, <3>3 DEF Greeting, HasAnswer, OneFrame
  <2>9. Quiet(k)'
    BY <1>1, <2>1, <2>8 DEF Quiet, serverVars
  <2>10. Held(s)' = k
    BY <2>2 DEF Held
  <2>11. Owned(s)'
    <3>1. link'[k].by = s /\ link'[k].client /\ k # None
      BY <1>2, <2>1, ClientAssumption
    <3> QED
      BY <2>2, <2>10, <3>1 DEF Owned
  <2>12. Talk(s)'
    BY <2>2, <2>9, <2>10 DEF Talk
  <2> QED
    BY <2>3, <2>5, <2>6, <2>7, <2>11, <2>12 DEF ConnectionInv
<1>4. CASE /\ link' = HungUp(k, link)
           /\ trying' = [trying EXCEPT ![s] = None]
           /\ Ends(s, Failure)
           /\ UNCHANGED fd
  <2>1. /\ trying' \in [Backends -> Links \cup {None}] /\ link \in [Links -> Connections]
        /\ \A u \in Backends : u # s => trying'[u] = trying[u]
        /\ pc'[s] = "idle" /\ \A u \in Backends : u # s => pc'[u] = pc[u]
    BY <1>1, <1>4 DEF TypeOK, Ends
  <2>2. /\ link' \in [Links -> Connections]
        /\ ServerInv' /\ PeersInv' /\ \A u \in Backends : Owned(u)' /\ Talk(u)'
    BY <1>1, <1>2, <1>4, <2>1, HangUpKeeps DEF supervisorVars
  <2>3. TypeOK'
    BY <1>1, <1>4, <2>1, <2>2, EndsType, FailureType DEF TypeOK, serverVars, supervisorVars
  <2> QED
    BY <2>2, <2>3 DEF ConnectionInv
<1> QED
  BY <1>3, <1>4 DEF Handshake

\* A session that has a connection of its own at hand.
LEMMA Holding ==
    ASSUME ConnectionInv, NEW s \in Backends, pc[s] # "hello", fd[s] # None
    PROVE  \E k \in Links :
               /\ k = fd[s] /\ Held(s) = k /\ k # None
               /\ link[k] \in Connections /\ link[k].by = s /\ link[k].client
               /\ pc[s] = "wait" => Working(Problem(s), k)
               /\ pc[s] # "wait" => Quiet(k)
<1>1. TypeOK /\ Owned(s) /\ Talk(s) /\ Held(s) = fd[s] /\ fd[s] \in Links
  BY HeldIsLink DEF ConnectionInv, Held
<1>2. link[fd[s]] \in Connections /\ pc[s] \in {"idle", "ensure", "hello", "send", "wait"}
  BY <1>1 DEF TypeOK
<1>3. link[fd[s]].by = s /\ link[fd[s]].client
  BY <1>1 DEF Owned
<1>4. /\ pc[s] = "wait" => Working(Problem(s), fd[s])
      /\ pc[s] # "wait" => Quiet(fd[s])
  BY <1>1, <1>2 DEF Talk
<1> QED
  BY <1>1, <1>2, <1>3, <1>4

\* What a session does on its own connection that ends with the connection kept.
LEMMA KeepingStep ==
    ASSUME ConnectionInv, NEW s \in Backends, NEW k \in Links, fd[s] = k, pc[s] # "hello",
           link' \in [Links -> Connections],
           \A j \in Links : j # k => link'[j] = link[j],
           link'[k].by = link[k].by, link'[k].client = link[k].client,
           link'[k].server = link[k].server, ~link[k].server => link'[k].up = <<>>,
           \A u \in Backends : u # s => pc'[u] = pc[u] /\ trying'[u] = trying[u],
           pc'[s] # "hello",
           pc'[s] \in {"idle", "ensure", "send"} => Quiet(k)',
           pc'[s] = "wait" => Working(Problem(s), k)',
           UNCHANGED <<backlog, call, fd, serverVars, child>>
    PROVE  ServerInv' /\ PeersInv' /\ \A u \in Backends : Owned(u)' /\ Talk(u)'
<1>1. TypeOK /\ ServerInv /\ s \in Clients /\ k # None /\ link[k].by = s /\ link[k].client
  BY Holding, ClientAssumption DEF ConnectionInv, Clients
<1>2. \A j \in Links : /\ link'[j].server = link[j].server
                       /\ ~link[j].server => link'[j].up = <<>>
  BY <1>1 DEF ServerInv
<1>3. ServerInv'
  BY <1>1, <1>2, SocketTypes, BooksFrame DEF ServerInv, serverVars
<1>4. /\ \A u \in Backends : u # s => Owned(u)' /\ Talk(u)'
      /\ \A p \in Peers : p # s /\ fd'[p] # None => link'[fd'[p]].by = p /\ link'[fd'[p]].client
  BY <1>1, ClientFrame DEF serverVars
<1>5. PeersInv'
  BY <1>4, ClientAssumption DEF PeersInv
<1>6. Held(s)' = k
  BY DEF Held
<1>7. link'[k].by = s /\ link'[k].client
  BY <1>1
<1>8. Owned(s)'
  BY <1>1, <1>6, <1>7 DEF Owned
<1>9. Talk(s)'
  BY <1>6 DEF Talk
<1> QED
  BY <1>3, <1>4, <1>5, <1>8, <1>9

LEMMA SendRequestKeeps ==
    ASSUME ConnectionInv, NEW s \in Backends, SendRequest(s)
    PROVE  ConnectionInv'
<1>1. /\ TypeOK /\ pc[s] = "send" /\ fd[s] # None
      /\ UNCHANGED <<backlog, call, serverVars, supervisorVars, reload, events>>
  BY DEF ConnectionInv, SendRequest, Owned, Held
<1>2. lastId' \in [Backends -> Nat] /\ lastId'[s] \in Nat
  BY <1>1 DEF TypeOK, SendRequest
<1>3. PICK k \in Links : /\ k = fd[s] /\ k # None /\ link[k] \in Connections
                         /\ link[k].by = s /\ link[k].client /\ Quiet(k)
  BY <1>1, Holding
<1>4. CASE ~CanAsk(fd[s])
  BY <1>1, <1>2, <1>4, BrokenKeeps DEF SendRequest
<1>5. CASE CanAsk(fd[s])
  <2>1. /\ link' = Asked(k, Frame("REQUEST", lastId'[s], Problem(s)), link)
        /\ pc' = [pc EXCEPT ![s] = "wait"] /\ link[k].server
        /\ UNCHANGED <<fd, trying, attempt, outcome, interrupted>>
    BY <1>3, <1>5 DEF SendRequest, CanAsk
  <2>2. PICK m \in Frames : /\ m = Frame("REQUEST", lastId'[s], Problem(s))
                            /\ m.type = "REQUEST" /\ m.of = Problem(s)
    <3>1. Problem(s) \in Problems
      BY <1>1 DEF TypeOK, Problem, Problems, Clients
    <3>2. Frame("REQUEST", lastId'[s], Problem(s)) \in Frames
      BY <1>2, <3>1 DEF Frame, Frames, Kinds
    <3>3. /\ Frame("REQUEST", lastId'[s], Problem(s)).type = "REQUEST"
          /\ Frame("REQUEST", lastId'[s], Problem(s)).of = Problem(s)
      BY DEF Frame
    <3> QED
      BY <3>2, <3>3
  <2>3. /\ link' \in [Links -> Connections]
        /\ \A j \in Links : j # k => link'[j] = link[j]
        /\ link'[k].by = link[k].by /\ link'[k].client = link[k].client
        /\ link'[k].server = link[k].server
        /\ link'[k].up = Append(link[k].up, m) /\ link'[k].down = link[k].down
    <3>1. link' = Asked(k, m, link)
      BY <2>1, <2>2
    <3>2. link \in [Links -> Connections]
      BY <1>1, SocketTypes
    <3>3. /\ Asked(k, m, link) \in [Links -> Connections]
          /\ \A j \in Links : j # k => Asked(k, m, link)[j] = link[j]
          /\ Asked(k, m, link)[k].by = link[k].by
          /\ Asked(k, m, link)[k].client = link[k].client
          /\ Asked(k, m, link)[k].server = link[k].server
          /\ Asked(k, m, link)[k].up = Append(link[k].up, m)
          /\ Asked(k, m, link)[k].down = link[k].down
      BY <3>2, AskedFacts
    <3> QED
      BY <3>1, <3>3
  <2>4. /\ pc' \in [Backends -> {"idle", "ensure", "hello", "send", "wait"}]
        /\ pc'[s] = "wait" /\ \A u \in Backends : u # s => pc'[u] = pc[u]
    BY <1>1, <2>1 DEF TypeOK
  <2>5. TypeOK'
    BY <1>1, <1>2, <2>1, <2>3, <2>4 DEF TypeOK, serverVars, supervisorVars
  <2>6. link[k].up = <<>> /\ link[k].down = <<>> /\ current = k /\ stage = "ready"
    BY <1>3, <2>1 DEF Quiet
  <2>7. Append(link[k].up, m) = <<m>>
    BY <2>6
  <2>8. Working(Problem(s), k)'
    <3>1. link'[k].up = <<m>> /\ link'[k].down = <<>> /\ Problem(s)' = Problem(s)
      BY <1>1, <2>3, <2>6, <2>7 DEF Problem
    <3>2. /\ OneFrame(link'[k].up, "REQUEST") /\ link'[k].up[1].of = Problem(s)
          /\ ~Complete(link'[k].down) /\ AnswersTo(Problem(s), link'[k].down)
      BY <2>2, <3>1 DEF OneFrame, Complete, AnswersTo
    <3>3. current' = k /\ stage' = "ready"
      BY <1>1, <2>6 DEF serverVars
    <3> QED
      BY <3>1, <3>2, <3>3 DEF Working
  <2> QED
    <3>1. ServerInv' /\ PeersInv' /\ \A u \in Backends : Owned(u)' /\ Talk(u)'
      <4>1. \A u \in Backends : u # s => pc'[u] = pc[u] /\ trying'[u] = trying[u]
        BY <2>1, <2>4
      <4>2. UNCHANGED <<backlog, call, fd, serverVars, child>>
        BY <1>1, <2>1 DEF supervisorVars
      <4>3. /\ fd[s] = k /\ pc[s] # "hello" /\ pc'[s] # "hello"
            /\ pc'[s] \notin {"idle", "ensure", "send"}
        BY <1>1, <1>3, <2>4
      <4>4. ~link[k].server => link'[k].up = <<>>
        BY <2>1
      <4> QED
        BY <2>3, <2>8, <4>1, <4>2, <4>3, <4>4, KeepingStep
    <3> QED
      BY <2>5, <3>1 DEF ConnectionInv
<1> QED
  BY <1>4, <1>5

\* Reading a report leaves the rest of the answer; what ends an answer is last.
LEMMA ReadAnswer ==
    ASSUME NEW q \in Seq(Frames), NEW p, q # <<>>, AnswersTo(p, q)
    PROVE  /\ Head(q) = q[1]
           /\ Head(q).type \in {"PROGRESS", "RESULT", "ERROR"}
           /\ Head(q).type = "RESULT" => Head(q).of = p
           /\ Head(q).type = "PROGRESS" =>
                 AnswersTo(p, Tail(q)) /\ (Complete(Tail(q)) <=> Complete(q))
           /\ Head(q).type # "PROGRESS" => Tail(q) = <<>> /\ Complete(q)
<1>1. /\ Len(q) \in Nat \ {0} /\ DOMAIN q = 1..Len(q) /\ Head(q) = q[1]
      /\ Tail(q) \in Seq(Frames) /\ Len(Tail(q)) = Len(q) - 1
      /\ DOMAIN Tail(q) = 1..(Len(q) - 1)
      /\ \A i \in 1..(Len(q) - 1) : Tail(q)[i] = q[i + 1]
  BY EmptySeq, HeadTailProperties, LenProperties
<1>2. 1 \in DOMAIN q
  BY <1>1
<1>3. /\ Head(q).type \in {"PROGRESS", "RESULT", "ERROR"}
      /\ Head(q).type = "RESULT" => Head(q).of = p
      /\ Head(q).type # "PROGRESS" => Len(q) = 1
  BY <1>1, <1>2 DEF AnswersTo
<1>4. AnswersTo(p, Tail(q))
  <2> DEFINE t == Tail(q)  n == Len(q)
  <2>1. /\ n \in Nat /\ DOMAIN q = 1..n /\ DOMAIN t = 1..(n - 1) /\ Len(t) = n - 1
        /\ \A i \in 1..(n - 1) : t[i] = q[i + 1]
    BY <1>1
  <2>2. \A i \in DOMAIN q : /\ q[i].type \in {"PROGRESS", "RESULT", "ERROR"}
                            /\ q[i].type = "RESULT" => q[i].of = p
                            /\ q[i].type # "PROGRESS" => i = n
    BY DEF AnswersTo
  <2> HIDE DEF t, n
  <2>3. ASSUME NEW i \in 1..(n - 1)
        PROVE  /\ t[i].type \in {"PROGRESS", "RESULT", "ERROR"}
               /\ t[i].type = "RESULT" => t[i].of = p
               /\ t[i].type # "PROGRESS" => i = n - 1
    <3>1. i + 1 \in 1..n /\ t[i] = q[i + 1] /\ (i + 1 = n => i = n - 1)
      BY <2>1
    <3>2. i + 1 \in DOMAIN q
      BY <2>1, <3>1
    <3> QED
      BY <2>2, <3>1, <3>2
  <2>4. AnswersTo(p, t)
    BY <2>1, <2>3 DEF AnswersTo
  <2> QED
    BY <2>4 DEF t
<1>5. Head(q).type # "PROGRESS" => Tail(q) = <<>> /\ Complete(q)
  BY <1>1, <1>3, TailOfOne DEF Complete
<1>6. Head(q).type = "PROGRESS" => (Complete(Tail(q)) <=> Complete(q))
  <2>1. CASE Len(q) = 1
    BY <1>1, <2>1, TailOfOne DEF Complete
  <2>2. CASE Len(q) # 1
    <3> DEFINE t == Tail(q)  n == Len(q)
    <3>1. /\ n \in Nat \ {0, 1} /\ Len(t) = n - 1 /\ \A i \in 1..(n - 1) : t[i] = q[i + 1]
      BY <1>1, <2>2
    <3>2. t # <<>>
      <4>1. t = <<>> => Len(t) = 0
        BY EmptySeq
      <4> QED
        BY <3>1, <4>1
    <3> HIDE DEF t, n
    <3>3. n - 1 \in 1..(n - 1) /\ (n - 1) + 1 = n
      BY <3>1
    <3>4. t[Len(t)] = q[n] /\ t # <<>>
      BY <3>1, <3>2, <3>3
    <3> QED
      BY <3>4 DEF Complete, t, n
  <2> QED
    BY <2>1, <2>2
<1> QED
  BY <1>1, <1>3, <1>4, <1>5, <1>6

LEMMA ReceiveKeeps ==
    ASSUME ConnectionInv, NEW s \in Backends, Receive(s)
    PROVE  ConnectionInv'
<1>1. /\ TypeOK /\ ServerInv /\ pc[s] = "wait" /\ fd[s] # None
      /\ UNCHANGED <<backlog, call, lastId, serverVars, supervisorVars, reload, events>>
  BY DEF ConnectionInv, Receive, Owned, Held
<1>2. lastId' \in [Backends -> Nat]
  BY <1>1 DEF TypeOK
<1>3. PICK k \in Links : /\ k = fd[s] /\ k # None /\ link[k] \in Connections
                         /\ link[k].by = s /\ link[k].client /\ Working(Problem(s), k)
  BY <1>1, Holding
<1>4. link \in [Links -> Connections] /\ link[k].down \in Seq(Frames)
  BY <1>1, <1>3, SocketTypes DEF Connections
<1> DEFINE m == Head(link[k].down)
<1>5. CASE Broken(s)
  BY <1>1, <1>2, <1>5, BrokenKeeps
<1>6. CASE /\ HasAnswer(k)
           /\ link' = [link EXCEPT ![k].down = Tail(@)]
           /\ trying' = [trying EXCEPT ![s] = IF m.type = "PROGRESS" THEN @ ELSE None]
           /\ IF m.type = "PROGRESS"
              THEN UNCHANGED <<pc, attempt, outcome, interrupted>>
              ELSE Ends(s, IF m.type = "RESULT" THEN Answer(m.of) ELSE Failure)
           /\ UNCHANGED fd
  <2>1. link[k].down # <<>>
    BY <1>6 DEF HasAnswer
  <2>2. /\ link' \in [Links -> Connections] /\ m \in Frames
        /\ \A j \in Links : j # k => link'[j] = link[j]
        /\ link'[k].by = link[k].by /\ link'[k].client = link[k].client
        /\ link'[k].server = link[k].server /\ link'[k].up = link[k].up
        /\ link'[k].down = Tail(link[k].down)
    BY <1>4, <1>6, <2>1, ReadDownFacts
  <2>3. trying' \in [Backends -> Links \cup {None}] /\ \A u \in Backends : u # s => trying'[u] = trying[u]
    BY <1>1, <1>6 DEF TypeOK
  <2>4. AnswersTo(Problem(s), link[k].down)
    BY <1>3 DEF Working
  <2> HIDE DEF m
  <2>5. CASE m.type = "PROGRESS"
    <3>1. UNCHANGED <<pc, attempt, outcome, interrupted>>
      BY <1>6, <2>5
    <3>2. TypeOK'
      BY <1>1, <1>6, <2>2, <2>3, <3>1 DEF TypeOK, serverVars, supervisorVars
    <3>3. AnswersTo(Problem(s), Tail(link[k].down)) /\ (Complete(Tail(link[k].down)) <=> Complete(link[k].down))
      BY <1>4, <2>1, <2>4, <2>5, ReadAnswer DEF m
    <3>4. Working(Problem(s), k)'
      <4>1. Problem(s)' = Problem(s) /\ current' = current /\ stage' = stage /\ job' = job
        BY <1>1 DEF Problem, serverVars
      <4> QED
        BY <1>3, <2>2, <3>3, <4>1 DEF Working
    <3>5. /\ fd[s] = k /\ pc[s] # "hello" /\ pc'[s] # "hello"
          /\ pc'[s] \notin {"idle", "ensure", "send"}
          /\ \A u \in Backends : u # s => pc'[u] = pc[u] /\ trying'[u] = trying[u]
      BY <1>1, <1>3, <2>3, <3>1
    <3>6. UNCHANGED <<backlog, call, fd, serverVars, child>>
      BY <1>1, <1>6 DEF supervisorVars
    <3>7. ~link[k].server => link'[k].up = <<>>
      BY <1>1, <2>2 DEF ServerInv
    <3>8. ServerInv' /\ PeersInv' /\ \A u \in Backends : Owned(u)' /\ Talk(u)'
      BY <2>2, <3>4, <3>5, <3>6, <3>7, KeepingStep
    <3> QED
      BY <3>2, <3>8 DEF ConnectionInv
  <2>6. CASE m.type # "PROGRESS"
    <3>1. PICK o \in Outcomes : Ends(s, o)
      <4>1. m.of \in Problems
        BY <2>2 DEF Frames
      <4>2. Answer(m.of) \in Outcomes
        BY <4>1 DEF Answer, Outcomes
      <4> QED
        BY <1>6, <2>6, <4>2, FailureType
    <3>2. pc'[s] = "idle" /\ \A u \in Backends : u # s => pc'[u] = pc[u]
      BY <1>1, <3>1 DEF TypeOK, Ends
    <3>3. TypeOK'
      BY <1>1, <1>6, <2>2, <2>3, <3>1, EndsType DEF TypeOK, serverVars, supervisorVars
    <3>4. Tail(link[k].down) = <<>> /\ Complete(link[k].down)
      BY <1>4, <2>1, <2>4, <2>6, ReadAnswer DEF m
    <3>5. ~link[k].server => link[k].up = <<>>
      BY <1>1 DEF ServerInv
    <3>6. Quiet(k)'
      <4>1. current' = current /\ stage' = stage
        BY <1>1 DEF serverVars
      <4>2. link[k].up = <<>> /\ (link[k].server => current = k /\ stage = "ready")
        BY <1>3, <3>4, <3>5 DEF Working
      <4> QED
        BY <2>2, <3>4, <4>1, <4>2 DEF Quiet
    <3>7. /\ fd[s] = k /\ pc[s] # "hello" /\ pc'[s] # "hello" /\ pc'[s] # "wait"
          /\ \A u \in Backends : u # s => pc'[u] = pc[u] /\ trying'[u] = trying[u]
      BY <1>1, <1>3, <2>3, <3>2
    <3>8. UNCHANGED <<backlog, call, fd, serverVars, child>>
      BY <1>1, <1>6 DEF supervisorVars
    <3>9. ~link[k].server => link'[k].up = <<>>
      BY <2>2, <3>5
    <3>10. ServerInv' /\ PeersInv' /\ \A u \in Backends : Owned(u)' /\ Talk(u)'
      BY <2>2, <3>6, <3>7, <3>8, <3>9, KeepingStep
    <3> QED
      BY <3>3, <3>10 DEF ConnectionInv
  <2> QED
    BY <2>5, <2>6
<1> QED
  BY <1>3, <1>5, <1>6 DEF Receive

LEMMA CancelWaitKeeps ==
    ASSUME ConnectionInv, NEW s \in Backends, CancelWait(s)
    PROVE  ConnectionInv'
<1>1. /\ TypeOK /\ pc[s] = "wait" /\ fd[s] # None /\ s \in Clients
      /\ link' = HungUp(fd[s], link)
      /\ fd' = [fd EXCEPT ![s] = None] /\ trying' = [trying EXCEPT ![s] = None]
      /\ Ends(s, Cancelled)
      /\ UNCHANGED <<backlog, call, lastId, serverVars, supervisorVars, reload, events>>
  BY DEF ConnectionInv, CancelWait, Owned, Held, Clients
<1>2. PICK k \in Links : k = fd[s] /\ link[k].by = s /\ link[k].client
  BY <1>1, Holding
<1>3. /\ fd' \in [Clients -> Links \cup {None}] /\ trying' \in [Backends -> Links \cup {None}]
      /\ fd'[s] = None
      /\ \A u \in Clients : u # s => fd'[u] = fd[u]
      /\ \A u \in Backends : u # s => trying'[u] = trying[u]
  BY <1>1 DEF TypeOK
<1>4. pc'[s] = "idle" /\ \A u \in Backends : u # s => pc'[u] = pc[u]
  BY <1>1 DEF TypeOK, Ends
<1>5. link \in [Links -> Connections] /\ link' = HungUp(k, link)
  BY <1>1, <1>2, SocketTypes
<1>6. UNCHANGED <<backlog, call, serverVars, child>>
  BY <1>1 DEF supervisorVars
<1>7. /\ link' \in [Links -> Connections]
      /\ ServerInv' /\ PeersInv' /\ \A u \in Backends : Owned(u)' /\ Talk(u)'
  BY <1>1, <1>2, <1>3, <1>4, <1>5, <1>6, HangUpKeeps
<1>8. TypeOK'
  BY <1>1, <1>3, <1>7, EndsType, FailureType DEF TypeOK, serverVars, supervisorVars
<1> QED
  BY <1>7, <1>8 DEF ConnectionInv

LEMMA InterruptKeeps ==
    ASSUME ConnectionInv, NEW s \in Backends, Interrupt(s)
    PROVE  ConnectionInv'
<1>1. /\ TypeOK /\ ServerInv /\ PeersInv
      /\ UNCHANGED <<link, backlog, clientVars, serverVars, supervisorVars, reload>>
  BY DEF ConnectionInv, Interrupt
<1>2. interrupted' \in [Backends -> BOOLEAN] /\ events' \in 0..MaxEvents
  BY <1>1, ClientAssumption DEF TypeOK, Interrupt, Event, Spend
<1>3. TypeOK'
  BY <1>1, <1>2 DEF TypeOK, clientVars, serverVars, supervisorVars
<1>4. ServerInv' /\ PeersInv'
  BY <1>1 DEF ServerInv, PeersInv, clientVars, serverVars, supervisorVars
<1>5. \A u \in Backends : Owned(u)' /\ Talk(u)'
  BY <1>1, SessionFrame DEF ConnectionInv, clientVars, serverVars
<1> QED
  BY <1>3, <1>4, <1>5 DEF ConnectionInv

LEMMA ExitKeeps ==
    ASSUME ConnectionInv, NEW s \in Backends, Exit(s)
    PROVE  ConnectionInv'
<1>1. /\ TypeOK /\ pc[s] = "idle" /\ fd[s] # None /\ s \in Clients
      /\ fd' = [fd EXCEPT ![s] = None]
      /\ UNCHANGED <<backlog, pc, call, trying, attempt, lastId, outcome, interrupted,
                     serverVars, supervisorVars, reload, events>>
  BY DEF ConnectionInv, Exit, Clients
<1>2. PICK k \in Links : k = fd[s] /\ link[k].by = s /\ link[k].client
  BY <1>1, Holding
<1>3. fd' \in [Clients -> Links \cup {None}] /\ fd'[s] = None /\ \A u \in Clients : u # s => fd'[u] = fd[u]
  BY <1>1 DEF TypeOK
<1>4. PICK f \in [Links -> Connections] :
          /\ \A j \in Links : j # k => f[j] = link[j]
          /\ f[k].server = link[k].server /\ link' = HungUp(k, f)
  <2>1. link \in [Links -> Connections]
    BY <1>1, SocketTypes
  <2>2. Frame("BYE", 0, None) \in Frames
    BY DEF Frame, Frames, Kinds, Problems
  <2>3. CASE CanAsk(k)
    <3>1. link' = HungUp(k, Asked(k, Frame("BYE", 0, None), link))
      BY <1>2, <2>3 DEF Exit
    <3>2. /\ Asked(k, Frame("BYE", 0, None), link) \in [Links -> Connections]
          /\ \A j \in Links : j # k => Asked(k, Frame("BYE", 0, None), link)[j] = link[j]
          /\ Asked(k, Frame("BYE", 0, None), link)[k].server = link[k].server
      BY <2>1, <2>2, AskedFacts
    <3> QED
      BY <3>1, <3>2
  <2>4. CASE ~CanAsk(k)
    <3>1. link' = HungUp(k, link)
      BY <1>2, <2>4 DEF Exit
    <3> QED
      BY <2>1, <3>1
  <2> QED
    BY <2>3, <2>4
<1>5. UNCHANGED <<backlog, call, serverVars, child>>
  BY <1>1 DEF supervisorVars
<1>6. \A u \in Backends : u # s => pc'[u] = pc[u] /\ call'[u] = call[u] /\ trying'[u] = trying[u]
  BY <1>1
<1>7. /\ link' \in [Links -> Connections]
      /\ ServerInv' /\ PeersInv' /\ \A u \in Backends : Owned(u)' /\ Talk(u)'
  BY <1>1, <1>2, <1>3, <1>4, <1>5, <1>6, HangUpKeeps
<1>8. TypeOK'
  BY <1>1, <1>3, <1>7 DEF TypeOK, serverVars, supervisorVars
<1> QED
  BY <1>7, <1>8 DEF ConnectionInv

-----------------------------------------------------------------------------
(* The steps of the server *)

LEMMA ServerType ==
    ASSUME TypeOK, link' \in [Links -> Connections], backlog' \in Seq(Links),
           current' \in Links \cup {None},
           stage' \in {"down", "dead", "starting", "accept", "hello", "ready", "job"},
           job' \in Jobs \cup {None}, UNCHANGED others
    PROVE  TypeOK'
BY DEF TypeOK, others, clientVars, supervisorVars

\* Where a session is whose connection is being served.
LEMMA Served ==
    ASSUME ConnectionInv, NEW s \in Backends, NEW k \in Links, Held(s) = k, current = k
    PROVE  /\ link[k].by = s /\ link[k].client /\ link[k].server
           /\ \/ /\ pc[s] = "hello" /\ stage = "hello"
                 /\ OneFrame(link[k].up, "HELLO") /\ link[k].down = <<>>
              \/ /\ pc[s] = "hello" /\ stage = "ready"
                 /\ OneFrame(link[k].down, "HELLO") /\ link[k].up = <<>>
              \/ /\ pc[s] \in {"idle", "ensure", "send"} /\ stage = "ready"
                 /\ link[k].up = <<>> /\ link[k].down = <<>>
              \/ pc[s] = "wait" /\ Working(Problem(s), k)
<1>1. /\ TypeOK /\ ServerInv /\ Owned(s) /\ Talk(s) /\ k # None
      /\ pc[s] \in {"idle", "ensure", "hello", "send", "wait"}
  BY ClientAssumption DEF ConnectionInv, TypeOK
<1>2. link[k].by = s /\ link[k].client /\ link[k].server
  BY <1>1 DEF Owned, ServerInv
<1>3. /\ pc[s] = "hello" => Greeting(k)
      /\ pc[s] \in {"idle", "ensure", "send"} => Quiet(k)
      /\ pc[s] = "wait" => Working(Problem(s), k)
  BY <1>1 DEF Talk
<1>4. CASE pc[s] = "hello"
  BY <1>2, <1>3, <1>4 DEF Greeting
<1>5. CASE pc[s] \in {"idle", "ensure", "send"}
  BY <1>2, <1>3, <1>5 DEF Quiet
<1> QED
  BY <1>1, <1>2, <1>3, <1>4, <1>5

\* The server goes on with the connection it serves.
LEMMA ServingStep ==
    ASSUME ConnectionInv, NEW k \in Links, current = k,
           stage' \in {"hello", "ready", "job"}, current' = current,
           stage' = "job" => job' \in Jobs, job' \in Jobs \cup {None},
           UNCHANGED <<backlog, others>>,
           link' \in [Links -> Connections],
           \A j \in Links : j # k => link'[j] = link[j],
           link'[k].by = link[k].by, link'[k].client = link[k].client,
           link'[k].server = link[k].server,
           \A s \in Backends : Held(s) = k =>
               /\ pc[s] = "hello" => Greeting(k)'
               /\ pc[s] \in {"idle", "ensure", "send"} => Quiet(k)'
               /\ pc[s] = "wait" => Working(Problem(s), k)'
    PROVE  ConnectionInv'
<1>1. /\ TypeOK /\ ServerInv /\ k # None /\ link[k].server
      /\ stage \in {"hello", "ready", "job"}
  BY ClientAssumption DEF ConnectionInv, ServerInv
<1>2. TypeOK'
  BY <1>1, SocketTypes, ServerType
<1>3. \A j \in Links : /\ link'[j].server = link[j].server
                       /\ ~link[j].server => link'[j].up = <<>>
  BY <1>1 DEF ServerInv
<1>4. ServerInv'
  BY <1>1, <1>3, SocketTypes, BooksFrame DEF others, supervisorVars
<1>5. /\ \A u \in Backends : Held(u) # k => Owned(u)' /\ Talk(u)'
      /\ PeersInv'
  BY ServerFrame DEF others
<1>6. ASSUME NEW s \in Backends, Held(s) = k
      PROVE  Owned(s)' /\ Talk(s)'
  <2>1. Held(s)' = k /\ pc'[s] = pc[s]
    BY <1>6 DEF Held, others, clientVars
  <2>2. Owned(s) /\ link'[k].by = s /\ link'[k].client
    BY <1>6, Served DEF ConnectionInv
  <2>3. Owned(s)'
    BY <1>6, <2>1, <2>2 DEF Owned, others, clientVars
  <2>4. Talk(s)'
    BY <1>6, <2>1 DEF Talk
  <2> QED
    BY <2>3, <2>4
<1> QED
  BY <1>2, <1>4, <1>5, <1>6 DEF ConnectionInv

\* The server closes a connection that is no session's, and waits for the next.
LEMMA LeaveKeeps ==
    ASSUME ConnectionInv, NEW k \in Links, current = k,
           \A s \in Backends : Held(s) # k,
           NEW f \in [Links -> Connections], \A j \in Links : j # k => f[j] = link[j],
           f[k].by = link[k].by, f[k].client = link[k].client,
           Leave(f), UNCHANGED others
    PROVE  ConnectionInv'
<1>1. /\ TypeOK /\ ServerInv /\ link \in [Links -> Connections] /\ backlog \in Seq(Links)
      /\ current' = None /\ job' = None /\ stage' = "accept" /\ backlog' = backlog
      /\ link' = Dropped(k, f)
  BY SocketTypes DEF ConnectionInv, Leave
<1>2. /\ link' \in [Links -> Connections]
      /\ \A j \in Links : j # k => link'[j] = link[j]
      /\ link'[k] = ServerLeft(f[k])
  BY <1>1, DroppedFacts
<1>3. /\ ~link'[k].server /\ link'[k].up = <<>>
      /\ link[k].client => link'[k].client /\ link'[k].by = link[k].by
  BY <1>2, ServerLeftFacts
<1>4. TypeOK'
  BY <1>1, <1>2, ServerType
<1>5. ServerInv'
  <2>1. \A i \in DOMAIN backlog : backlog[i] \in Links /\ backlog[i] # k
    BY <1>1 DEF ServerInv
  <2>2. \A j \in Links : ~link'[j].server => link'[j].up = <<>>
    BY <1>1, <1>2, <1>3 DEF ServerInv
  <2>3. \A i \in DOMAIN backlog' :
            /\ link'[backlog'[i]].server /\ backlog'[i] # current'
            /\ \A j \in DOMAIN backlog' : backlog'[i] = backlog'[j] => i = j
    BY <1>1, <1>2, <2>1, ClientAssumption DEF ServerInv
  <2>4. child' = child /\ child
    BY <1>1, ClientAssumption DEF ServerInv, others, supervisorVars
  <2> QED
    BY <1>1, <2>2, <2>3, <2>4 DEF ServerInv
<1>6. /\ \A u \in Backends : Held(u) # k => Owned(u)' /\ Talk(u)'
      /\ PeersInv'
  BY <1>1, <1>2, <1>3, ServerFrame DEF others
<1> QED
  BY <1>4, <1>5, <1>6 DEF ConnectionInv

\* The server's process ends, by itself or because the supervisor kills it.
LEMMA EndOfServer ==
    ASSUME ConnectionInv, link' = ServerGone(link), backlog' = <<>>, current' = None,
           stage' \in {"dead", "down"}, ~child' => stage' = "down",
           UNCHANGED clientVars
    PROVE  /\ link' \in [Links -> Connections]
           /\ ServerInv' /\ PeersInv' /\ \A s \in Backends : Owned(s)' /\ Talk(s)'
<1>1. TypeOK /\ PeersInv /\ link \in [Links -> Connections]
  BY SocketTypes DEF ConnectionInv
<1>2. \A j \in Links : link'[j] = ServerLeft(link[j])
  BY DEF ServerGone
<1>3. \A j \in Links : link'[j] \in Connections /\ ~link'[j].server /\ link'[j].up = <<>>
  BY <1>1, <1>2, ServerLeftFacts
<1>4. link' \in [Links -> Connections]
  BY <1>3 DEF ServerGone
<1>5. ServerInv'
  BY <1>3 DEF ServerInv
<1>6. PeersInv'
  <2>1. ASSUME NEW p \in Peers, fd[p] # None
        PROVE  link'[fd[p]].by = p /\ link'[fd[p]].client
    BY <1>1, <1>2, <2>1, HeldIsLink, ServerLeftFacts DEF PeersInv
  <2> QED
    BY <2>1 DEF PeersInv, clientVars
<1>7. ASSUME NEW s \in Backends
      PROVE  Owned(s)' /\ Talk(s)'
  <2>1. Held(s) # None => link'[Held(s)] = ServerLeft(link[Held(s)])
    BY <1>1, <1>2, HeldIsLink
  <2> QED
    BY <2>1, SessionLosesServer
<1> QED
  BY <1>4, <1>5, <1>6, <1>7

LEMMA TerminateKeeps ==
    ASSUME ConnectionInv, Terminate, stage # "down", UNCHANGED others
    PROVE  ConnectionInv'
<1>1. TypeOK /\ child' /\ backlog' \in Seq(Links) /\ UNCHANGED clientVars
  BY DEF ConnectionInv, ServerInv, Terminate, others, supervisorVars
<1>2. /\ link' \in [Links -> Connections]
      /\ ServerInv' /\ PeersInv' /\ \A s \in Backends : Owned(s)' /\ Talk(s)'
  BY <1>1, EndOfServer DEF Terminate
<1>3. TypeOK'
  BY <1>1, <1>2, ServerType DEF Terminate
<1> QED
  BY <1>2, <1>3 DEF ConnectionInv

\* What is added to an answer that is not over.
LEMMA AppendAnswer ==
    ASSUME NEW q \in Seq(Frames), NEW p, NEW m \in Frames, AnswersTo(p, q), ~Complete(q),
           m.type \in {"PROGRESS", "RESULT", "ERROR"}, m.type = "RESULT" => m.of = p
    PROVE  AnswersTo(p, Append(q, m)) /\ (Complete(Append(q, m)) <=> m.type # "PROGRESS")
<1> DEFINE n == Len(q)  t == Append(q, m)
<1>1. /\ n \in Nat /\ DOMAIN q = 1..n /\ t \in Seq(Frames) /\ Len(t) = n + 1
      /\ DOMAIN t = 1..(n + 1) /\ t[n + 1] = m /\ \A i \in 1..n : t[i] = q[i]
  BY AppendProperties, LenProperties
<1>2. \A i \in DOMAIN q : q[i].type = "PROGRESS"
  <2>1. q # <<>> => q[n].type = "PROGRESS"
    BY DEF Complete
  <2>2. ASSUME NEW i \in DOMAIN q, q[i].type # "PROGRESS"
        PROVE  FALSE
    <3>1. i = n /\ q # <<>>
      BY <2>2, EmptySeq DEF AnswersTo
    <3> QED
      BY <2>1, <2>2, <3>1
  <2> QED
    BY <2>2
<1>3. t # <<>>
  <2>1. t = <<>> => Len(t) = 0
    BY EmptySeq
  <2> QED
    BY <1>1, <2>1
<1> HIDE DEF t
<1>4. ASSUME NEW i \in 1..(n + 1)
      PROVE  /\ t[i].type \in {"PROGRESS", "RESULT", "ERROR"}
             /\ t[i].type = "RESULT" => t[i].of = p
             /\ t[i].type # "PROGRESS" => i = n + 1
  <2>1. CASE i = n + 1
    BY <1>1, <2>1
  <2>2. CASE i # n + 1
    <3>1. i \in DOMAIN q /\ t[i] = q[i]
      BY <1>1, <2>2
    <3> QED
      BY <1>2, <3>1
  <2> QED
    BY <2>1, <2>2
<1>5. AnswersTo(p, t)
  BY <1>1, <1>4 DEF AnswersTo
<1>6. Complete(t) <=> m.type # "PROGRESS"
  BY <1>1, <1>3 DEF Complete
<1> QED
  BY <1>5, <1>6 DEF t

\* What the server writes to the connection it serves.
LEMMA ReplyFacts ==
    ASSUME TypeOK, NEW k \in Links, current = k, NEW m \in Frames, NEW f \in [Links -> Connections]
    PROVE  /\ Reply(m, f) \in [Links -> Connections]
           /\ \A j \in Links : j # k => Reply(m, f)[j] = f[j]
           /\ Reply(m, f)[k].by = f[k].by /\ Reply(m, f)[k].client = f[k].client
           /\ Reply(m, f)[k].server = f[k].server /\ Reply(m, f)[k].up = f[k].up
           /\ link[k].by \notin Peers /\ f[k].client =>
                 Reply(m, f)[k].down = Append(f[k].down, m)
<1>1. CASE link[k].by \in Peers
  BY <1>1 DEF Reply
<1>2. CASE link[k].by \notin Peers
  <2>1. Reply(m, f) = Answered(k, m, f)
    BY <1>2 DEF Reply
  <2> QED
    BY <1>2, <2>1, AnsweredFacts
<1> QED
  BY <1>1, <1>2

\* conn.send outside a try: a session that is served waits for this very frame.
LEMMA SendKeeps ==
    ASSUME ConnectionInv, NEW k \in Links, current = k, stage \in {"ready", "job"},
           NEW m \in Frames, NEW f \in [Links -> Connections],
           \A j \in Links : j # k => f[j] = link[j],
           f[k].by = link[k].by, f[k].client = link[k].client, f[k].server = link[k].server,
           f[k].down = link[k].down,
           SendOrTerminate(m, f, "ready"), UNCHANGED others,
           \A s \in Backends : Held(s) = k =>
               /\ pc[s] = "wait" /\ AnswersTo(Problem(s), link[k].down) /\ ~Complete(link[k].down)
               /\ f[k].up = <<>> /\ m.type \in {"RESULT", "ERROR"}
               /\ m.type = "RESULT" => m.of = Problem(s)
    PROVE  ConnectionInv'
<1>1. TypeOK /\ link \in [Links -> Connections]
  BY SocketTypes DEF ConnectionInv
<1>2. CASE ~CanAnswer(current)
  BY <1>2, TerminateKeeps DEF SendOrTerminate
<1>3. CASE CanAnswer(current)
  <2>1. /\ link' = Reply(m, f) /\ stage' = "ready" /\ job' = None
        /\ UNCHANGED <<backlog, current>>
    BY <1>3 DEF SendOrTerminate
  <2>2. /\ link' \in [Links -> Connections]
        /\ \A j \in Links : j # k => link'[j] = link[j]
        /\ link'[k].by = link[k].by /\ link'[k].client = link[k].client
        /\ link'[k].server = link[k].server /\ link'[k].up = f[k].up
        /\ link[k].by \notin Peers /\ link[k].client =>
              link'[k].down = Append(link[k].down, m)
    <3>1. /\ Reply(m, f) \in [Links -> Connections]
          /\ \A j \in Links : j # k => Reply(m, f)[j] = f[j]
          /\ Reply(m, f)[k].by = f[k].by /\ Reply(m, f)[k].client = f[k].client
          /\ Reply(m, f)[k].server = f[k].server /\ Reply(m, f)[k].up = f[k].up
          /\ link[k].by \notin Peers /\ f[k].client =>
                Reply(m, f)[k].down = Append(f[k].down, m)
      BY <1>1, ReplyFacts
    <3> QED
      BY <2>1, <3>1
  <2>3. ASSUME NEW s \in Backends, Held(s) = k
        PROVE  pc[s] = "wait" /\ Working(Problem(s), k)'
    <3>1. link[k].by \notin Peers /\ link[k].client
      BY <2>3, Served, ClientAssumption
    <3>2. link[k].down \in Seq(Frames)
      BY <1>1 DEF Connections
    <3>3. AnswersTo(Problem(s), link'[k].down) /\ Complete(link'[k].down)
      <4>1. /\ AnswersTo(Problem(s), link[k].down) /\ ~Complete(link[k].down)
            /\ m.type \in {"PROGRESS", "RESULT", "ERROR"} /\ m.type # "PROGRESS"
            /\ m.type = "RESULT" => m.of = Problem(s)
        BY <2>3
      <4>2. link'[k].down = Append(link[k].down, m)
        BY <2>2, <3>1
      <4>3. PICK q \in Seq(Frames) : q = link[k].down
        BY <3>2
      <4>4. AnswersTo(Problem(s), Append(q, m)) /\ Complete(Append(q, m))
        BY <4>1, <4>3, AppendAnswer
      <4> QED
        BY <4>2, <4>3, <4>4
    <3>4. Problem(s)' = Problem(s)
      <4>1. call' = call
        BY DEF others, clientVars
      <4> QED
        BY <4>1 DEF Problem
    <3>5. current' = k /\ stage' = "ready" /\ link'[k].up = <<>>
      BY <2>1, <2>2, <2>3
    <3> QED
      BY <2>3, <3>3, <3>4, <3>5 DEF Working
  <2>4. /\ stage' \in {"hello", "ready", "job"} /\ (stage' = "job" => job' \in Jobs)
        /\ current' = current /\ job' \in Jobs \cup {None} /\ UNCHANGED <<backlog, others>>
    BY <2>1
  <2>5. \A s \in Backends : Held(s) = k =>
            /\ pc[s] = "hello" => Greeting(k)'
            /\ pc[s] \in {"idle", "ensure", "send"} => Quiet(k)'
            /\ pc[s] = "wait" => Working(Problem(s), k)'
    BY <2>3
  <2> QED
    BY <2>2, <2>4, <2>5, ServingStep
<1> QED
  BY <1>2, <1>3

LEMMA ListenKeeps ==
    ASSUME ConnectionInv, Listen
    PROVE  ConnectionInv'
<1>1. /\ TypeOK /\ ServerInv /\ PeersInv /\ current = None
      /\ stage = "starting" /\ stage' = "accept" /\ UNCHANGED <<link, backlog, current, job, others>>
  BY DEF ConnectionInv, Listen, ServerInv
<1>2. TypeOK'
  <2>1. stage' \in {"down", "dead", "starting", "accept", "hello", "ready", "job"} /\ job' \in Jobs \cup {None}
    BY <1>1 DEF TypeOK
  <2> QED
    BY <1>1, <2>1, SocketTypes, ServerType
<1>3. ServerInv'
  BY <1>1 DEF ServerInv, others, supervisorVars
<1>4. PeersInv'
  BY <1>1 DEF PeersInv, others, clientVars
<1>5. \A s \in Backends : Owned(s)' /\ Talk(s)'
  BY <1>1, SessionFrame DEF ConnectionInv, others, clientVars
<1> QED
  BY <1>2, <1>3, <1>4, <1>5 DEF ConnectionInv

LEMMA AcceptKeeps ==
    ASSUME ConnectionInv, Accept
    PROVE  ConnectionInv'
<1>1. /\ TypeOK /\ ServerInv /\ PeersInv /\ current = None /\ stage = "accept" /\ backlog # <<>>
      /\ current' = Head(backlog) /\ backlog' = Tail(backlog) /\ stage' = "hello"
      /\ UNCHANGED <<link, job, others>>
  BY DEF ConnectionInv, Accept, ServerInv
<1>2. /\ backlog \in Seq(Links) /\ Head(backlog) \in Links /\ Head(backlog) = backlog[1]
      /\ Tail(backlog) \in Seq(Links) /\ Len(backlog) \in Nat \ {0}
      /\ DOMAIN backlog = 1..Len(backlog) /\ DOMAIN Tail(backlog) = 1..(Len(backlog) - 1)
      /\ \A i \in 1..(Len(backlog) - 1) : Tail(backlog)[i] = backlog[i + 1]
  BY <1>1, SocketTypes, EmptySeq, LenProperties, HeadTailProperties
<1>3. PICK k \in Links : k = Head(backlog)
  BY <1>2
<1>4. TypeOK'
  <2>1. stage' \in {"down", "dead", "starting", "accept", "hello", "ready", "job"} /\ job' \in Jobs \cup {None}
    BY <1>1 DEF TypeOK
  <2>2. link' \in [Links -> Connections] /\ backlog' \in Seq(Links) /\ current' \in Links \cup {None}
    BY <1>1, <1>2, SocketTypes
  <2> QED
    BY <1>1, <2>1, <2>2, ServerType
<1>5. ServerInv'
  <2>1. link[k].server /\ k # None /\ 1 \in DOMAIN backlog
    BY <1>1, <1>2, <1>3, ClientAssumption DEF ServerInv
  <2>2. ASSUME NEW i \in 1..(Len(backlog) - 1)
        PROVE  /\ i + 1 \in DOMAIN backlog /\ i + 1 # 1
               /\ Tail(backlog)[i] = backlog[i + 1]
               /\ link[Tail(backlog)[i]].server /\ Tail(backlog)[i] # k
    <3>1. i + 1 \in DOMAIN backlog /\ i + 1 # 1 /\ Tail(backlog)[i] = backlog[i + 1]
      BY <1>2
    <3>2. link[backlog[i + 1]].server /\ (backlog[i + 1] = backlog[1] => i + 1 = 1)
      BY <1>1, <2>1, <3>1 DEF ServerInv
    <3> QED
      BY <1>2, <1>3, <3>1, <3>2
  <2>3. ASSUME NEW i \in 1..(Len(backlog) - 1), NEW j \in 1..(Len(backlog) - 1),
               Tail(backlog)[i] = Tail(backlog)[j]
        PROVE  i = j
    <3>1. i + 1 = j + 1
      BY <1>1, <2>2, <2>3 DEF ServerInv
    <3> QED
      BY <3>1
  <2>4. \A i \in DOMAIN backlog' :
            /\ link'[backlog'[i]].server /\ backlog'[i] # current'
            /\ \A j \in DOMAIN backlog' : backlog'[i] = backlog'[j] => i = j
    BY <1>1, <1>2, <1>3, <2>2, <2>3
  <2>5. /\ child' = child /\ child /\ link' = link /\ current' = k /\ stage' = "hello"
    BY <1>1, <1>3 DEF ServerInv, others, supervisorVars
  <2> QED
    BY <1>1, <2>1, <2>4, <2>5 DEF ServerInv
<1>6. PeersInv'
  BY <1>1 DEF PeersInv, others, clientVars
<1>7. ASSUME NEW s \in Backends
      PROVE  Owned(s)' /\ Talk(s)'
  <2>1. CASE Held(s) # k
    BY <1>1, <1>3, <2>1, SessionFrame DEF ConnectionInv, others, clientVars
  <2>2. CASE Held(s) = k
    <3>1. /\ Owned(s) /\ Talk(s) /\ k # None /\ current # k /\ link[k].server
          /\ pc[s] \in {"idle", "ensure", "hello", "send", "wait"}
      <4>1. 1 \in DOMAIN backlog /\ backlog[1] = k
        BY <1>2, <1>3
      <4>2. link[k].server
        BY <1>1, <4>1 DEF ServerInv
      <4>3. pc[s] \in {"idle", "ensure", "hello", "send", "wait"}
        BY <1>1 DEF TypeOK
      <4> QED
        BY <1>1, <4>2, <4>3, ClientAssumption DEF ConnectionInv
    <3>2. pc[s] = "hello" /\ Greeting(k) /\ Held(s)' = k /\ pc'[s] = pc[s]
      BY <1>1, <2>2, <3>1 DEF Talk, Quiet, Working, Held, others, clientVars
    <3>3. Greeting(k)'
      <4>1. link' = link /\ stage' = "hello"
        BY <1>1
      <4> QED
        BY <3>1, <3>2, <4>1 DEF Greeting
    <3>4. Owned(s)'
      BY <1>1, <2>2, <3>1, <3>2 DEF Owned, others, clientVars
    <3>5. Talk(s)'
      BY <3>2, <3>3 DEF Talk
    <3> QED
      BY <3>4, <3>5
  <2> QED
    BY <2>1, <2>2
<1> QED
  BY <1>4, <1>5, <1>6, <1>7 DEF ConnectionInv

\* The frame the server reads, and the connection once it is read.
LEMMA AfterFacts ==
    ASSUME TypeOK, NEW k \in Links, current = k, HasRequest(current)
    PROVE  /\ After \in [Links -> Connections] /\ Read \in Frames
           /\ Read.id \in Nat /\ Read.of \in Problems
           /\ \A j \in Links : j # k => After[j] = link[j]
           /\ After[k].by = link[k].by /\ After[k].client = link[k].client
           /\ After[k].server = link[k].server /\ After[k].down = link[k].down
           /\ \A type : OneFrame(link[k].up, type) =>
                 Read.type = type /\ Read = link[k].up[1] /\ After[k].up = <<>>
           /\ link[k].up # <<>>
<1>1. link \in [Links -> Connections] /\ link[k].up \in Seq(Frames) /\ link[k].up # <<>>
  BY SocketTypes DEF Connections, HasRequest
<1>2. /\ After \in [Links -> Connections] /\ Read \in Frames
      /\ \A j \in Links : j # k => After[j] = link[j]
      /\ After[k].by = link[k].by /\ After[k].client = link[k].client
      /\ After[k].server = link[k].server /\ After[k].down = link[k].down
      /\ After[k].up = Tail(link[k].up)
  BY <1>1, ReadUpFacts DEF After, Read
<1>3. Read.id \in Nat /\ Read.of \in Problems
  BY <1>2 DEF Frames
<1>4. ASSUME NEW type, OneFrame(link[k].up, type)
      PROVE  Read.type = type /\ Read = link[k].up[1] /\ After[k].up = <<>>
  <2>1. PICK q \in Seq(Frames) : q = link[k].up
    BY <1>1
  <2>2. Len(q) = 1 /\ q[1].type = type /\ Head(q) = q[1]
    BY <1>4, <2>1 DEF OneFrame
  <2>3. Tail(q) = <<>>
    BY <2>2, TailOfOne
  <2> QED
    BY <1>2, <2>1, <2>2, <2>3 DEF Read
<1> QED
  BY <1>1, <1>2, <1>3, <1>4

LEMMA ReplyFrames ==
    /\ \A n \in Nat, type \in Kinds : Frame(type, n, None) \in Frames /\ Frame(type, n, None).type = type
    /\ \A n \in Nat, p \in Problems : /\ Frame("RESULT", n, p) \in Frames
                                      /\ Frame("RESULT", n, p).type = "RESULT"
                                      /\ Frame("RESULT", n, p).of = p
BY DEF Frame, Frames, Kinds, Problems

\* run_session before its loop, and in it, serves a connection.
LEMMA ServingFacts ==
    ASSUME ConnectionInv, stage \in {"hello", "ready", "job"}
    PROVE  \E k \in Links :
               /\ k = current /\ TypeOK /\ link \in [Links -> Connections] /\ link[k].server
               /\ ~link[k].client => \A s \in Backends : Held(s) # k
               /\ \A s \in Backends : Held(s) = k => link[k].client /\ link[k].by \notin Peers
<1>1. TypeOK /\ ServerInv /\ current \in Links /\ link \in [Links -> Connections]
  BY SocketTypes DEF ConnectionInv, ServerInv
<1>2. PICK k \in Links : k = current
  BY <1>1
<1>3. \A s \in Backends : Held(s) = k => link[k].client /\ link[k].by \notin Peers
  BY <1>2, Served, ClientAssumption
<1> QED
  BY <1>1, <1>2, <1>3 DEF ServerInv

LEMMA GreetKeeps ==
    ASSUME ConnectionInv, Greet
    PROVE  ConnectionInv'
<1>1. stage = "hello" /\ UNCHANGED others
  BY DEF Greet
<1>2. PICK k \in Links :
          /\ k = current /\ TypeOK /\ link \in [Links -> Connections] /\ link[k].server
          /\ ~link[k].client => \A s \in Backends : Held(s) # k
          /\ \A s \in Backends : Held(s) = k => link[k].client /\ link[k].by \notin Peers
  BY <1>1, ServingFacts
<1>3. \A s \in Backends : Held(s) = k =>
          pc[s] = "hello" /\ OneFrame(link[k].up, "HELLO") /\ link[k].down = <<>>
  <2>1. ASSUME NEW s \in Backends, Held(s) = k
        PROVE  pc[s] = "hello" /\ OneFrame(link[k].up, "HELLO") /\ link[k].down = <<>>
    BY <1>1, <1>2, <2>1, Served DEF Working
  <2> QED
    BY <2>1
<1>4. CASE RequestsEnd(current) /\ Leave(link)
  <2>1. \A s \in Backends : Held(s) # k
    BY <1>2, <1>4 DEF RequestsEnd
  <2> QED
    BY <1>1, <1>2, <1>4, <2>1, LeaveKeeps
<1>5. CASE HasRequest(current) /\ Read.type # "HELLO" /\ Leave(Reply(Frame("ERROR", Read.id, None), After))
  <2>1. /\ After \in [Links -> Connections] /\ Read.id \in Nat
        /\ \A j \in Links : j # k => After[j] = link[j]
        /\ After[k].by = link[k].by /\ After[k].client = link[k].client
        /\ \A type : OneFrame(link[k].up, type) => Read.type = type
    BY <1>2, <1>5, AfterFacts
  <2>2. PICK m \in Frames : m = Frame("ERROR", Read.id, None)
    BY <2>1, ReplyFrames DEF Kinds
  <2>3. PICK f \in [Links -> Connections] :
            /\ f = Reply(m, After) /\ \A j \in Links : j # k => f[j] = link[j]
            /\ f[k].by = link[k].by /\ f[k].client = link[k].client
    BY <1>2, <2>1, ReplyFacts
  <2>4. \A s \in Backends : Held(s) # k
    BY <1>3, <1>5, <2>1
  <2>5. Leave(f)
    BY <1>5, <2>2, <2>3
  <2> QED
    BY <1>1, <1>2, <2>3, <2>4, <2>5, LeaveKeeps
<1>6. CASE HasRequest(current) /\ ~CanAnswer(current) /\ Leave(After)
  <2>1. /\ After \in [Links -> Connections]
        /\ \A j \in Links : j # k => After[j] = link[j]
        /\ After[k].by = link[k].by /\ After[k].client = link[k].client
    BY <1>2, <1>6, AfterFacts
  <2>2. \A s \in Backends : Held(s) # k
    BY <1>2, <1>6 DEF CanAnswer
  <2>3. PICK f \in [Links -> Connections] : f = After
    BY <2>1
  <2>4. Leave(f)
    BY <1>6, <2>3
  <2> QED
    BY <1>1, <1>2, <2>1, <2>2, <2>3, <2>4, LeaveKeeps
<1>7. CASE /\ HasRequest(current) /\ CanAnswer(current)
           /\ link' = Reply(Frame("HELLO", 0, None), After)
           /\ stage' = "ready"
           /\ UNCHANGED <<backlog, current, job>>
  <2>1. /\ After \in [Links -> Connections] /\ link[k].up # <<>>
        /\ \A j \in Links : j # k => After[j] = link[j]
        /\ After[k].by = link[k].by /\ After[k].client = link[k].client
        /\ After[k].server = link[k].server /\ After[k].down = link[k].down
        /\ \A type : OneFrame(link[k].up, type) => After[k].up = <<>>
    BY <1>2, <1>7, AfterFacts
  <2>2. PICK m \in Frames : m = Frame("HELLO", 0, None) /\ m.type = "HELLO"
    BY ReplyFrames DEF Kinds
  <2>3. PICK f \in [Links -> Connections] : f = After
    BY <2>1
  <2>4. /\ Reply(m, f) \in [Links -> Connections]
        /\ \A j \in Links : j # k => Reply(m, f)[j] = f[j]
        /\ Reply(m, f)[k].by = f[k].by /\ Reply(m, f)[k].client = f[k].client
        /\ Reply(m, f)[k].server = f[k].server /\ Reply(m, f)[k].up = f[k].up
        /\ link[k].by \notin Peers /\ f[k].client => Reply(m, f)[k].down = Append(f[k].down, m)
    BY <1>2, ReplyFacts
  <2>5. link' = Reply(m, f)
    BY <1>7, <2>2, <2>3
  <2>6. /\ link' \in [Links -> Connections]
        /\ \A j \in Links : j # k => link'[j] = link[j]
        /\ link'[k].by = link[k].by /\ link'[k].client = link[k].client
        /\ link'[k].server = link[k].server
    BY <2>1, <2>3, <2>4, <2>5
  <2>7. ASSUME NEW s \in Backends, Held(s) = k
        PROVE  pc[s] = "hello" /\ Greeting(k)'
    <3>1. link[k].client /\ link[k].by \notin Peers /\ link[k].down = <<>> /\ After[k].up = <<>>
      BY <1>2, <1>3, <2>1, <2>7
    <3>2. link'[k].up = <<>> /\ link'[k].down = Append(<<>>, m)
      BY <2>1, <2>3, <2>4, <2>5, <3>1
    <3>3. Append(<<>>, m) = <<m>>
      OBVIOUS
    <3>4. OneFrame(link'[k].down, "HELLO") /\ link'[k].down # <<>>
      BY <2>2, <3>2, <3>3 DEF OneFrame
    <3>5. current' = k /\ stage' = "ready"
      BY <1>2, <1>7
    <3> QED
      BY <1>3, <2>7, <3>2, <3>4, <3>5 DEF Greeting
  <2>8. /\ stage' \in {"hello", "ready", "job"} /\ current' = current
        /\ (stage' = "job" => job' \in Jobs) /\ job' \in Jobs \cup {None}
        /\ UNCHANGED <<backlog, others>>
    <3>1. job \in Jobs \cup {None}
      BY <1>2 DEF TypeOK
    <3> QED
      BY <1>1, <1>7, <3>1
  <2>9. \A s \in Backends : Held(s) = k =>
            /\ pc[s] = "hello" => Greeting(k)'
            /\ pc[s] \in {"idle", "ensure", "send"} => Quiet(k)'
            /\ pc[s] = "wait" => Working(Problem(s), k)'
    BY <2>7
  <2> QED
    BY <1>2, <2>6, <2>8, <2>9, ServingStep
<1> QED
  BY <1>4, <1>5, <1>6, <1>7 DEF Greet

\* A session whose connection the request loop reads from waits for the answer
\* to the REQUEST it reads.
LEMMA RequestRead ==
    ASSUME ConnectionInv, stage = "ready", NEW k \in Links, k = current, HasRequest(current),
           NEW s \in Backends, Held(s) = k
    PROVE  /\ pc[s] = "wait" /\ Read.type = "REQUEST" /\ Read.of = Problem(s)
           /\ AnswersTo(Problem(s), link[k].down) /\ ~Complete(link[k].down)
           /\ After[k].up = <<>>
<1>1. /\ link[k].up # <<>>
      /\ \A type : OneFrame(link[k].up, type) =>
             Read.type = type /\ Read = link[k].up[1] /\ After[k].up = <<>>
  BY AfterFacts DEF ConnectionInv
<1>2. pc[s] = "wait" /\ Working(Problem(s), k) /\ link[k].server
  BY <1>1, Served
<1>3. /\ AnswersTo(Problem(s), link[k].down) /\ ~Complete(link[k].down)
      /\ OneFrame(link[k].up, "REQUEST") /\ link[k].up[1].of = Problem(s)
  BY <1>1, <1>2 DEF Working
<1> QED
  BY <1>1, <1>2, <1>3

\* A session whose job runs has written nothing since.
LEMMA JobRuns ==
    ASSUME ConnectionInv, stage = "job", NEW k \in Links, k = current,
           NEW s \in Backends, Held(s) = k
    PROVE  /\ pc[s] = "wait" /\ link[k].up = <<>> /\ job.of = Problem(s)
           /\ AnswersTo(Problem(s), link[k].down) /\ ~Complete(link[k].down)
<1>1. pc[s] = "wait" /\ Working(Problem(s), k) /\ link[k].server
  BY Served
<1> QED
  BY <1>1 DEF Working

\* What the server does with a frame that no session sent.
LEMMA StrangerStep ==
    ASSUME ConnectionInv, stage \in {"ready", "job"}, NEW k \in Links, k = current,
           HasRequest(current), \A s \in Backends : Held(s) # k, UNCHANGED others,
           \/ link' = After /\ UNCHANGED <<backlog, current, job, stage>>
           \/ Leave(After)
           \/ /\ \E m \in Frames : link' = Reply(m, After)
              /\ UNCHANGED <<backlog, current, job, stage>>
           \/ \E m \in Frames : SendOrTerminate(m, After, "ready")
    PROVE  ConnectionInv'
<1>1. TypeOK /\ ServerInv
  BY DEF ConnectionInv
<1>2. PICK f \in [Links -> Connections] :
          /\ f = After
          /\ \A j \in Links : j # k => f[j] = link[j]
          /\ f[k].by = link[k].by /\ f[k].client = link[k].client
          /\ f[k].server = link[k].server /\ f[k].down = link[k].down
  BY <1>1, AfterFacts
<1>3. ASSUME UNCHANGED <<backlog, current, job, stage>>, link' \in [Links -> Connections],
             \A j \in Links : j # k => link'[j] = link[j],
             link'[k].by = link[k].by, link'[k].client = link[k].client,
             link'[k].server = link[k].server
      PROVE  ConnectionInv'
  <2>1. /\ stage' \in {"hello", "ready", "job"} /\ (stage' = "job" => job' \in Jobs)
        /\ job' \in Jobs \cup {None}
    BY <1>1, <1>3 DEF TypeOK, ServerInv
  <2> QED
    BY <1>3, <2>1, ServingStep
<1>4. CASE link' = After /\ UNCHANGED <<backlog, current, job, stage>>
  BY <1>2, <1>3, <1>4
<1>5. CASE Leave(After)
  BY <1>2, <1>5, LeaveKeeps
<1>6. ASSUME NEW m \in Frames, link' = Reply(m, After), UNCHANGED <<backlog, current, job, stage>>
      PROVE  ConnectionInv'
  <2>1. /\ Reply(m, f) \in [Links -> Connections]
        /\ \A j \in Links : j # k => Reply(m, f)[j] = f[j]
        /\ Reply(m, f)[k].by = f[k].by /\ Reply(m, f)[k].client = f[k].client
        /\ Reply(m, f)[k].server = f[k].server
    BY <1>1, ReplyFacts
  <2>2. link' = Reply(m, f)
    BY <1>2, <1>6
  <2> QED
    BY <1>2, <1>3, <1>6, <2>1, <2>2
<1>7. ASSUME NEW m \in Frames, SendOrTerminate(m, After, "ready")
      PROVE  ConnectionInv'
  <2>1. SendOrTerminate(m, f, "ready")
    BY <1>2, <1>7
  <2> QED
    BY <1>2, <2>1, SendKeeps
<1> QED
  BY <1>4, <1>5, <1>6, <1>7

LEMMA ServeKeeps ==
    ASSUME ConnectionInv, Serve
    PROVE  ConnectionInv'
<1>1. stage = "ready" /\ UNCHANGED others
  BY DEF Serve
<1>2. PICK k \in Links :
          /\ k = current /\ TypeOK /\ link \in [Links -> Connections] /\ link[k].server
          /\ ~link[k].client => \A s \in Backends : Held(s) # k
          /\ \A s \in Backends : Held(s) = k => link[k].client /\ link[k].by \notin Peers
  BY <1>1, ServingFacts
<1>3. CASE RequestsEnd(current) /\ Leave(link)
  <2>1. \A s \in Backends : Held(s) # k
    BY <1>2, <1>3 DEF RequestsEnd
  <2> QED
    BY <1>1, <1>2, <1>3, <2>1, LeaveKeeps
<1>4. CASE HasRequest(current) /\ Read.type # "REQUEST"
  <2>1. \A s \in Backends : Held(s) # k
    BY <1>1, <1>2, <1>4, RequestRead
  <2>2. Read.id \in Nat
    BY <1>2, <1>4, AfterFacts
  <2>3. Frame("ERROR", Read.id, None) \in Frames /\ Frame("PONG", Read.id, None) \in Frames
    BY <2>2, ReplyFrames DEF Kinds
  <2>4. \/ link' = After /\ UNCHANGED <<backlog, current, job, stage>>
        \/ Leave(After)
        \/ /\ \E m \in Frames : link' = Reply(m, After)
           /\ UNCHANGED <<backlog, current, job, stage>>
        \/ \E m \in Frames : SendOrTerminate(m, After, "ready")
        \/ RequestsEnd(current)
    BY <1>4, <2>3 DEF Serve
  <2>5. ~RequestsEnd(current)
    BY <1>4 DEF HasRequest, RequestsEnd
  <2> QED
    BY <1>1, <1>2, <1>4, <2>1, <2>4, <2>5, StrangerStep
<1>5. CASE HasRequest(current) /\ Read.type = "REQUEST"
  <2>1. /\ Read.id \in Nat /\ Read.of \in Problems
        /\ \A j \in Links : j # k => After[j] = link[j]
        /\ After[k].by = link[k].by /\ After[k].client = link[k].client
        /\ After[k].server = link[k].server /\ After[k].down = link[k].down
    BY <1>2, <1>5, AfterFacts
  <2>2. PICK f \in [Links -> Connections] : f = After
    BY <1>2, <1>5, AfterFacts
  <2>3. \A s \in Backends : Held(s) = k =>
            /\ pc[s] = "wait" /\ Read.of = Problem(s)
            /\ AnswersTo(Problem(s), link[k].down) /\ ~Complete(link[k].down)
            /\ f[k].up = <<>>
    BY <1>1, <1>2, <1>5, <2>2, RequestRead
  <2>4. CASE SendOrTerminate(Frame("ERROR", Read.id, None), After, "ready")
    <3>1. PICK m \in Frames : m = Frame("ERROR", Read.id, None) /\ m.type = "ERROR"
      BY <2>1, ReplyFrames DEF Kinds
    <3>2. SendOrTerminate(m, f, "ready")
      BY <2>2, <2>4, <3>1
    <3>3. \A s \in Backends : Held(s) = k =>
            /\ pc[s] = "wait" /\ AnswersTo(Problem(s), link[k].down) /\ ~Complete(link[k].down)
            /\ f[k].up = <<>> /\ m.type \in {"RESULT", "ERROR"}
            /\ m.type = "RESULT" => m.of = Problem(s)
      BY <2>3, <3>1
    <3> QED
      BY <1>1, <1>2, <2>1, <2>2, <3>2, <3>3, SendKeeps
  <2>5. CASE /\ job' = [id |-> Read.id, of |-> Read.of]
             /\ stage' = "job" /\ link' = After
             /\ UNCHANGED <<backlog, current>>
    <3>1. job' \in Jobs /\ job'.of = Read.of
      BY <2>1, <2>5 DEF Jobs
    <3>2. ASSUME NEW s \in Backends, Held(s) = k
          PROVE  pc[s] = "wait" /\ Working(Problem(s), k)'
      <4>1. call' = call
        BY <1>1 DEF others, clientVars
      <4>2. Problem(s)' = Problem(s)
        BY <4>1 DEF Problem
      <4>3. link'[k].up = <<>> /\ link'[k].down = link[k].down /\ current' = k /\ stage' = "job"
        BY <1>2, <2>1, <2>2, <2>3, <2>5, <3>2
      <4>4. pc[s] = "wait" /\ AnswersTo(Problem(s), link'[k].down) /\ ~Complete(link'[k].down) /\ job'.of = Problem(s)
        BY <2>3, <3>1, <3>2, <4>3
      <4> QED
        BY <4>2, <4>3, <4>4 DEF Working
    <3>3. \A s \in Backends : Held(s) = k =>
            /\ pc[s] = "hello" => Greeting(k)'
            /\ pc[s] \in {"idle", "ensure", "send"} => Quiet(k)'
            /\ pc[s] = "wait" => Working(Problem(s), k)'
      BY <3>2
    <3>4. link' = f
      BY <2>2, <2>5
    <3> QED
      BY <1>1, <1>2, <2>1, <2>2, <2>5, <3>1, <3>3, <3>4, ServingStep
  <2>6. ~RequestsEnd(current)
    BY <1>5 DEF HasRequest, RequestsEnd
  <2> QED
    BY <1>5, <2>4, <2>5, <2>6 DEF Serve
<1> QED
  BY <1>3, <1>4, <1>5 DEF Serve

\* The poll reads: nothing of a session comes while its job runs.
LEMMA PollReadsKeeps ==
    ASSUME ConnectionInv, PollReads
    PROVE  ConnectionInv'
<1>1. stage = "job" /\ UNCHANGED others
  BY DEF PollReads
<1>2. PICK k \in Links :
          /\ k = current /\ TypeOK /\ link \in [Links -> Connections] /\ link[k].server
          /\ ~link[k].client => \A s \in Backends : Held(s) # k
          /\ \A s \in Backends : Held(s) = k => link[k].client /\ link[k].by \notin Peers
  BY <1>1, ServingFacts
<1>3. job \in Jobs /\ job.id \in Nat
  BY <1>1 DEF ConnectionInv, ServerInv, Jobs
<1>4. Frame("ERROR", job.id, None) \in Frames
  BY <1>3, ReplyFrames DEF Kinds
<1>5. CASE RequestsEnd(current) /\ Abort(link)
  <2>1. \A s \in Backends : Held(s) # k
    BY <1>2, <1>5 DEF RequestsEnd
  <2>2. PICK m \in Frames : m = Frame("ERROR", job.id, None)
    BY <1>4
  <2>3. SendOrTerminate(m, link, "ready")
    BY <1>5, <2>2 DEF Abort
  <2> QED
    BY <1>1, <1>2, <2>1, <2>3, SendKeeps
<1>6. CASE HasRequest(current)
  <2>1. \A s \in Backends : Held(s) # k
    <3>1. link[k].up # <<>>
      BY <1>2, <1>6 DEF HasRequest
    <3> QED
      BY <1>1, <1>2, <3>1, JobRuns
  <2>2. Read.id \in Nat
    BY <1>2, <1>6, AfterFacts
  <2>3. Frame("PONG", Read.id, None) \in Frames
    BY <2>2, ReplyFrames DEF Kinds
  <2>4. ~RequestsEnd(current)
    BY <1>6 DEF HasRequest, RequestsEnd
  <2>5. \/ link' = After /\ UNCHANGED <<backlog, current, job, stage>>
        \/ /\ \E m \in Frames : link' = Reply(m, After)
           /\ UNCHANGED <<backlog, current, job, stage>>
        \/ \E m \in Frames : SendOrTerminate(m, After, "ready")
    BY <1>4, <2>3, <2>4 DEF PollReads, Abort
  <2> QED
    BY <1>1, <1>2, <1>6, <2>1, <2>5, StrangerStep
<1> QED
  BY <1>5, <1>6 DEF PollReads

\* A deadline, which only a peer sets, or a report of a job that goes on.
LEMMA PollQuietKeeps ==
    ASSUME ConnectionInv, PollQuiet
    PROVE  ConnectionInv'
<1>1. stage = "job" /\ UNCHANGED others
  BY DEF PollQuiet
<1>2. PICK k \in Links :
          /\ k = current /\ TypeOK /\ link \in [Links -> Connections] /\ link[k].server
          /\ ~link[k].client => \A s \in Backends : Held(s) # k
          /\ \A s \in Backends : Held(s) = k => link[k].client /\ link[k].by \notin Peers
  BY <1>1, ServingFacts
<1>3. job \in Jobs /\ job.id \in Nat
  BY <1>1 DEF ConnectionInv, ServerInv, Jobs
<1>4. CASE link[current].by \in Peers /\ SendOrTerminate(Frame("ERROR", job.id, None), link, "ready")
  <2>1. PICK m \in Frames : m = Frame("ERROR", job.id, None)
    BY <1>3, ReplyFrames DEF Kinds
  <2>2. SendOrTerminate(m, link, "ready")
    BY <1>4, <2>1
  <2>3. \A s \in Backends : Held(s) # k
    BY <1>2, <1>4
  <2> QED
    BY <1>1, <1>2, <2>2, <2>3, SendKeeps
<1>5. CASE /\ link[current].down = <<>>
           /\ link' = Reply(Frame("PROGRESS", job.id, None), link)
           /\ UNCHANGED <<backlog, current, job, stage>>
  <2>1. PICK m \in Frames : m = Frame("PROGRESS", job.id, None) /\ m.type = "PROGRESS"
    BY <1>3, ReplyFrames DEF Kinds
  <2>2. link' = Reply(m, link)
    BY <1>5, <2>1
  <2>3. /\ link' \in [Links -> Connections]
        /\ \A j \in Links : j # k => link'[j] = link[j]
        /\ link'[k].by = link[k].by /\ link'[k].client = link[k].client
        /\ link'[k].server = link[k].server /\ link'[k].up = link[k].up
        /\ link[k].by \notin Peers /\ link[k].client =>
              link'[k].down = Append(link[k].down, m)
    <3>1. /\ Reply(m, link) \in [Links -> Connections]
          /\ \A j \in Links : j # k => Reply(m, link)[j] = link[j]
          /\ Reply(m, link)[k].by = link[k].by /\ Reply(m, link)[k].client = link[k].client
          /\ Reply(m, link)[k].server = link[k].server /\ Reply(m, link)[k].up = link[k].up
          /\ link[k].by \notin Peers /\ link[k].client =>
                Reply(m, link)[k].down = Append(link[k].down, m)
      BY <1>2, ReplyFacts
    <3> QED
      BY <2>2, <3>1
  <2>4. ASSUME NEW s \in Backends, Held(s) = k
        PROVE  pc[s] = "wait" /\ Working(Problem(s), k)'
    <3>1. /\ pc[s] = "wait" /\ link[k].up = <<>> /\ job.of = Problem(s)
          /\ AnswersTo(Problem(s), link[k].down) /\ ~Complete(link[k].down)
      BY <1>1, <1>2, <2>4, JobRuns
    <3>2. link'[k].down = Append(link[k].down, m) /\ link'[k].up = <<>>
      BY <1>2, <2>3, <2>4, <3>1
    <3>3. PICK q \in Seq(Frames) : q = link[k].down
      BY <1>2 DEF Connections
    <3>4. AnswersTo(Problem(s), Append(q, m)) /\ ~Complete(Append(q, m))
      BY <2>1, <3>1, <3>3, AppendAnswer
    <3>5. call' = call
      BY <1>1 DEF others, clientVars
    <3>6. Problem(s)' = Problem(s)
      BY <3>5 DEF Problem
    <3>7. current' = k /\ stage' = "job" /\ job' = job
      BY <1>1, <1>2, <1>5
    <3> QED
      BY <3>1, <3>2, <3>3, <3>4, <3>6, <3>7 DEF Working
  <2>5. \A s \in Backends : Held(s) = k =>
          /\ pc[s] = "hello" => Greeting(k)'
          /\ pc[s] \in {"idle", "ensure", "send"} => Quiet(k)'
          /\ pc[s] = "wait" => Working(Problem(s), k)'
    BY <2>4
  <2>6. /\ stage' \in {"hello", "ready", "job"} /\ current' = current
        /\ job' \in Jobs /\ job' \in Jobs \cup {None} /\ UNCHANGED <<backlog, others>>
    BY <1>1, <1>3, <1>5
  <2> QED
    BY <1>2, <2>3, <2>5, <2>6, ServingStep
<1> QED
  BY <1>4, <1>5 DEF PollQuiet

\* The answer of a job goes to the session that asked for it, with its problem.
LEMMA FinishJobKeeps ==
    ASSUME ConnectionInv, FinishJob
    PROVE  ConnectionInv'
<1>1. stage = "job" /\ UNCHANGED others
  BY DEF FinishJob
<1>2. PICK k \in Links :
          /\ k = current /\ TypeOK /\ link \in [Links -> Connections] /\ link[k].server
          /\ ~link[k].client => \A s \in Backends : Held(s) # k
          /\ \A s \in Backends : Held(s) = k => link[k].client /\ link[k].by \notin Peers
  BY <1>1, ServingFacts
<1>3. job \in Jobs /\ job.id \in Nat /\ job.of \in Problems
  BY <1>1 DEF ConnectionInv, ServerInv, Jobs
<1>4. PICK m \in Frames :
          /\ SendOrTerminate(m, link, "ready")
          /\ m.type \in {"RESULT", "ERROR"} /\ (m.type = "RESULT" => m.of = job.of)
  <2>1. /\ Frame("RESULT", job.id, job.of) \in Frames
        /\ Frame("RESULT", job.id, job.of).type = "RESULT"
        /\ Frame("RESULT", job.id, job.of).of = job.of
        /\ Frame("ERROR", job.id, None) \in Frames /\ Frame("ERROR", job.id, None).type = "ERROR"
    BY <1>3, ReplyFrames DEF Kinds
  <2> QED
    BY <2>1 DEF FinishJob
<1>5. \A s \in Backends : Held(s) = k =>
          /\ pc[s] = "wait" /\ AnswersTo(Problem(s), link[k].down) /\ ~Complete(link[k].down)
          /\ link[k].up = <<>> /\ m.type \in {"RESULT", "ERROR"}
          /\ m.type = "RESULT" => m.of = Problem(s)
  BY <1>1, <1>2, <1>4, JobRuns
<1> QED
  BY <1>1, <1>2, <1>4, <1>5, SendKeeps

LEMMA CrashKeeps ==
    ASSUME ConnectionInv, Crash
    PROVE  ConnectionInv'
<1>1. /\ TypeOK /\ ServerInv /\ child /\ Terminate /\ events' \in 0..MaxEvents
      /\ UNCHANGED <<clientVars, interrupted, supervisorVars, reload>>
  BY ClientAssumption DEF ConnectionInv, ServerInv, TypeOK, Crash, Event, Spend
<1>2. /\ link' \in [Links -> Connections]
      /\ ServerInv' /\ PeersInv' /\ \A s \in Backends : Owned(s)' /\ Talk(s)'
  BY <1>1, EndOfServer DEF Terminate, supervisorVars
<1>3. TypeOK'
  BY <1>1, <1>2 DEF TypeOK, Terminate, clientVars, supervisorVars
<1> QED
  BY <1>2, <1>3 DEF ConnectionInv

-----------------------------------------------------------------------------
(* The steps of the peers and of the supervisor *)

\* What a peer writes when it connects is a sequence of frames.
LEMMA ScriptsAreFrames ==
    ASSUME NEW p \in Peers
    PROVE  Scripts(p) \subseteq Seq(Frames)
<1>1. <<p, 1>> \in Problems
  BY DEF Problems, Clients
<1>2. Hello \in Frames /\ Newer \in Frames /\ Work(p) \in Frames
  BY <1>1, ReplyFrames DEF Hello, Newer, Work, Frame, Frames, Kinds, Problems
<1>3. PeerFrames(p) \subseteq Frames
  <2>1. \A n \in {0, 1, 2, 3} : n \in Nat
    OBVIOUS
  <2> QED
    BY <1>2, <2>1, ReplyFrames DEF PeerFrames, Kinds
<1>4. \A a \in Frames : <<a>> \in Seq(Frames)
  OBVIOUS
<1>5. \A a, b \in Frames : <<a, b>> \in Seq(Frames)
  OBVIOUS
<1>6. \A a, b, c \in Frames : <<a, b, c>> \in Seq(Frames)
  OBVIOUS
<1>7. \A m \in PeerFrames(p) : m \in Frames
  BY <1>3
<1>8. ASSUME NEW q \in Scripts(p)
      PROVE  q \in Seq(Frames)
  <2>1. CASE q \in {<<Newer>>, <<Work(p)>>}
    BY <1>2, <1>4, <2>1
  <2>2. CASE q \in {<<Hello, m>> : m \in PeerFrames(p)}
    BY <1>2, <1>5, <1>7, <2>2
  <2>3. CASE q \in {<<Hello, Work(p), m>> : m \in PeerFrames(p)}
    BY <1>2, <1>6, <1>7, <2>3
  <2> QED
    BY <2>1, <2>2, <2>3 DEF Scripts
<1> QED
  BY <1>8

LEMMA PeerConnectKeeps ==
    ASSUME ConnectionInv, NEW p \in Peers, PeerConnect(p)
    PROVE  ConnectionInv'
<1>1. /\ TypeOK /\ p \in Clients /\ p \notin Backends /\ PeersInv
      /\ FreeLinks # {} /\ stage \notin {"down", "dead", "starting"}
      /\ events' \in 0..MaxEvents /\ backlog' = Append(backlog, NextLink)
      /\ UNCHANGED <<pc, call, trying, attempt, lastId, outcome, interrupted, serverVars,
                     supervisorVars, reload>>
  BY ClientAssumption DEF ConnectionInv, TypeOK, PeerConnect, Spend, Clients
<1>2. PICK script \in Seq(Frames) : link' = [link EXCEPT ![NextLink] = Opened(p, script)]
  BY ScriptsAreFrames DEF PeerConnect
<1>3. /\ link' \in [Links -> Connections] /\ backlog' \in Seq(Links)
      /\ NextLink \in Links /\ NextLink # current /\ ~link[NextLink].client
      /\ \A j \in Links : j # NextLink => link'[j] = link[j]
      /\ link'[NextLink] = Opened(p, script)
      /\ ServerInv'
  BY <1>1, <1>2, OpenKeeps DEF supervisorVars
<1>4. PICK k \in Links : k = NextLink
  BY <1>3
<1>5. /\ fd' \in [Clients -> Links \cup {None}] /\ fd'[p] = k
      /\ \A u \in Clients : u # p => fd'[u] = fd[u]
  BY <1>1, <1>4 DEF TypeOK, PeerConnect
<1>6. /\ \A u \in Backends : u # p => Owned(u)' /\ Talk(u)'
      /\ \A q \in Peers : q # p /\ fd'[q] # None => link'[fd'[q]].by = q /\ link'[fd'[q]].client
  <2>1. /\ \A u \in Backends : u # p => pc'[u] = pc[u] /\ call'[u] = call[u] /\ trying'[u] = trying[u]
        /\ current' = current /\ stage' = stage /\ job' = job
    BY <1>1 DEF serverVars
  <2>2. ~link[k].client /\ \A j \in Links : j # k => link'[j] = link[j]
    BY <1>3, <1>4
  <2> QED
    BY <1>1, <1>5, <2>1, <2>2, ClientFrame
<1>7. link'[k].by = p /\ link'[k].client
  BY <1>3, <1>4 DEF Opened, Connection
<1>8. PeersInv'
  BY <1>5, <1>6, <1>7 DEF PeersInv
<1>9. TypeOK'
  BY <1>1, <1>3, <1>5 DEF TypeOK, serverVars, supervisorVars
<1> QED
  BY <1>1, <1>3, <1>6, <1>8, <1>9 DEF ConnectionInv

LEMMA PeerCloseKeeps ==
    ASSUME ConnectionInv, NEW p \in Peers, PeerClose(p)
    PROVE  ConnectionInv'
<1>1. /\ TypeOK /\ p \in Clients /\ p \notin Backends
      /\ fd[p] \in Links /\ link[fd[p]].by = p /\ link[fd[p]].client
      /\ UNCHANGED <<backlog, pc, call, trying, attempt, lastId, outcome, interrupted, serverVars,
                     supervisorVars, reload, events>>
  BY HeldIsLink, ClientAssumption DEF ConnectionInv, PeersInv, PeerClose
<1>2. /\ link \in [Links -> Connections] /\ link' = HungUp(fd[p], link)
  BY <1>1, SocketTypes DEF PeerClose
<1>3. /\ fd' \in [Clients -> Links \cup {None}] /\ fd'[p] = None
      /\ \A u \in Clients : u # p => fd'[u] = fd[u]
  BY <1>1 DEF TypeOK, PeerClose
<1>4. /\ \A u \in Backends : u # p => pc'[u] = pc[u] /\ call'[u] = call[u] /\ trying'[u] = trying[u]
      /\ UNCHANGED <<backlog, serverVars, child>>
  BY <1>1 DEF supervisorVars
<1>5. /\ link' \in [Links -> Connections]
      /\ ServerInv' /\ PeersInv' /\ \A s \in Backends : Owned(s)' /\ Talk(s)'
  BY <1>1, <1>2, <1>3, <1>4, HangUpKeeps
<1>6. TypeOK'
  BY <1>1, <1>3, <1>5 DEF TypeOK, serverVars, supervisorVars
<1> QED
  BY <1>5, <1>6 DEF ConnectionInv

\* A step that touches neither the sockets nor the server's place keeps all but the types.
LEMMA ElsewhereKeeps ==
    ASSUME ConnectionInv, TypeOK', child' = child,
           UNCHANGED <<link, backlog, clientVars, serverVars>>
    PROVE  ConnectionInv'
<1>1. ServerInv /\ PeersInv /\ \A s \in Backends : Owned(s) /\ Talk(s)
  BY DEF ConnectionInv
<1>2. ServerInv'
  BY <1>1 DEF ServerInv, serverVars
<1>3. PeersInv'
  BY <1>1 DEF PeersInv, clientVars
<1>4. \A s \in Backends : Owned(s)' /\ Talk(s)'
  BY <1>1, SessionFrame DEF clientVars, serverVars
<1> QED
  BY <1>2, <1>3, <1>4 DEF ConnectionInv

\* kill_server leaves no process, no address and no connection with a server's end.
LEMMA KillServerKeeps ==
    ASSUME ConnectionInv, KillServer, UNCHANGED rest,
           at' \in {"top", "latch", "nap", "gone"}, command' \in Commands,
           reload' \in Commands \cup {"terminate", None}
    PROVE  ConnectionInv'
<1>1. TypeOK /\ events' = events /\ UNCHANGED clientVars /\ interrupted' = interrupted
  BY DEF ConnectionInv, rest
<1>2. CASE child
  <2>1. /\ child' = FALSE /\ endpoint' = None
        /\ stage' = "down" /\ current' = None /\ job' = None
        /\ backlog' = <<>> /\ link' = ServerGone(link)
    BY <1>2 DEF KillServer
  <2>2. /\ link' \in [Links -> Connections]
        /\ ServerInv' /\ PeersInv' /\ \A s \in Backends : Owned(s)' /\ Talk(s)'
    BY <1>1, <2>1, EndOfServer
  <2>3. TypeOK'
    <3>1. /\ backlog' \in Seq(Links) /\ current' \in Links \cup {None}
          /\ job' \in Jobs \cup {None} /\ endpoint' \in {"path", None}
          /\ stage' \in {"down", "dead", "starting", "accept", "hello", "ready", "job"}
      BY <2>1
    <3>3. child' \in BOOLEAN
      BY <2>1
    <3>2. /\ pc' = pc /\ call' = call /\ lastId' = lastId /\ fd' = fd /\ trying' = trying
          /\ attempt' = attempt /\ interrupted' = interrupted /\ outcome' = outcome
          /\ events' = events
      BY <1>1 DEF clientVars
    <3> QED
      BY <1>1, <2>2, <3>1, <3>2, <3>3 DEF TypeOK
  <2> QED
    BY <2>2, <2>3 DEF ConnectionInv
<1>3. CASE ~child
  <2>1. UNCHANGED <<child, endpoint, stage, current, job, backlog, link>>
    BY <1>3 DEF KillServer
  <2>2. TypeOK'
    BY <1>1, <2>1 DEF TypeOK, clientVars
  <2> QED
    BY <1>1, <2>1, <2>2, ElsewhereKeeps DEF serverVars
<1> QED
  BY <1>2, <1>3

\* The steps that start or reap the process find it without any connection.
LEMMA ProcessKeeps ==
    ASSUME ConnectionInv, TypeOK', stage \in {"down", "dead", "starting"},
           stage' \in {"down", "starting"}, ~child' => stage' = "down",
           UNCHANGED <<link, backlog, current, job, clientVars>>
    PROVE  ConnectionInv'
<1>1. /\ ServerInv /\ PeersInv /\ \A s \in Backends : Owned(s) /\ Talk(s)
      /\ current = None /\ backlog = <<>>
      /\ \A k \in Links : ~link[k].server /\ link[k].up = <<>>
  BY DEF ConnectionInv, ServerInv
<1>2. ServerInv'
  BY <1>1 DEF ServerInv
<1>3. PeersInv'
  BY <1>1 DEF PeersInv, clientVars
<1>4. \A s \in Backends : Owned(s)' /\ Talk(s)'
  BY <1>1, SessionFrame DEF clientVars
<1> QED
  BY <1>2, <1>3, <1>4 DEF ConnectionInv

LEMMA SupervisorKeeps ==
    ASSUME ConnectionInv, SupervisorStep
    PROVE  ConnectionInv'
<1>1. TypeOK /\ ServerInv
  BY DEF ConnectionInv
<1>2. CASE ServeReload
  BY <1>1, <1>2, KillServerKeeps DEF ServeReload, TypeOK
<1>3. CASE ServeTerminate
  BY <1>1, <1>3, KillServerKeeps DEF ServeTerminate, TypeOK
<1>4. CASE Idle
  <2>1. KillServer /\ UNCHANGED rest
    BY <1>4, Zenon DEF Idle
  <2>2. at' = "latch" /\ command' = command /\ reload' = reload
    BY <1>4, Zenon DEF Idle
  <2>3. command \in Commands /\ reload \in Commands \cup {"terminate", None}
    BY <1>1 DEF TypeOK
  <2> QED
    BY <2>1, <2>2, <2>3, KillServerKeeps
<1>5. CASE Launch
  <2>1. /\ stage = "down" /\ UNCHANGED <<link, backlog, current, job, command, reload, clientVars, interrupted>>
        /\ stage' \in {"down", "starting"} /\ (~child' => stage' = "down")
    BY <1>1, <1>5 DEF Launch, ServerInv
  <2>2. TypeOK'
    <3>1. events' \in 0..MaxEvents
      BY <1>1, <1>5, ClientAssumption DEF TypeOK, Launch, Event, Spend
    <3>2. child' \in BOOLEAN
      BY <1>1, <1>5 DEF TypeOK, Launch
    <3>3. endpoint' \in {"path", None} /\ at' = "nap"
      BY <1>1, <1>5 DEF TypeOK, Launch
    <3> QED
      BY <1>1, <2>1, <3>1, <3>2, <3>3 DEF TypeOK, clientVars
  <2> QED
    BY <2>1, <2>2, ProcessKeeps
<1>6. CASE Woken
  <2>1. TypeOK'
    BY <1>1, <1>6 DEF TypeOK, Woken, rest, clientVars, serverVars
  <2> QED
    BY <1>6, <2>1, ElsewhereKeeps DEF Woken, rest
<1>7. CASE Reap
  <2>1. TypeOK'
    BY <1>1, <1>7 DEF TypeOK, Reap, rest, clientVars
  <2>2. CASE child /\ stage = "dead"
    <3>1. /\ stage' = "down" /\ UNCHANGED <<link, backlog, current, job, clientVars>>
      BY <1>7, <2>2 DEF Reap, rest
    <3> QED
      BY <2>1, <2>2, <3>1, ProcessKeeps
  <2>3. CASE ~(child /\ stage = "dead")
    BY <1>7, <2>1, <2>3, ElsewhereKeeps DEF Reap, rest, serverVars
  <2> QED
    BY <2>2, <2>3
<1> QED
  BY <1>2, <1>3, <1>4, <1>5, <1>6, <1>7 DEF SupervisorStep

LEMMA SignalKeeps ==
    ASSUME ConnectionInv, Signal
    PROVE  ConnectionInv'
<1>1. TypeOK'
  BY ClientAssumption DEF ConnectionInv, TypeOK, Signal, Event, Spend, clientVars, serverVars, supervisorVars
<1> QED
  BY <1>1, ElsewhereKeeps DEF Signal, supervisorVars

-----------------------------------------------------------------------------
(* What holds of every behaviour *)

LEMMA InitHolds ==
    ASSUME Init
    PROVE  ConnectionInv
<1>1. Closed \in Connections /\ ~Closed.server /\ Closed.up = <<>>
  BY DEF Closed, Connection, Connections
<1>2. \A k \in Links : link[k] = Closed
  BY DEF Init
<1>3. TypeOK
  <2>1. /\ link \in [Links -> Connections] /\ backlog \in Seq(Links)
        /\ current \in Links \cup {None} /\ job \in Jobs \cup {None}
    BY <1>1 DEF Init
  <2>2. /\ pc \in [Backends -> {"idle", "ensure", "hello", "send", "wait"}]
        /\ call \in [Backends -> Nat] /\ lastId \in [Backends -> Nat]
        /\ fd \in [Clients -> Links \cup {None}] /\ trying \in [Backends -> Links \cup {None}]
        /\ attempt \in [Backends -> {0, 1}] /\ outcome \in [Backends -> Outcomes \cup {None}]
    BY DEF Init
  <2>3. interrupted \in [Backends -> BOOLEAN] /\ child \in BOOLEAN
    BY DEF Init
  <2>4. /\ stage = "down" /\ at = "top" /\ endpoint = None /\ reload = None
        /\ command = "server" /\ events = 0
    BY DEF Init
  <2>5. command \in Commands
    BY <2>4, Zenon DEF Commands
  <2> QED
    BY <2>1, <2>2, <2>3, <2>4, <2>5, ClientAssumption DEF TypeOK
<1>4. ServerInv
  BY <1>1, <1>2 DEF Init, ServerInv
<1>5. PeersInv
  BY DEF Init, PeersInv, Clients
<1>6. ASSUME NEW s \in Backends
      PROVE  Owned(s) /\ Talk(s)
  <2>1. pc[s] = "idle" /\ fd[s] = None
    BY DEF Init, Clients
  <2> QED
    BY <2>1 DEF Owned, Talk, Held
<1> QED
  BY <1>3, <1>4, <1>5, <1>6 DEF ConnectionInv

LEMMA UnchangedKeeps ==
    ASSUME ConnectionInv, UNCHANGED vars
    PROVE  ConnectionInv'
<1>1. TypeOK'
  BY DEF ConnectionInv, TypeOK, vars, clientVars, serverVars, supervisorVars
<1> QED
  BY <1>1, ElsewhereKeeps DEF vars, supervisorVars

\* One case for each action of the sessions, the server, the supervisor, the
\* peers and the environment.
LEMMA StepKeeps ==
    ASSUME ConnectionInv, [Next]_vars
    PROVE  ConnectionInv'
<1>1. ASSUME NEW s \in Backends, Call(s) \/ BackendStep(s) \/ Interrupt(s) \/ Exit(s)
      PROVE  ConnectionInv'
  <2>1. CASE BackendStep(s)
    BY <2>1, ensure_connectionKeeps, HandshakeKeeps, SendRequestKeeps, ReceiveKeeps, CancelWaitKeeps
       DEF BackendStep
  <2> QED
    BY <1>1, <2>1, CallKeeps, InterruptKeeps, ExitKeeps
<1>2. CASE ServerStep
  BY <1>2, ListenKeeps, AcceptKeeps, GreetKeeps, ServeKeeps, PollReadsKeeps DEF ServerStep
<1>3. CASE PollQuiet \/ FinishJob \/ Crash
  BY <1>3, PollQuietKeeps, FinishJobKeeps, CrashKeeps
<1>4. CASE SupervisorStep \/ Signal
  BY <1>4, SupervisorKeeps, SignalKeeps
<1>5. ASSUME NEW p \in Peers, PeerConnect(p) \/ PeerClose(p)
      PROVE  ConnectionInv'
  BY <1>5, PeerConnectKeeps, PeerCloseKeeps
<1>6. CASE UNCHANGED vars
  BY <1>6, UnchangedKeeps
<1> QED
  BY <1>1, <1>2, <1>3, <1>4, <1>5, <1>6 DEF Next

\* For any sessions, peers and sockets: every connection is where its two ends
\* take it to be, whoever fails, gives up, is interrupted or is killed in
\* between (kcmcp_client.cpp, kcmcp_server.cpp, kcmcp_supervisor.c).
THEOREM ConnectionInvariant == Spec => []ConnectionInv
<1>1. Init => ConnectionInv
  BY InitHolds
<1>2. ConnectionInv /\ [Next]_vars => ConnectionInv'
  BY StepKeeps
<1> QED
  BY <1>1, <1>2, PTL DEF Spec

\* A session never keeps a connection with something left to read on it: the
\* next compilation cannot be given the answer to the one before
\* (wait_readable_or_cancel closes before it raises; kcmcp_client.cpp).
THEOREM KeptConnectionsStayQuiet == Spec => []KeptConnectionsAreQuiet
<1>1. ConnectionInv => KeptConnectionsAreQuiet
  <2> SUFFICES ASSUME ConnectionInv, NEW s \in Backends, pc[s] \in {"idle", "send"}, fd[s] # None
               PROVE  ~HasAnswer(fd[s])
    BY DEF KeptConnectionsAreQuiet
  <2>1. Held(s) = fd[s] /\ Talk(s)
    BY DEF Held, ConnectionInv
  <2>2. Quiet(fd[s])
    BY <2>1 DEF Talk
  <2> QED
    BY <2>2 DEF Quiet, HasAnswer
<1> QED
  BY <1>1, ConnectionInvariant, PTL

-----------------------------------------------------------------------------
(* The abstract service, step by step *)

\* A session that asked before and asks still has not moved for its caller.
LEMMA StillAsking ==
    ASSUME \A u \in Backends : pc'[u] = "idle" <=> pc[u] = "idle",
           UNCHANGED <<call, outcome, interrupted>>
    PROVE  UNCHANGED Service!vars
<1>1. Asking' = Asking
  BY DEF Asking
<1> QED
  BY <1>1 DEF Service!vars

\* The end of a statement is the end of the call.
LEMMA EndIsFinish ==
    ASSUME TypeOK, NEW s \in Backends, NEW o, Ends(s, o)
    PROVE  Service!Finish(s, o)
<1>1. pc \in [Backends -> {"idle", "ensure", "hello", "send", "wait"}]
  BY DEF TypeOK
<1>2. Asking' = [Asking EXCEPT ![s] = FALSE]
  BY <1>1 DEF Asking, Ends
<1> QED
  BY <1>2 DEF Ends, Service!Finish

LEMMA OutcomesAgree ==
    /\ Failure = Service!Outcome("failed", None)
    /\ Cancelled = Service!Outcome("cancelled", None)
    /\ \A s : Answer(Problem(s)) = Service!Outcome("answer", <<s, call[s]>>)
BY DEF Failure, Cancelled, Answer, Problem, Service!Outcome

LEMMA CallAsks ==
    ASSUME TypeOK, NEW s \in Backends, Call(s)
    PROVE  Service!Ask(s)
<1>1. pc \in [Backends -> {"idle", "ensure", "hello", "send", "wait"}]
  BY DEF TypeOK
<1>2. ~Asking[s] /\ call[s] < MaxCalls[s] /\ call' = [call EXCEPT ![s] = @ + 1]
  BY DEF Call, Asking
<1>3. CASE endpoint = None
  <2>1. Service!Finish(s, Service!Outcome("failed", None))
    BY <1>3, EndIsFinish, OutcomesAgree DEF Call
  <2> QED
    BY <1>2, <2>1 DEF Service!Ask
<1>4. CASE endpoint # None
  <2>1. /\ pc' = [pc EXCEPT ![s] = "ensure"]
        /\ outcome' = [outcome EXCEPT ![s] = None] /\ UNCHANGED interrupted
    BY <1>4 DEF Call
  <2>2. Asking' = [Asking EXCEPT ![s] = TRUE]
    BY <1>1, <2>1 DEF Asking
  <2> QED
    BY <1>2, <2>1, <2>2 DEF Service!Ask
<1> QED
  BY <1>3, <1>4

LEMMA FailureFails ==
    ASSUME TypeOK, NEW s \in Backends, pc[s] # "idle", Ends(s, Failure), call' = call
    PROVE  Service!Fails(s)
<1>1. Service!Finish(s, Service!Outcome("failed", None))
  BY EndIsFinish, OutcomesAgree
<1> QED
  BY <1>1 DEF Service!Fails, Asking

LEMMA BrokenImplements ==
    ASSUME TypeOK, NEW s \in Backends, pc[s] # "idle", Broken(s), call' = call
    PROVE  Service!Fails(s) \/ UNCHANGED Service!vars
<1>1. CASE Ends(s, Failure)
  BY <1>1, FailureFails
<1>2. CASE ~Ends(s, Failure)
  <2>1. pc' = [pc EXCEPT ![s] = "ensure"] /\ UNCHANGED <<call, outcome, interrupted>>
    BY <1>2 DEF Broken, GiveUpOrRetry
  <2>2. \A u \in Backends : pc'[u] = "idle" <=> pc[u] = "idle"
    BY <2>1 DEF TypeOK
  <2> QED
    BY <2>1, <2>2, StillAsking
<1> QED
  BY <1>1, <1>2

LEMMA ensure_connectionImplements ==
    ASSUME TypeOK, NEW s \in Backends, ensure_connection(s)
    PROVE  Service!Fails(s) \/ UNCHANGED Service!vars
<1>1. pc[s] = "ensure" /\ call' = call
  BY DEF ensure_connection
<1>2. CASE Ends(s, Failure)
  BY <1>1, <1>2, FailureFails
<1>3. CASE ~Ends(s, Failure)
  <2>1. /\ pc' = [pc EXCEPT ![s] = "send"] \/ pc' = [pc EXCEPT ![s] = "hello"]
        /\ UNCHANGED <<call, outcome, interrupted>>
    BY <1>3 DEF ensure_connection
  <2>2. \A u \in Backends : pc'[u] = "idle" <=> pc[u] = "idle"
    BY <1>1, <2>1 DEF TypeOK
  <2> QED
    BY <2>1, <2>2, StillAsking
<1> QED
  BY <1>2, <1>3

LEMMA HandshakeImplements ==
    ASSUME TypeOK, NEW s \in Backends, Handshake(s)
    PROVE  Service!Fails(s) \/ UNCHANGED Service!vars
<1>1. pc[s] = "hello" /\ call' = call
  BY DEF Handshake
<1>2. CASE Ends(s, Failure)
  BY <1>1, <1>2, FailureFails
<1>3. CASE ~Ends(s, Failure)
  <2>1. pc' = [pc EXCEPT ![s] = "send"] /\ UNCHANGED <<call, outcome, interrupted>>
    BY <1>3 DEF Handshake
  <2>2. \A u \in Backends : pc'[u] = "idle" <=> pc[u] = "idle"
    BY <1>1, <2>1 DEF TypeOK
  <2> QED
    BY <2>1, <2>2, StillAsking
<1> QED
  BY <1>2, <1>3

LEMMA SendRequestImplements ==
    ASSUME TypeOK, NEW s \in Backends, SendRequest(s)
    PROVE  Service!Fails(s) \/ UNCHANGED Service!vars
<1>1. pc[s] = "send" /\ call' = call
  BY DEF SendRequest
<1>2. CASE Broken(s)
  BY <1>1, <1>2, BrokenImplements
<1>3. CASE ~Broken(s)
  <2>1. pc' = [pc EXCEPT ![s] = "wait"] /\ UNCHANGED <<call, outcome, interrupted>>
    BY <1>1, <1>3 DEF SendRequest
  <2>2. \A u \in Backends : pc'[u] = "idle" <=> pc[u] = "idle"
    BY <1>1, <2>1 DEF TypeOK
  <2> QED
    BY <2>1, <2>2, StillAsking
<1> QED
  BY <1>2, <1>3

\* The one step that answers, and the one that needs the invariant: the RESULT
\* a session reads is about the problem it asked for.
LEMMA ReceiveImplements ==
    ASSUME ConnectionInv, NEW s \in Backends, Receive(s)
    PROVE  Service!Compiled(s) \/ Service!Fails(s) \/ UNCHANGED Service!vars
<1>1. TypeOK /\ pc[s] = "wait" /\ call' = call
  BY DEF ConnectionInv, Receive
<1>2. CASE Broken(s)
  BY <1>1, <1>2, BrokenImplements
<1>3. CASE ~Broken(s)
  <2> DEFINE m == Head(link[fd[s]].down)
  <2>1. /\ HasAnswer(fd[s]) /\ m.type \in {"PROGRESS", "RESULT", "ERROR"}
        /\ IF m.type = "PROGRESS"
           THEN UNCHANGED <<pc, attempt, outcome, interrupted>>
           ELSE Ends(s, IF m.type = "RESULT" THEN Answer(m.of) ELSE Failure)
    BY <1>3 DEF Receive
  <2>2. CASE m.type = "PROGRESS"
    BY <1>1, <2>1, <2>2, StillAsking
  <2>3. CASE m.type = "ERROR"
    BY <1>1, <2>1, <2>3, FailureFails
  <2>4. CASE m.type = "RESULT"
    <3>1. m.of = Problem(s)
      <4>1. PICK k \in Links : k = fd[s]
        BY <1>1, HeldIsLink DEF ConnectionInv, Owned, Held
      <4>2. /\ AnswersTo(Problem(s), link[k].down) /\ link[k].down # <<>>
            /\ link[k].down \in Seq(Frames)
        <5>1. Held(s) = k /\ k # None
          BY <1>1, <4>1, ClientAssumption DEF Held
        <5> QED
          BY <1>1, <2>1, <4>1, <5>1 DEF ConnectionInv, Talk, Working, HasAnswer, TypeOK, Connections
      <4>3. PICK q \in Seq(Frames) : q = link[k].down
        BY <4>2
      <4>4. 1 \in DOMAIN q /\ Head(q) = q[1]
        BY <4>2, <4>3, EmptySeq
      <4> QED
        BY <2>4, <4>1, <4>2, <4>3, <4>4 DEF AnswersTo
    <3>2. Service!Finish(s, Service!Outcome("answer", <<s, call[s]>>))
      BY <1>1, <2>1, <2>4, <3>1, EndIsFinish, OutcomesAgree
    <3> QED
      BY <1>1, <3>2 DEF Service!Compiled, Asking
  <2> QED
    BY <2>1, <2>2, <2>3, <2>4
<1> QED
  BY <1>2, <1>3

LEMMA CancelWaitImplements ==
    ASSUME TypeOK, NEW s \in Backends, CancelWait(s)
    PROVE  Service!IsCancelled(s)
<1>1. pc[s] = "wait" /\ interrupted[s] /\ call' = call /\ Ends(s, Cancelled)
  BY DEF CancelWait
<1>2. Service!Finish(s, Service!Outcome("cancelled", None))
  BY <1>1, EndIsFinish, OutcomesAgree
<1> QED
  BY <1>1, <1>2 DEF Service!IsCancelled, Asking

LEMMA InterruptImplements ==
    ASSUME NEW s \in Backends, Interrupt(s)
    PROVE  Service!Interrupt(s)
<1>1. Asking' = Asking /\ Asking[s]
  BY DEF Interrupt, Asking, clientVars
<1> QED
  BY <1>1 DEF Interrupt, clientVars, Service!Interrupt

\* The server, the supervisor, the peers and a session that ends are not seen.
LEMMA NotSeen ==
    ASSUME UNCHANGED <<pc, call, outcome, interrupted>>
    PROVE  UNCHANGED Service!vars
BY StillAsking

LEMMA StepImplements ==
    ASSUME ConnectionInv, [Next]_vars
    PROVE  [Service!Next]_(Service!vars)
<1>1. TypeOK
  BY DEF ConnectionInv
<1>2. ASSUME NEW s \in Backends, Call(s) \/ BackendStep(s) \/ Interrupt(s) \/ Exit(s)
      PROVE  [Service!Next]_(Service!vars)
  <2>1. CASE BackendStep(s)
    <3>1. \/ Service!Compiled(s) \/ Service!Fails(s) \/ Service!IsCancelled(s)
          \/ UNCHANGED Service!vars
      BY <1>1, <2>1, ensure_connectionImplements, HandshakeImplements, SendRequestImplements,
         ReceiveImplements, CancelWaitImplements DEF BackendStep
    <3> QED
      BY <3>1 DEF Service!Next
  <2>2. CASE Exit(s)
    BY <2>2, NotSeen DEF Exit
  <2> QED
    BY <1>1, <1>2, <2>1, <2>2, CallAsks, InterruptImplements DEF Service!Next
<1>3. CASE ServerStep \/ PollQuiet \/ FinishJob \/ Crash
  <2>1. UNCHANGED <<clientVars, interrupted>>
    BY <1>3 DEF ServerStep, Listen, Accept, Greet, Serve, PollReads, PollQuiet, FinishJob, Crash, others
  <2> QED
    BY <2>1, NotSeen DEF clientVars
<1>4. CASE SupervisorStep \/ Signal
  <2>1. UNCHANGED <<clientVars, interrupted>>
    BY <1>4, Zenon DEF SupervisorStep, ServeReload, ServeTerminate, Idle, Launch, Woken, Reap, Signal, rest
  <2> QED
    BY <2>1, NotSeen DEF clientVars
<1>5. ASSUME NEW p \in Peers, PeerConnect(p) \/ PeerClose(p)
      PROVE  [Service!Next]_(Service!vars)
  BY <1>5, NotSeen DEF PeerConnect, PeerClose
<1>6. CASE UNCHANGED vars
  BY <1>6, NotSeen DEF vars, clientVars
<1> QED
  BY <1>2, <1>3, <1>4, <1>5, <1>6 DEF Next

\* Whatever the sockets, the server and the supervisor do, a caller of
\* kcmcp_compile sees the service: its call ends at most once, with the
\* compilation of its own problem, a failure, or the interruption it was sent
\* (kcmcp_client.cpp; nothing there compares the identifiers of the protocol).
THEOREM ImplementsService == Spec => ServiceSpec
<1>1. Init => Service!Init
  <2> SUFFICES ASSUME Init
               PROVE  Service!Init
    OBVIOUS
  <2>1. Asking = [s \in Backends |-> FALSE]
    BY DEF Init, Asking
  <2> QED
    BY <2>1 DEF Init, Service!Init
<1>2. ConnectionInv /\ [Next]_vars => [Service!Next]_(Service!vars)
  BY StepImplements
<1> QED
  BY <1>1, <1>2, ConnectionInvariant, PTL DEF Spec, ServiceSpec, Service!Spec
=============================================================================
