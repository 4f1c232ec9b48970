--------------------------- MODULE CompileService ---------------------------
(***************************************************************************)
(* What the caller of kcmcp_compile relies on, whatever the connection,    *)
(* the server and the supervisor do: each call of a session ends at most   *)
(* once, with the compilation of the problem of that very call, with an    *)
(* exception after which the caller tries another tool, or, if the         *)
(* statement was interrupted, with the interruption.                       *)
(***************************************************************************)
EXTENDS Naturals

CONSTANTS Backends, MaxCalls, None

VARIABLES asking, call, outcome, interrupted
vars == <<asking, call, outcome, interrupted>>

Init ==
    /\ asking = [s \in Backends |-> FALSE]
    /\ call = [s \in Backends |-> 0]
    /\ outcome = [s \in Backends |-> None]
    /\ interrupted = [s \in Backends |-> FALSE]

Outcome(kind, p) == [kind |-> kind, of |-> p]

Finish(s, o) ==
    /\ asking' = [asking EXCEPT ![s] = FALSE]
    /\ outcome' = [outcome EXCEPT ![s] = o]
    /\ interrupted' = [interrupted EXCEPT ![s] = FALSE]

Ask(s) ==
    /\ ~asking[s] /\ call[s] < MaxCalls[s]
    /\ call' = [call EXCEPT ![s] = @ + 1]
    /\ \/ /\ asking' = [asking EXCEPT ![s] = TRUE]
          /\ outcome' = [outcome EXCEPT ![s] = None]
          /\ UNCHANGED interrupted
       \/ Finish(s, Outcome("failed", None))

Compiled(s) == asking[s] /\ Finish(s, Outcome("answer", <<s, call[s]>>)) /\ UNCHANGED call
Fails(s) == asking[s] /\ Finish(s, Outcome("failed", None)) /\ UNCHANGED call
IsCancelled(s) ==
    /\ asking[s] /\ interrupted[s]
    /\ Finish(s, Outcome("cancelled", None)) /\ UNCHANGED call
Interrupt(s) ==
    /\ asking[s]
    /\ interrupted' = [interrupted EXCEPT ![s] = TRUE]
    /\ UNCHANGED <<asking, call, outcome>>

Next == \E s \in Backends :
            Ask(s) \/ Compiled(s) \/ Fails(s) \/ IsCancelled(s) \/ Interrupt(s)

Spec == Init /\ [][Next]_vars
=============================================================================
