--------------------------- MODULE MCPipeProtocol ---------------------------
(***************************************************************************)
(* PipeProtocol with a UUID of three bytes and a PIPE_BUF of four UUIDs:   *)
(* as in the real sizes (16 and 4096), the head of a gate creation leaves  *)
(* room for a part of the last UUID of the buffer.                         *)
(***************************************************************************)
EXTENDS PipeProtocol

CONSTANTS s1, s2

Call(op, n) == [op |-> op, n |-> n]

\* Creations that fit one write and that do not, requests with one and with
\* several reply units, with a tail in several writes, and the two requests
\* of one critical section.
MCRequests ==
    {Call("C", 1), Call("C", 2), Call("P", 0), Call("t", 0), Call("S", 0), Call("X", 5)}
MCCalls == [s \in Sessions |-> IF s = s1 THEN 2 ELSE 1]

SmallRecords == <<Call("C", 1), Call("P", 0)>>

=============================================================================
