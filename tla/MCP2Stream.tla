----------------------------- MODULE MCP2Stream -----------------------------
(***************************************************************************)
(* The two directions of a WASI 0.2 tunnel for TLC.  They share no state:  *)
(* finish_connect splits the TLS connection and each half has its own      *)
(* mutex, so a behaviour of both is any merge of one of each, and what a   *)
(* direction does while the other stands still is all it can do.  A        *)
(* behaviour here is one direction's, chosen at the start.                 *)
(***************************************************************************)
EXTENDS P2Write

CONSTANT MaxUnits

VARIABLES
  dir,    \* "send" or "receive"
  rhalf, rbuf, rstate, rgpc, arrived, ending, pulled, taken, seen,
  closedRead, cancelled

Reading == INSTANCE P2Read WITH
  half <- rhalf, buf <- rbuf, state <- rstate, gpc <- rgpc

readVars == <<rhalf, rbuf, rstate, rgpc, arrived, ending, pulled, taken, seen,
              closedRead, cancelled>>
streamVars == <<dir, vars, readVars>>

StreamInit == dir \in {"send", "receive"} /\ Init /\ Reading!Init

Sends(A) == dir = "send" /\ A /\ UNCHANGED <<dir, readVars>>
Receives(A) == dir = "receive" /\ A /\ UNCHANGED <<dir, vars>>

StreamNext == Sends(Next) \/ Receives(Reading!Next)

\* The fairness of P2Write and of P2Read.
StreamSpec ==
  /\ StreamInit /\ [][StreamNext]_streamVars
  /\ WF_streamVars(Sends(Task)) /\ WF_streamVars(Sends(GuestRuns))
  /\ WF_streamVars(Receives(\E n \in 1..CHUNK : Reading!Read(n)))
  /\ WF_streamVars(Receives(Reading!PollBegin))
  /\ WF_streamVars(Receives(Reading!Poll))

\* The receive direction implements Pipe (P2Read).
ReadImplementsPipe == Reading!ImplementsPipe

\* A guest that polls and reads is given what arrived (P2Read).
ReadDelivered == Reading!Delivered
=============================================================================
