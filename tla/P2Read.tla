------------------------------- MODULE P2Read -------------------------------
(***************************************************************************)
(* The receive direction of a WASI 0.2 tunnel: the slot a tunnel socket    *)
(* shares with the guest's input stream (ReadSlot, TlsInputStream and      *)
(* close_read in rust/tls-virt-wasmtime/src/p2.rs).                        *)
(*                                                                         *)
(* A guest call is one locked section.  Pollable::ready is two, with the   *)
(* TLS read awaited between them: it takes the read half out of the slot   *)
(* and puts it back when the read returns.  The guest is suspended in      *)
(* wasi:io/poll meanwhile, and poll drops the future when another pollable *)
(* of the same call is ready first.  The network delivers independently.   *)
(***************************************************************************)
EXTENDS P2Chunk

CONSTANT
  MaxUnits   \* bound: units of application data the peer sends

VARIABLES
  half,       \* the TLS read half: in the "slot", in "ready", or "dropped"
  buf,        \* ReadSlot.buf
  state,      \* ReadSlot.state: "open", "closed", "failed"
  gpc,        \* guest: "idle", or "polling" inside Pollable::ready
  arrived,    \* units of application data that reached the TLS connection
  ending,     \* how the peer ended: "none", "notify", "reset"
  pulled,     \* history: units the half has handed out
  taken,      \* history: what the guest has read
  seen,       \* history: the end the guest was told of
  closedRead, \* history: the guest shut its receive direction down
  cancelled   \* history: a poll was dropped while it held the half

slot == <<half, buf, state>>
net  == <<arrived, ending>>
hist == <<pulled, taken, seen, closedRead, cancelled>>
vars == <<slot, gpc, net, hist>>

Units(k, n) == [i \in 1..n |-> k + i]

\* finish_connect fills the slot with the half of a fresh connection.
Init ==
  /\ half = "slot" /\ buf = <<>> /\ state = "open"
  /\ gpc = "idle"
  /\ arrived = 0 /\ ending = "none"
  /\ pulled = 0 /\ taken = <<>> /\ seen = "none"
  /\ closedRead = FALSE /\ cancelled = FALSE

-----------------------------------------------------------------------------
(* The peer and the network. *)

Arrive ==
  /\ ending = "none" /\ arrived < MaxUnits
  /\ arrived' = arrived + 1
  /\ UNCHANGED <<slot, gpc, ending, hist>>

\* close_notify, or a transport end without one.
PeerEnds(how) ==
  /\ ending = "none"
  /\ ending' = how
  /\ UNCHANGED <<slot, gpc, arrived, hist>>

-----------------------------------------------------------------------------
(* The guest. *)

\* InputStream::read: buffered bytes first, then the state.  A read of an
\* empty open stream returns nothing.
Read(n) ==
  /\ gpc = "idle" /\ seen = "none"
  /\ \/ /\ buf # <<>> /\ n <= Len(buf)
        /\ taken' = taken \o SubSeq(buf, 1, n)
        /\ buf' = SubSeq(buf, n + 1, Len(buf))
        /\ UNCHANGED seen
     \/ /\ buf = <<>> /\ state # "open"
        /\ seen' = state
        /\ UNCHANGED <<buf, taken>>
  /\ UNCHANGED <<half, state, gpc, net, pulled, closedRead, cancelled>>

\* ready with nothing buffered: the half leaves the slot for the read.
PollBegin ==
  /\ gpc = "idle"
  /\ buf = <<>> /\ state = "open" /\ half = "slot"
  /\ half' = "ready"
  /\ gpc' = "polling"
  /\ UNCHANGED <<buf, state, net, hist>>

\* Mutant: the whole read buffer is kept, not the n units that were read.
PollDataWhole(n) ==
  /\ gpc = "polling" /\ pulled + n <= arrived
  /\ buf' = buf \o Units(pulled, CHUNK)
  /\ pulled' = pulled + n
  /\ half' = "slot"
  /\ gpc' = "idle"
  /\ UNCHANGED <<state, net, taken, seen, closedRead, cancelled>>

\* The read returns n units: buffer them and put the half back.
PollData(n) ==
  /\ gpc = "polling" /\ pulled + n <= arrived
  /\ buf' = buf \o Units(pulled, n)
  /\ pulled' = pulled + n
  /\ half' = "slot"
  /\ gpc' = "idle"
  /\ UNCHANGED <<state, net, taken, seen, closedRead, cancelled>>

\* Mutant: the end is not recorded.
PollEndSilent ==
  /\ gpc = "polling" /\ pulled = arrived /\ ending # "none"
  /\ half' = "dropped"
  /\ gpc' = "idle"
  /\ UNCHANGED <<buf, state, net, hist>>

\* The read returns 0 after close_notify or an error otherwise; rustls hands
\* out what was decrypted before.  The half is dropped with the future.
PollEnd ==
  /\ gpc = "polling" /\ pulled = arrived /\ ending # "none"
  /\ state' = IF ending = "notify" THEN "closed" ELSE "failed"
  /\ half' = "dropped"
  /\ gpc' = "idle"
  /\ UNCHANGED <<buf, net, hist>>

\* Another pollable of the same poll call was ready: the future is dropped
\* and the half it holds with it.
PollCancel ==
  /\ gpc = "polling"
  /\ half' = "dropped"
  /\ gpc' = "idle"
  /\ cancelled' = TRUE
  /\ UNCHANGED <<buf, state, net, pulled, taken, seen, closedRead>>

\* close_read, from shutdown(receive) or shutdown(both).
CloseRead ==
  /\ gpc = "idle"
  /\ half' = "dropped"
  /\ buf' = <<>>
  /\ state' = IF state = "open" THEN "closed" ELSE state
  /\ closedRead' = TRUE
  /\ UNCHANGED <<gpc, net, pulled, taken, seen, cancelled>>

-----------------------------------------------------------------------------
Poll == PollEnd \/ \E n \in 1..CHUNK : PollData(n)

Next ==
  \/ Arrive \/ \E how \in {"notify", "reset"} : PeerEnds(how)
  \/ \E n \in 1..CHUNK : Read(n)
  \/ PollBegin \/ Poll \/ PollCancel \/ CloseRead

Spec == Init /\ [][Next]_vars

(* A guest that wants data: it polls the stream and reads what is there,    *)
(* and the runtime completes a TLS read that can complete.  The guest need  *)
(* not close, the peer need not send or end.                                *)
FairSpec ==
  /\ Spec
  /\ WF_vars(\E n \in 1..CHUNK : Read(n))
  /\ WF_vars(PollBegin)
  /\ WF_vars(Poll)

-----------------------------------------------------------------------------
(* Properties *)

ReceivePipe == INSTANCE Pipe WITH
  sent  <- arrived,
  got   <- taken,
  ended <- ending = "notify",
  told  <- IF seen = "none" THEN "none"
           ELSE IF seen = "closed" THEN "clean" ELSE "cut",
  left  <- closedRead

\* Seen from the peer and the guest alone, the slot is a pipe: the half's trip
\* out of it and back loses and repeats nothing, a guest that did not close
\* the direction is told `closed` only after the peer's close_notify, and is
\* told of any end only when it has read all data sent before it.
ImplementsPipe == ReceivePipe!Spec

\* Whatever arrives, and then how the peer ended, is delivered to a guest
\* that polls and reads, as long as no poll was dropped.
Delivered ==
  /\ \A k \in 1..MaxUnits :
       arrived >= k ~> Len(taken) >= k \/ closedRead \/ cancelled
  /\ ending # "none" ~> seen # "none" \/ closedRead \/ cancelled

-----------------------------------------------------------------------------
(* The comment on ReadSlot.half: "Taken while an async read is in flight    *)
(* inside `ready`."                                                         *)

\* While the direction is open, the half is absent from the slot only during
\* a read; otherwise `ready` returns at once and `read` finds nothing, for
\* ever.
TakenOnlyInReady == state = "open" /\ half # "slot" => gpc = "polling"

=============================================================================
