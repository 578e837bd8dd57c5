---------------------------- MODULE TunnelGuest ----------------------------
(***************************************************************************)
(* One exported socket of the virtualizer component, `VTcp` of             *)
(* rust/tls-virt-guest/src/lib.rs, with its connect calls and the tasks    *)
(* they leave behind.                                                      *)
(*                                                                         *)
(* The component is single-threaded: a call is only interrupted where it   *)
(* awaits.  connect is async and borrows the socket until it returns, so   *)
(* several connects may be in flight but the socket is not dropped under   *)
(* them; a caller that gives up cancels the call at its await, where the   *)
(* future is destroyed with what it holds.  Each connect to a handle that succeeds makes a tunnel, named by  *)
(* its call, with a splice task that outlives the call and, if it has to,  *)
(* the socket.                                                             *)
(*                                                                         *)
(* The connector at the other end of the pipe is a TlsPump: it reads the   *)
(* pipe to its end and resolves send_done ok, or gives up, drops its end   *)
(* and resolves it with an error.                                          *)
(***************************************************************************)
EXTENDS Naturals, Sequences

CONSTANTS
  CHUNK,     \* most units one read of the splice returns
  MaxCalls,  \* bound: connect calls
  MaxData    \* bound: units the application writes on one tunnel

ASSUME TunnelAssumption ==
  CHUNK \in Nat \ {0} /\ MaxCalls \in Nat /\ MaxData \in Nat

VARIABLES
  state,   \* TcpState: "host", "busy" or "tunnel"; "dropped" after the socket
  tunnel,  \* the tunnel in state (0: none)
  native,  \* the host socket: "fresh", "connected", "closed" or "gone"
  calls,   \* where each connect call stands
  tun      \* per call, the tunnel it made

sock == <<state, tunnel, native>>
vars == <<sock, calls, tun>>

Calls == 1..MaxCalls

NoTunnel ==
  [tx        |-> "none",   \* app_stream_tx: "held" by the socket, "sent", "gone"
   cleartext |-> "none",   \* the receive pair: "held", "taken", "gone"
   pc        |-> "none",   \* splice task
   last      |-> FALSE,    \* its last read said the stream was dropped
   app       |-> <<>>,     \* units the application offers on its stream
   open      |-> FALSE,    \* the application holds its end of the stream
   taken     |-> <<>>,     \* history: units the splice has read
   buf       |-> <<>>,     \* units write_all has not handed over yet
   piped     |-> <<>>,     \* history: units the connector has read
   writer    |-> FALSE,    \* the pipe's writer is alive
   reader    |-> FALSE,    \* the connector's end of the pipe is alive
   send_done |-> "pending",
   verdict   |-> "pending"]

NewTunnel ==
  [NoTunnel EXCEPT !.tx = "held", !.cleartext = "held", !.pc = "waiting",
                   !.writer = TRUE, !.reader = TRUE]

Init ==
  /\ state = "host" /\ tunnel = 0 /\ native = "fresh"
  /\ calls = <<>>
  /\ tun = [c \in Calls |-> NoTunnel]

InFlight(c) == c \in DOMAIN calls /\ calls[c] \in {"plain", "dial", "tls"}

\* The value in state goes, and with it what a tunnel in it still holds.
Released ==
  [c \in Calls |->
     IF c # tunnel THEN tun[c]
     ELSE [tun[c] EXCEPT !.tx = IF @ = "held" THEN "gone" ELSE @,
                         !.cleartext = IF @ = "held" THEN "gone" ELSE @]]

-----------------------------------------------------------------------------
(* connect *)

\* Mutant: the state that was replaced by Busy is not put back.
ConnectPlainForgets ==
  /\ state # "dropped" /\ Len(calls) < MaxCalls
  /\ state' = "busy" /\ tunnel' = 0
  /\ calls' = Append(calls, IF state = "host" THEN "plain" ELSE "err")
  /\ tun' = Released
  /\ UNCHANGED native

\* To an ordinary address: the host socket is taken out for the await.  From
\* any other state the call is refused and the state put back.
ConnectPlain ==
  /\ state # "dropped" /\ Len(calls) < MaxCalls
  /\ state' = IF state = "host" THEN "busy" ELSE state
  /\ calls' = Append(calls, IF state = "host" THEN "plain" ELSE "err")
  /\ UNCHANGED <<tunnel, native, tun>>

\* The host's connect returns; the socket is put back over whatever is there.
PlainDone(c, up) ==
  /\ InFlight(c) /\ calls[c] = "plain"
  /\ up => native = "fresh"
  /\ native' = IF up THEN "connected" ELSE IF native = "fresh" THEN "closed" ELSE native
  /\ calls' = [calls EXCEPT ![c] = IF up THEN "ok" ELSE "err"]
  /\ state' = "host" /\ tunnel' = 0
  /\ tun' = Released

\* The caller cancels a connect at its await.  One to an ordinary address takes
\* the host socket with it, and what it left in state stays there; one to a
\* handle takes only the socket and the connector it made for itself.
Cancelled(c) ==
  /\ InFlight(c)
  /\ calls' = [calls EXCEPT ![c] = "cancelled"]
  /\ native' = IF calls[c] = "plain" THEN "gone" ELSE native
  /\ UNCHANGED <<state, tunnel, tun>>

\* To a handle: a host socket of its own is made and connected.  The state of
\* this socket is not looked at.
ConnectHandle ==
  /\ state # "dropped" /\ Len(calls) < MaxCalls
  /\ calls' = Append(calls, "dial")
  /\ UNCHANGED <<sock, tun>>

Dialed(c, up) ==
  /\ InFlight(c) /\ calls[c] = "dial"
  /\ calls' = [calls EXCEPT ![c] = IF up THEN "tls" ELSE "err"]
  /\ UNCHANGED <<sock, tun>>

HandshakeFailed(c) ==
  /\ InFlight(c) /\ calls[c] = "tls"
  /\ calls' = [calls EXCEPT ![c] = "err"]
  /\ UNCHANGED <<sock, tun>>

\* The tasks are spawned and the tunnel replaces whatever is in state.
Tunneled(c) ==
  /\ InFlight(c) /\ calls[c] = "tls"
  /\ calls' = [calls EXCEPT ![c] = "ok"]
  /\ state' = "tunnel" /\ tunnel' = c
  /\ tun' = [Released EXCEPT ![c] = NewTunnel]
  /\ UNCHANGED native

-----------------------------------------------------------------------------
(* send, receive and drop; on a host socket send and receive delegate, and *)
(* on a busy socket or a second time they answer invalid-state.            *)

Send ==
  /\ state = "tunnel" /\ tun[tunnel].tx = "held"
  /\ tun' = [tun EXCEPT ![tunnel].tx = "sent", ![tunnel].open = TRUE]
  /\ UNCHANGED <<sock, calls>>

Receive ==
  /\ state = "tunnel" /\ tun[tunnel].cleartext = "held"
  /\ tun' = [tun EXCEPT ![tunnel].cleartext = "taken"]
  /\ UNCHANGED <<sock, calls>>

DropSocket ==
  /\ state # "dropped"
  /\ \A c \in DOMAIN calls : ~InFlight(c)
  /\ state' = "dropped" /\ tunnel' = 0
  /\ tun' = Released
  /\ UNCHANGED <<native, calls>>

-----------------------------------------------------------------------------
(* The application at its end of the transmit stream. *)

SpliceReads(c) == tun[c].pc \in {"waiting", "read", "write"}

AppWrite(c) ==
  /\ tun[c].open /\ SpliceReads(c)
  /\ Len(tun[c].taken \o tun[c].app) < MaxData
  /\ tun' = [tun EXCEPT ![c].app = Append(@, Len(tun[c].taken \o @) + 1)]
  /\ UNCHANGED <<sock, calls>>

\* The stream is dropped; a write still pending is cancelled first.
AppClose(c) ==
  /\ tun[c].open
  /\ tun' = [tun EXCEPT ![c].open = FALSE, ![c].app = <<>>]
  /\ UNCHANGED <<sock, calls>>

-----------------------------------------------------------------------------
(* The splice task. *)

\* The oneshot delivers the stream `send` was given.
SpliceStart(c) ==
  /\ tun[c].pc = "waiting" /\ tun[c].tx = "sent"
  /\ tun' = [tun EXCEPT ![c].pc = "read"]
  /\ UNCHANGED <<sock, calls>>

\* Mutant: the pipe's writer is kept when there is no stream to splice.
SpliceUnclaimedKept(c) ==
  /\ tun[c].pc = "waiting" /\ tun[c].tx = "gone"
  /\ tun' = [tun EXCEPT ![c].pc = "settle"]
  /\ UNCHANGED <<sock, calls>>

\* The oneshot was dropped with the tunnel: the pipe's writer is dropped.
SpliceUnclaimed(c) ==
  /\ tun[c].pc = "waiting" /\ tun[c].tx = "gone"
  /\ tun' = [tun EXCEPT ![c].pc = "settle", ![c].writer = FALSE]
  /\ UNCHANGED <<sock, calls>>

\* A read returns n units; the application may close in the same event.
SpliceRead(c, n, closes) ==
  /\ tun[c].pc = "read" /\ n <= Len(tun[c].app)
  /\ closes => n = Len(tun[c].app)
  /\ tun' = [tun EXCEPT
       ![c].pc = "write", ![c].last = closes,
       ![c].open = @ /\ ~closes,
       ![c].buf = SubSeq(tun[c].app, 1, n),
       ![c].taken = @ \o SubSeq(tun[c].app, 1, n),
       ![c].app = SubSeq(@, n + 1, Len(@))]
  /\ UNCHANGED <<sock, calls>>

\* splice returns: both of its ends are dropped.
SpliceReturns(c) ==
  tun' = [tun EXCEPT ![c].pc = "settle", ![c].writer = FALSE, ![c].buf = <<>>,
                     ![c].app = <<>>]

\* Mutant: write in place of write_all, the leftover not looked at.
SpliceWrittenPartly(c) ==
  /\ tun[c].pc = "write"
  /\ IF tun[c].last THEN SpliceReturns(c)
     ELSE tun' = [tun EXCEPT ![c].pc = "read", ![c].buf = <<>>]
  /\ UNCHANGED <<sock, calls>>

\* write_all returns with nothing left over.
SpliceWritten(c) ==
  /\ tun[c].pc = "write" /\ tun[c].buf = <<>>
  /\ IF tun[c].last THEN SpliceReturns(c)
     ELSE tun' = [tun EXCEPT ![c].pc = "read"]
  /\ UNCHANGED <<sock, calls>>

\* write_all returns a leftover: the connector dropped its end of the pipe.
SpliceLeftover(c) ==
  /\ tun[c].pc = "write" /\ tun[c].buf # <<>> /\ ~tun[c].reader
  /\ SpliceReturns(c)
  /\ UNCHANGED <<sock, calls>>

\* The read returns nothing: the application dropped its end.
SpliceEof(c) ==
  /\ tun[c].pc = "read" /\ ~tun[c].open
  /\ SpliceReturns(c)
  /\ UNCHANGED <<sock, calls>>

\* send_done resolves and its outcome becomes the socket's send verdict.
SpliceVerdict(c) ==
  /\ tun[c].pc = "settle" /\ tun[c].send_done # "pending"
  /\ tun' = [tun EXCEPT
       ![c].pc = "done",
       ![c].verdict = IF tun[c].send_done = "ok" THEN "ok" ELSE "connection-reset"]
  /\ UNCHANGED <<sock, calls>>

Splice(c) ==
  \/ SpliceStart(c) \/ SpliceUnclaimed(c)
  \/ \E n \in 1..CHUNK, closes \in BOOLEAN : SpliceRead(c, n, closes)
  \/ SpliceWritten(c) \/ SpliceLeftover(c) \/ SpliceEof(c) \/ SpliceVerdict(c)

-----------------------------------------------------------------------------
(* The connector's writer task at the other end of the pipe. *)

PumpRead(c) ==
  /\ tun[c].reader /\ tun[c].buf # <<>>
  /\ tun' = [tun EXCEPT ![c].piped = Append(@, Head(tun[c].buf)), ![c].buf = Tail(@)]
  /\ UNCHANGED <<sock, calls>>

PumpEof(c) ==
  /\ tun[c].reader /\ ~tun[c].writer
  /\ tun' = [tun EXCEPT ![c].reader = FALSE, ![c].send_done = "ok"]
  /\ UNCHANGED <<sock, calls>>

PumpFails(c) ==
  /\ tun[c].reader
  /\ tun' = [tun EXCEPT ![c].reader = FALSE, ![c].send_done = "err"]
  /\ UNCHANGED <<sock, calls>>

-----------------------------------------------------------------------------
ConnectMoves(c) ==
  \/ \E up \in BOOLEAN : PlainDone(c, up) \/ Dialed(c, up)
  \/ HandshakeFailed(c) \/ Tunneled(c)

Next ==
  \/ ConnectPlain \/ ConnectHandle
  \/ Send \/ Receive \/ DropSocket
  \/ \E c \in Calls :
       \/ ConnectMoves(c) \/ Cancelled(c)
       \/ AppWrite(c) \/ AppClose(c)
       \/ Splice(c)
       \/ PumpRead(c) \/ PumpEof(c) \/ PumpFails(c)

Spec == Init /\ [][Next]_vars

(* The executor polls woken tasks, the connector's writer always reads on    *)
(* (see TlsPump) and the host's calls return.  Nobody is obliged to call     *)
(* send, to write, to close or to drop.                                      *)
FairSpec ==
  /\ Spec
  /\ \A c \in Calls :
       /\ WF_vars(ConnectMoves(c))
       /\ WF_vars(Splice(c))
       /\ WF_vars(PumpRead(c) \/ PumpEof(c))

-----------------------------------------------------------------------------
(* Properties *)

\* Whatever connects were refused, overlapped or were cancelled, the socket is
\* busy only under a connect to an ordinary address or after one that was
\* cancelled at its await, which takes the host socket with it: then it never
\* answers as a host socket again.  A tunnel in state is one whose connect
\* returned ok (connect in tls-virt-guest/src/lib.rs, the replace by Busy and
\* the two assignments that undo it).
SocketAnswers ==
  /\ state = "busy" => native = "gone" \/ \E c \in DOMAIN calls : calls[c] = "plain"
  /\ native = "gone" => /\ state # "host"
                        /\ \E c \in DOMAIN calls : calls[c] = "cancelled"
  /\ state = "tunnel" <=> tunnel # 0
  /\ state = "tunnel" => calls[tunnel] = "ok"

\* What the application wrote is spliced once and in order, and a send
\* verdict ok means that the connector read all of it and then the end the
\* application itself put there.
SendVerdictEarned ==
  \A c \in Calls :
    /\ tun[c].pc # "settle" /\ tun[c].pc # "done" =>
         tun[c].piped \o tun[c].buf = tun[c].taken
    /\ tun[c].verdict = "ok" => tun[c].piped = tun[c].taken /\ ~tun[c].open

\* The send direction of every tunnel ends, with close_notify or an error,
\* once the application closed its stream or nobody can call send any more:
\* the socket was dropped, or another connect took the tunnel's place.
SendDirectionEnds ==
  \A c \in Calls :
    (tun[c].tx = "gone" \/ (tun[c].tx = "sent" /\ ~tun[c].open))
      ~> ~tun[c].writer /\ tun[c].verdict # "pending"
=============================================================================
