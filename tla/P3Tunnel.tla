------------------------------ MODULE P3Tunnel ------------------------------
(***************************************************************************)
(* The WASI 0.3 provider of rust/tls-virt-wasmtime/src/main.rs: name       *)
(* lookup, and one socket with its connect calls, its entry in the side    *)
(* map `tunnels`, and the producer and consumer its streams are piped      *)
(* through.                                                                *)
(*                                                                         *)
(* Host calls run on the store; connect is async and borrows the socket    *)
(* until it returns, so connects may overlap but the socket is not dropped *)
(* under them.  The shutdown task runs on the tokio runtime.  A connection *)
(* is named by the call that made it and is split into halves, each of     *)
(* which is in the side map, with a stream or a task, or gone.             *)
(*                                                                         *)
(* tokio-rustls is external: a write is accepted into rustls's buffer and  *)
(* leaves for the transport only while a write or the shutdown is polled.  *)
(***************************************************************************)
EXTENDS HandleTable

CONSTANTS
  Answers,   \* what the host's resolver may answer
  SENDBUF,   \* units rustls buffers towards the transport
  MaxCalls,  \* bound: connect calls
  MaxSend,   \* bound: units the guest sends on a connection
  MaxRecv    \* bound: units the peer sends on a connection

ASSUME ProviderAssumption ==
  /\ Answers \subseteq Seq(RealAddrs)
  /\ SENDBUF \in Nat \ {0}
  /\ MaxCalls \in Nat /\ MaxSend \in Nat /\ MaxRecv \in Nat

VARIABLES
  table,     \* VirtCtx::names
  alive,     \* the socket exists
  entry,     \* the connection in tunnels under the socket's index (0: none)
  calls,     \* the connect calls: what they dial and where they stand
  approved,  \* history: calls the sandbox check allowed
  snd,       \* per connection, its send direction
  rcv        \* per connection, its receive direction

provider == <<table, alive, entry, calls, approved>>
vars == <<provider, snd, rcv>>

Calls == 1..MaxCalls
Close == 0    \* close_notify among the units on the wire

NoSend ==
  [half    |-> "none",   \* "map", "consumer", "shutdown" or "gone"
   open    |-> FALSE,    \* the guest holds its end of the stream
   src     |-> <<>>,     \* units of the guest's pending write
   took    |-> <<>>,     \* history: units marked read
   unsent  |-> <<>>,     \* accepted by rustls, not on the wire
   wire    |-> <<>>,     \* history: what the transport took
   result  |-> "none",   \* the verdict's sender: "held" by the consumer, "taken"
   verdict |-> "pending"]

NoReceive ==
  [half    |-> "none",   \* "map", "producer" or "gone"
   inq     |-> <<>>,     \* decrypted or arriving, not read
   sent    |-> 0,        \* history: units the peer sent
   ending  |-> "none",   \* "notify": close_notify; "cut": without it
   got     |-> <<>>,     \* history: units the guest was given
   verdict |-> "pending"]

Init ==
  /\ table = EmptyTable
  /\ alive = TRUE /\ entry = 0
  /\ calls = <<>> /\ approved = {}
  /\ snd = [c \in Calls |-> NoSend]
  /\ rcv = [c \in Calls |-> NoReceive]

-----------------------------------------------------------------------------
(* resolve_addresses of an opted-in name; others delegate, and so does the *)
(* lookup itself.  An empty answer is name-unresolvable.                   *)

ResolveAddresses(name, addrs, h) ==
  /\ addrs # <<>> /\ h \in Fresh(table)
  /\ table' = Mint(table, h, [hostname |-> name, addrs |-> addrs])
  /\ UNCHANGED <<alive, entry, calls, approved, snd, rcv>>

-----------------------------------------------------------------------------
(* connect *)

Pc(c, pc) == c \in DOMAIN calls /\ calls[c].pc = pc

Goes(c, pc) == calls' = [calls EXCEPT ![c].pc = pc]

InFlight(c) == \E pc \in {"check", "dial", "tls"} : Pc(c, pc)

\* Mutant: the first address, also when the name has an IPv6 one.
ConnectFirst(h) ==
  /\ alive /\ Len(calls) < MaxCalls /\ IsHandle(table, h)
  /\ calls' = Append(calls, [pc |-> "check", remote |-> h,
                             name |-> table[h].hostname, addr |-> table[h].addrs[1]])
  /\ UNCHANGED <<table, alive, entry, approved, snd, rcv>>

\* connect to a handle; to any other address it delegates.
Connect(h) ==
  /\ alive /\ Len(calls) < MaxCalls /\ IsHandle(table, h)
  /\ calls' = Append(calls, [pc |-> "check", remote |-> h,
                             name |-> table[h].hostname,
                             addr |-> PickAddr(table[h].addrs)])
  /\ UNCHANGED <<table, alive, entry, approved, snd, rcv>>

Checked(c, allow) ==
  /\ Pc(c, "check")
  /\ Goes(c, IF allow THEN "dial" ELSE "err")
  /\ approved' = IF allow THEN approved \cup {c} ELSE approved
  /\ UNCHANGED <<table, alive, entry, snd, rcv>>

Dialed(c, up) ==
  /\ Pc(c, "dial")
  /\ Goes(c, IF up THEN "tls" ELSE "err")
  /\ UNCHANGED <<table, alive, entry, approved, snd, rcv>>

\* The server name is refused or the handshake fails.
HandshakeFailed(c) ==
  /\ Pc(c, "tls")
  /\ Goes(c, "err")
  /\ UNCHANGED <<table, alive, entry, approved, snd, rcv>>

\* The side-map entry goes, and with it the halves still in it.
Released(dirs) ==
  [c \in Calls |-> IF c = entry /\ dirs[c].half = "map"
                   THEN [dirs[c] EXCEPT !.half = "gone"] ELSE dirs[c]]

\* The connection is entered in the side map in place of any other.
Connected(c) ==
  /\ Pc(c, "tls")
  /\ Goes(c, "ok")
  /\ entry' = c
  /\ snd' = [Released(snd) EXCEPT ![c].half = "map"]
  /\ rcv' = [Released(rcv) EXCEPT ![c].half = "map"]
  /\ UNCHANGED <<table, alive, approved>>

DropSocket ==
  /\ alive /\ \A c \in Calls : ~InFlight(c)
  /\ alive' = FALSE
  /\ entry' = 0
  /\ snd' = Released(snd)
  /\ rcv' = Released(rcv)
  /\ UNCHANGED <<table, calls, approved>>

-----------------------------------------------------------------------------
(* send and receive; without an entry they delegate, and once the half is  *)
(* taken they answer invalid-state.                                        *)

Send ==
  /\ alive /\ entry # 0 /\ snd[entry].half = "map"
  /\ snd' = [snd EXCEPT ![entry].half = "consumer", ![entry].open = TRUE,
                        ![entry].result = "held"]
  /\ UNCHANGED <<provider, rcv>>

Receive ==
  /\ alive /\ entry # 0 /\ rcv[entry].half = "map"
  /\ rcv' = [rcv EXCEPT ![entry].half = "producer"]
  /\ UNCHANGED <<provider, snd>>

-----------------------------------------------------------------------------
(* The guest at its ends of the streams. *)

GuestWrite(c) ==
  /\ snd[c].open /\ snd[c].half = "consumer"
  /\ Len(snd[c].took \o snd[c].src) < MaxSend
  /\ snd' = [snd EXCEPT ![c].src = Append(@, Len(snd[c].took \o @) + 1)]
  /\ UNCHANGED <<provider, rcv>>

\* A pending write is cancelled first: poll_consume with finish set.
GuestClose(c) ==
  /\ snd[c].open
  /\ snd' = [snd EXCEPT ![c].open = FALSE, ![c].src = <<>>]
  /\ UNCHANGED <<provider, rcv>>

\* The receive stream is dropped by the guest: the producer goes with its
\* half and, unused, the verdict's sender.
GuestDropsReceive(c) ==
  /\ rcv[c].half = "producer"
  /\ rcv' = [rcv EXCEPT ![c].half = "gone", ![c].verdict = "never"]
  /\ UNCHANGED <<provider, snd>>

-----------------------------------------------------------------------------
(* TlsSendConsumer *)

\* rustls accepts n units and the transport takes k.
Pass(dir, n, k) ==
  LET out == dir.unsent \o SubSeq(dir.src, 1, n)
  IN  [dir EXCEPT !.src = SubSeq(@, n + 1, Len(@)),
                  !.took = @ \o SubSeq(dir.src, 1, n),
                  !.wire = @ \o SubSeq(out, 1, k),
                  !.unsent = SubSeq(out, k + 1, Len(out))]

\* poll_consume: poll_write takes n units of the pending write and is ready,
\* or takes none and is pending because rustls's buffer is full.
PollConsume(c, n, k) ==
  /\ snd[c].half = "consumer" /\ snd[c].src # <<>>
  /\ n <= Len(snd[c].src) /\ Len(snd[c].unsent) + n <= SENDBUF
  /\ n = 0 => k > 0 /\ Len(snd[c].unsent) = SENDBUF
  /\ k <= Len(snd[c].unsent) + n
  /\ snd' = [snd EXCEPT ![c] = Pass(@, n, k)]
  /\ UNCHANGED <<provider, rcv>>

\* close(Err): the verdict is sent and the half dropped; so is the stream,
\* and the drop that follows finds no sender.
PollConsumeFails(c) ==
  /\ snd[c].half = "consumer" /\ snd[c].src # <<>>
  /\ snd' = [snd EXCEPT ![c].half = "gone", ![c].result = "taken",
                        ![c].verdict = "err", ![c].src = <<>>]
  /\ UNCHANGED <<provider, rcv>>

\* Mutant: the verdict does not wait for the shutdown.
ConsumerDropHasty(c) ==
  /\ snd[c].result = "held" /\ ~snd[c].open
  /\ snd' = [snd EXCEPT ![c].half = "gone", ![c].result = "taken", ![c].verdict = "ok"]
  /\ UNCHANGED <<provider, rcv>>

\* Mutant: no Drop impl.
ConsumerDropSilent(c) ==
  /\ snd[c].result = "held" /\ ~snd[c].open
  /\ snd' = [snd EXCEPT ![c].half = "gone", ![c].result = "taken"]
  /\ UNCHANGED <<provider, rcv>>

\* drop, when the guest's stream has ended: close(Ok) spawns the shutdown.
ConsumerDrop(c) ==
  /\ snd[c].result = "held" /\ ~snd[c].open
  /\ snd' = [snd EXCEPT ![c].half = "shutdown", ![c].result = "taken"]
  /\ UNCHANGED <<provider, rcv>>

\* The spawned task: what rustls still holds, close_notify, FIN, verdict.
ShutdownDrains(c, k) ==
  /\ snd[c].half = "shutdown" /\ k <= Len(snd[c].unsent)
  /\ snd' = [snd EXCEPT ![c] = Pass(@, 0, k)]
  /\ UNCHANGED <<provider, rcv>>

ShutdownDone(c) ==
  /\ snd[c].half = "shutdown" /\ snd[c].unsent = <<>>
  /\ snd' = [snd EXCEPT ![c].half = "gone", ![c].wire = Append(@, Close),
                        ![c].verdict = "ok"]
  /\ UNCHANGED <<provider, rcv>>

ShutdownFails(c) ==
  /\ snd[c].half = "shutdown"
  /\ snd' = [snd EXCEPT ![c].half = "gone", ![c].verdict = "err"]
  /\ UNCHANGED <<provider, rcv>>

-----------------------------------------------------------------------------
(* TlsReceiveProducer, and the peer. *)

PeerSends(c) ==
  /\ rcv[c].half \in {"map", "producer"} /\ rcv[c].ending = "none" /\ rcv[c].sent < MaxRecv
  /\ rcv' = [rcv EXCEPT ![c].sent = @ + 1, ![c].inq = Append(@, rcv[c].sent + 1)]
  /\ UNCHANGED <<provider, snd>>

PeerEnds(c, how) ==
  /\ rcv[c].half \in {"map", "producer"} /\ rcv[c].ending = "none"
  /\ rcv' = [rcv EXCEPT ![c].ending = how]
  /\ UNCHANGED <<provider, snd>>

\* poll_produce: a read returns n units, which go to the guest.
PollProduce(c, n) ==
  /\ rcv[c].half = "producer" /\ n <= Len(rcv[c].inq)
  /\ rcv' = [rcv EXCEPT ![c].got = @ \o SubSeq(rcv[c].inq, 1, n),
                        ![c].inq = SubSeq(@, n + 1, Len(@))]
  /\ UNCHANGED <<provider, snd>>

\* A read returns nothing after close_notify, and an error without it; the
\* stream is dropped after the verdict is sent.
ProduceEnd(c) ==
  /\ rcv[c].half = "producer" /\ rcv[c].inq = <<>> /\ rcv[c].ending # "none"
  /\ rcv' = [rcv EXCEPT
       ![c].half = "gone",
       ![c].verdict = IF rcv[c].ending = "notify" THEN "ok" ELSE "connection-reset"]
  /\ UNCHANGED <<provider, snd>>

-----------------------------------------------------------------------------
ConnectMoves(c) ==
  \/ \E b \in BOOLEAN : Checked(c, b) \/ Dialed(c, b)
  \/ HandshakeFailed(c) \/ Connected(c)

Consume(c) ==
  \/ \E n \in 0..MaxSend, k \in 0..MaxSend : PollConsume(c, n, k)
  \/ PollConsumeFails(c)

Shutdown(c) ==
  \/ \E k \in 1..MaxSend : ShutdownDrains(c, k)
  \/ ShutdownDone(c) \/ ShutdownFails(c)

Produce(c) ==
  \/ \E n \in 1..MaxRecv : PollProduce(c, n)
  \/ ProduceEnd(c)

Next ==
  \/ \E name \in Names, addrs \in Answers, h \in HandleSpace :
       ResolveAddresses(name, addrs, h)
  \/ \E h \in HandleSpace : Connect(h)
  \/ DropSocket \/ Send \/ Receive
  \/ \E c \in Calls :
       \/ ConnectMoves(c)
       \/ GuestWrite(c) \/ GuestClose(c) \/ GuestDropsReceive(c)
       \/ Consume(c) \/ ConsumerDrop(c) \/ Shutdown(c)
       \/ PeerSends(c) \/ Produce(c)
       \/ \E how \in {"notify", "cut"} : PeerEnds(c, how)

Spec == Init /\ [][Next]_vars

-----------------------------------------------------------------------------
(* Properties *)

\* The socket's tunnel is what the guest asked for: the newest connection
\* that was entered, made with the name behind the handle it dialed, at one
\* of the addresses the resolver answered for that name (an IPv6 one if
\* there is one), after the sandbox allowed it.
TunnelAsResolved ==
  entry # 0 =>
    LET call  == calls[entry]
        addrs == {table[call.remote].addrs[i] : i \in DOMAIN table[call.remote].addrs}
    IN  /\ alive /\ call.pc = "ok" /\ entry \in approved
        /\ call.name = table[call.remote].hostname
        /\ call.addr \in addrs
        /\ addrs \cap V6Addrs # {} => call.addr \in V6Addrs

SendVerdictEarned ==
  \A c \in Calls :
    /\ snd[c].half \in {"consumer", "shutdown"} =>
         snd[c].wire \o snd[c].unsent = snd[c].took
    /\ snd[c].verdict = "ok" => snd[c].wire = Append(snd[c].took, Close)

ReceiveVerdictEarned ==
  \A c \in Calls :
    /\ rcv[c].got \o rcv[c].inq = [i \in 1..rcv[c].sent |-> i]
    /\ rcv[c].verdict = "ok" => rcv[c].ending = "notify" /\ rcv[c].inq = <<>>

\* What the guest's stream gave up is on its way to the wire once and in
\* order, and a send verdict ok means that all of it and then close_notify
\* went out: a stream that ended, failed or was cancelled in the middle of a
\* write is not reported as sent.  And the guest is given what the peer sent,
\* in order; a receive verdict ok means that the peer ended it with
\* close_notify and the guest has it all.
VerdictsEarned == SendVerdictEarned /\ ReceiveVerdictEarned

\* Nobody waits for a verdict in vain: as long as one is owed, somebody is
\* left who will send it, also when the tunnel was replaced, the socket was
\* dropped or the consumer was dropped after an error.  (A guest that drops
\* its receive stream gives its verdict up; see "never".)
VerdictsOwed ==
  \A c \in Calls :
    /\ snd[c].result # "none" /\ snd[c].verdict = "pending" =>
         \/ snd[c].half = "consumer" /\ snd[c].result = "held"
         \/ snd[c].half = "shutdown"
    /\ rcv[c].ending # "none" /\ rcv[c].inq = <<>> /\ rcv[c].got # <<>> =>
         rcv[c].half = "producer" \/ rcv[c].verdict # "pending"
=============================================================================
