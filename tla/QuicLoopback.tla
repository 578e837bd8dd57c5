---------------------------- MODULE QuicLoopback ----------------------------
(***************************************************************************)
(* The QUIC rig (examples/quic-loopback/src/driver.rs, socket.rs, main.rs) *)
(* and its native mirror (bench/quic-native-bench/src/main.rs): a driver   *)
(* pumps a sans-IO noq-proto endpoint over one UDP socket, and a program   *)
(* pumps one or two drivers, looks at what arrived and waits.              *)
(*                                                                         *)
(* Four programs share the driver: the interop client and server, two      *)
(* processes; the loopback smoke test, the bench and the native bench, one *)
(* process that drives both ends.  `mode' says which one runs.             *)
(*                                                                         *)
(* noq-proto is external and reduced to what the driver can tell apart: a  *)
(* three-frame handshake, one stream each way with flow-control credit,    *)
(* retransmission of lost frames, idle timeout and close.  The network     *)
(* loses frames and, between the interop processes, may go dead.           *)
(*                                                                         *)
(* The interop server's socket is open to anyone, and its driver accepts   *)
(* every incoming connection: besides its client's there may be one of a   *)
(* foreign client, the guest.  Foreign datagrams reach the guest's own     *)
(* connection, so they are kept apart from those of the client.            *)
(***************************************************************************)
EXTENDS Naturals, Sequences, FiniteSets, SequencesExt

CONSTANTS
    Modes,    \* the programs to run, a subset of the four
    Payload,  \* stream chunks of an echo or a smoke test
    Bytes,    \* stream chunks of a bench transfer
    Window,   \* flow-control window, in chunks
    MaxFaults \* bound: datagrams lost, foreign datagrams and clients, flushes
              \* the socket cuts short, socket errors and the death of the
              \* path, together

ASSUME LoopbackAssumption ==
    /\ Modes \subseteq {"interop", "loopback", "bench", "native"} /\ Modes # {}
    /\ Payload \in Nat \ {0} /\ Bytes \in Nat \ {0}
    /\ Window \in Nat \ {0} /\ Payload <= Window
    /\ MaxFaults \in Nat

Side == {"client", "server"}
Peer(s) == IF s = "client" THEN "server" ELSE "client"

VARIABLES
    mode,      \* the program
    conn,      \* side -> the connection as noq-proto keeps it
    events,    \* side -> Driver.events
    outbound,  \* side -> Driver.outbound
    net,       \* side -> datagrams in the socket's receive queue
    lost,      \* side -> frames of its own that the network lost
    full,      \* side -> the socket accepts no more datagrams for now
    due,       \* side -> the timer that is due, or "none"
    made,      \* side -> every frame collected for sending, in order (history)
    handed,    \* side -> every frame the socket accepted, in order (history)
    told,      \* side -> every event of its own connection queued (history)
    guest,     \* the server driver's connection to a foreign client
    prog,      \* side -> its process: pc, phase, which driver is pumped next
    cut,       \* the path between the interop processes is dead
    late,      \* the stall guard's 30 seconds have passed
    faults     \* faults so far

driver == <<events, outbound, made, handed, told, full, guest>>
world == <<mode, cut, late>>
vars == <<conn, driver, net, lost, due, prog, faults, world>>

Fault == faults < MaxFaults /\ faults' = faults + 1

-----------------------------------------------------------------------------
(* noq-proto                                                               *)

Frame(t, n) == [t |-> t, n |-> n]
Frames(t, a, b) == [i \in 1..(b - a + 1) |-> Frame(t, a + i - 1)]

NoConnection ==
    [st |-> "none", up |-> FALSE, tx |-> <<>>, ev |-> <<>>,
     written |-> 0, finished |-> FALSE, credit |-> Window,
     got |-> {}, finAt |-> 0, owes |-> FALSE]

Loss == {"ApplicationClosed", "TimedOut"}
AnyLoss == Loss \cup {"GuestClosed", "GuestTimedOut"}

\* A frame reaches its connection, which owes an acknowledgement for the
\* stream's frames.
HandleEvent(s, c, f) ==
    CASE f.t = "hello" /\ s = "server" /\ c.st = "none" ->
           [c EXCEPT !.st = "open", !.tx = @ \o <<Frame("reply", 0)>>]
      [] f.t = "reply" /\ c.st = "open" /\ ~c.up ->
           [c EXCEPT !.up = TRUE, !.ev = Append(@, "Connected"),
                     !.tx = <<Frame("done", 0)>> \o @]
      [] f.t = "done" /\ c.st = "open" /\ ~c.up ->
           [c EXCEPT !.up = TRUE, !.ev = Append(@, "Connected"), !.owes = TRUE]
      [] f.t = "data" /\ c.st = "open" -> [c EXCEPT !.got = @ \cup {f.n}, !.owes = TRUE]
      [] f.t = "fin" /\ c.st = "open" -> [c EXCEPT !.finAt = f.n, !.owes = TRUE]
      [] f.t = "credit" /\ c.st = "open" ->
           [c EXCEPT !.credit = IF f.n > @ THEN f.n ELSE @, !.owes = TRUE]
      [] f.t = "close" /\ c.st = "open" ->
           [c EXCEPT !.st = "draining", !.tx = <<>>, !.ev = Append(@, "ApplicationClosed")]
      [] OTHER -> c

\* A due timer: lost frames go out again; an acknowledgement that nothing
\* carried goes out by itself; an idle connection is dropped on the
\* spot, a closed one once it has drained.
HandleTimeout(c, timer, again) ==
    CASE timer = "loss" /\ c.st = "open" -> [c EXCEPT !.tx = @ \o again]
      [] timer = "ack" /\ c.st = "open" /\ c.owes -> [c EXCEPT !.tx = Append(@, Frame("ack", 0))]
      [] timer = "idle" /\ c.st = "open" ->
           [c EXCEPT !.st = "drained", !.tx = <<>>, !.ev = Append(@, "TimedOut")]
      [] timer = "close" /\ c.st = "draining" -> [c EXCEPT !.st = "drained"]
      [] OTHER -> c

\* The chunks readable in order, and whether they are the whole stream.
Readable(c) == CHOOSE n \in 0..Cardinality(c.got) :
                 1..n \subseteq c.got /\ n + 1 \notin c.got
Finished(c) == c.finAt > 0 /\ Readable(c) = c.finAt

Write(c, n) ==
    [c EXCEPT !.tx = @ \o Frames("data", c.written + 1, c.written + n),
              !.written = @ + n]
Finish(c) == [c EXCEPT !.tx = Append(@, Frame("fin", c.written)), !.finished = TRUE]

-----------------------------------------------------------------------------
(* The guest: its connection, why it was lost, whether its stream has come  *)
(* to its end, its datagram in the socket's queue and what is sent to it.   *)

NoGuest == [st |-> "none", why |-> "none", asked |-> FALSE, frame |-> "none", tx |-> <<>>]

\* The guest's datagram reaches the endpoint, which accepts a connection for
\* it, or its connection; the timer is the guest's if it is due.
GuestHandled(g, timer) ==
    CASE g.frame = "hello" /\ g.st = "none" ->
           [g EXCEPT !.st = "open", !.tx = Append(@, Frame("stray", 0))]
      [] g.frame = "done" /\ g.st = "open" -> [g EXCEPT !.st = "up"]
      [] g.frame = "fin" /\ g.st = "up" -> [g EXCEPT !.asked = TRUE]
      [] g.frame = "close" /\ g.st = "up" -> [g EXCEPT !.st = "draining", !.why = "closed"]
      [] g.frame = "none" /\ timer = "guest" /\ g.st \in {"open", "up"} ->
           [g EXCEPT !.st = "gone", !.why = "timedout"]
      [] g.frame = "none" /\ timer = "guest" /\ g.st = "draining" -> [g EXCEPT !.st = "gone"]
      [] OTHER -> g

\* The events of the guest's connection, told apart by their handle.
GuestEvents(g, h) ==
    IF g.st = "open" /\ h.st = "up" THEN <<"GuestConnected">>
    ELSE IF g.why = h.why THEN <<>>
    ELSE IF h.why = "closed" THEN <<"GuestClosed">> ELSE <<"GuestTimedOut">>

-----------------------------------------------------------------------------
(* Driver::pump                                                            *)

present(c) == c.st \notin {"none", "gone"}

\* Receive: every queued datagram goes to the endpoint and on to its
\* connection; the endpoint may accept a connection or answer by itself.
HandleAll(s, c, queue) ==
    LET after[i \in 0..Len(queue)] ==
          IF i = 0 THEN c ELSE HandleEvent(s, after[i - 1], queue[i])
    IN  after[Len(queue)]
Receive(s) == HandleAll(s, conn[s], net[s])
GuestAfter(s) == IF s = "server" THEN GuestHandled(guest, due[s]) ELSE guest
GuestTells(s) == GuestEvents(guest, GuestAfter(s))
GuestSends(s) == IF s = "server" THEN GuestAfter(s).tx ELSE <<>>

\* What goes to others than the peer.
Responses(s) ==
    LET strays == {i \in 1..Len(net[s]) : net[s][i].t = "stray"}
    IN  [i \in 1..Cardinality(strays) |-> Frame("stray", 0)] \o GuestSends(s)

\* Mutant: a drained connection is removed before its events are taken.
CollectRemovesFirst(c) ==
    [conn |-> [c EXCEPT !.tx = <<>>, !.ev = <<>>, !.owes = @ /\ c.tx = <<>>,
                        !.st = IF @ = "drained" THEN "gone" ELSE @],
     transmits |-> c.tx,
     events |-> IF c.st = "drained" THEN <<>> ELSE c.ev]

\* Endpoint events, transmits and application events are taken out of the
\* connection; a drained one is removed when they have been.
Collect(c) ==
    [conn |-> [c EXCEPT !.tx = <<>>, !.ev = <<>>, !.owes = @ /\ c.tx = <<>>,
                        !.st = IF @ = "drained" THEN "gone" ELSE @],
     transmits |-> c.tx,
     events |-> c.ev]

\* Mutant: the whole batch is drained, however much of it was sent.
UnsentAfterAll(queue, sent) == IF sent = 0 THEN queue ELSE <<>>

\* The flush loop ends with the queue empty or the socket refusing: what it
\* accepted is a prefix, and the rest stays queued.
Unsent(queue, sent) == SubSeq(queue, sent + 1, Len(queue))

\* The native driver sends one datagram at a time until one would block.
NativeUnsent(queue, sent) == [i \in 1..(Len(queue) - sent) |-> queue[sent + i]]

OutboundAfter(s, c) == outbound[s] \o Responses(s) \o Collect(c).transmits

\* The socket takes what it permits of the batches it is offered until one
\* finds no room.
SocketSend(s, queue, sent) ==
    /\ sent <= Len(queue)
    /\ full[s] => sent = 0
    /\ IF sent < Len(queue) /\ ~full[s] THEN Fault ELSE UNCHANGED faults
    /\ full' = [full EXCEPT ![s] = sent < Len(queue)]

\* Of the datagrams the socket took, those addressed to the peer.
ToPeer(batch) ==
    LET sentTo[i \in 0..Len(batch)] ==
          IF i = 0 THEN <<>>
          ELSE IF batch[i].t = "stray" THEN sentTo[i - 1]
          ELSE Append(sentTo[i - 1], batch[i])
    IN  sentTo[Len(batch)]

\* One call of pump on side s, with the socket accepting `sent' datagrams.
\* The connections are visited in the hash map's order, whichever it is.
PumpDriver(s, sent) ==
    LET c     == HandleTimeout(Receive(s), due[s], lost[s])
        col   == Collect(c)
        queue == OutboundAfter(s, c)
        toPeer == ToPeer(SubSeq(queue, 1, sent))
    IN  /\ SocketSend(s, queue, sent)
        /\ conn' = [conn EXCEPT ![s] = col.conn]
        /\ \E new \in {col.events \o GuestTells(s), GuestTells(s) \o col.events} :
             events' = [events EXCEPT ![s] = @ \o new]
        /\ guest' = [GuestAfter(s) EXCEPT !.frame = IF s = "server" THEN "none" ELSE @,
                                          !.tx = IF s = "server" THEN <<>> ELSE @]
        /\ told' = [told EXCEPT ![s] = @ \o col.events]
        /\ outbound' = [outbound EXCEPT ![s] =
                          IF mode = "native" THEN NativeUnsent(queue, sent)
                                             ELSE Unsent(queue, sent)]
        /\ made' = [made EXCEPT ![s] = @ \o Responses(s) \o col.transmits]
        /\ handed' = [handed EXCEPT ![s] = @ \o SubSeq(queue, 1, sent)]
        /\ net' = [net EXCEPT ![s] = <<>>,
                              ![Peer(s)] = IF cut THEN @ ELSE @ \o toPeer]
        /\ lost' = [lost EXCEPT ![s] = IF due[s] = "loss" THEN <<>> ELSE @]
        /\ due' = [due EXCEPT ![s] = "none"]

\* A connection has a timer while it lasts; nothing else has one.
next_deadline(s) == present(conn[s]) \/ (s = "server" /\ present(guest))

\* The value pump returns: whether anything happened.
Moved(s, sent) ==
    LET c == HandleTimeout(Receive(s), due[s], lost[s])
    IN  \/ net[s] # <<>>
        \/ due[s] # "none" /\ next_deadline(s)
        \/ s = "server" /\ (guest.frame # "none" \/ guest.tx # <<>>)
        \/ c.tx # <<>> \/ c.ev # <<>> \/ c.st = "drained"
        \/ sent > 0

\* More than the queue can hold at the flush.
MaxQueue(s) ==
    Len(outbound[s]) + Len(net[s]) + Len(conn[s].tx) + Len(lost[s]) + Len(net[s])
      + Len(guest.tx) + 2

has_outbound(s) == outbound[s] # <<>>

-----------------------------------------------------------------------------
(* The programs                                                            *)

\* The drivers of a process; the one-process programs run as "client".
Drives(p) ==
    IF mode = "interop" THEN <<p>>
    ELSE IF p = "client" THEN <<"client", "server">> ELSE <<>>
Processes == {p \in Side : Drives(p) # <<>>}
Running(p) == prog[p].pc # "ended"
Goto(p, pc) == prog' = [prog EXCEPT ![p].pc = pc, ![p].turn = 1, ![p].moved = FALSE]
GotoPhase(p, phase) ==
    prog' = [prog EXCEPT ![p].pc = "pump", ![p].phase = phase,
                         ![p].turn = 1, ![p].moved = FALSE]
End(p, outcome) == prog' = [prog EXCEPT ![p].pc = "ended", ![p].outcome = outcome]

\* Driver::new: no connection, event or datagram.
NewDriver ==
    /\ events = [s \in Side |-> <<>>] /\ outbound = [s \in Side |-> <<>>]
    /\ made = [s \in Side |-> <<>>] /\ handed = [s \in Side |-> <<>>]
    /\ told = [s \in Side |-> <<>>] /\ full = [s \in Side |-> FALSE]
    /\ guest = NoGuest

\* The driver whose pump is under way.
Pumped(p) ==
    CASE prog[p].pc = "pumpclient" -> "client"
      [] prog[p].pc = "pumpserver" -> "server"
      [] OTHER -> Drives(p)[prog[p].turn]

\* bind, Driver::new and connect have succeeded; the client's hello is queued.
Init ==
    /\ mode \in Modes
    /\ conn = [client |-> [NoConnection EXCEPT !.st = "open",
                                               !.tx = <<Frame("hello", 0)>>],
               server |-> NoConnection]
    /\ NewDriver
    /\ net = [s \in Side |-> <<>>] /\ lost = [s \in Side |-> <<>>]
    /\ due = [s \in Side |-> "none"]
    /\ prog = [s \in Side |->
                 [pc |-> IF mode = "interop" \/ s = "client" THEN "pump" ELSE "joined",
                  phase |-> "handshake", turn |-> 1, moved |-> FALSE,
                  met |-> {}, got |-> 0, outcome |-> "running"]]
    /\ cut = FALSE /\ late = FALSE /\ faults = 0

\* drive and drive_one: pump every driver in turn, and again while any of
\* them moved something; then look.
PumpAll(p) ==
    /\ prog[p].pc = "pump"
    /\ LET s == Drives(p)[prog[p].turn]
       IN  \E sent \in 0..MaxQueue(s) :
             /\ PumpDriver(s, sent)
             /\ LET moved == prog[p].moved \/ Moved(s, sent)
                IN  IF prog[p].turn < Len(Drives(p))
                    THEN prog' = [prog EXCEPT ![p].turn = @ + 1, ![p].moved = moved]
                    ELSE Goto(p, IF moved THEN "pump" ELSE "check")
    /\ UNCHANGED world

\* The pump inside a bench predicate: one driver until it stops moving.
PumpInner(p, pc, s, next) ==
    /\ prog[p].pc = pc
    /\ \E sent \in 0..MaxQueue(s) :
         PumpDriver(s, sent) /\ Goto(p, IF Moved(s, sent) THEN pc ELSE next)
    /\ UNCHANGED world

\* A socket error ends the process: at once, or in the flush with part of the
\* queue sent.
PumpFails(p) ==
    /\ prog[p].pc \in {"pump", "pumpclient", "pumpserver"}
    /\ \/ Fault /\ UNCHANGED <<conn, driver, net, lost, due>>
       \/ LET s == Pumped(p)
          IN  \E sent \in 0..MaxQueue(s) :
                PumpDriver(s, sent) /\ (outbound'[s] # <<>>) /\ faults' # faults
    /\ End(p, "panicked")
    /\ UNCHANGED world

Consume(s) == events' = [events EXCEPT ![s] = <<>>]
Saw(s, e) == \E i \in 1..Len(events[s]) : events[s][i] = e

\* The first event of E, if there is one.
FirstOf(s, E) ==
    LET i == SelectInSeq(events[s], LAMBDA e : e \in E)
    IN  IF i = 0 THEN "none" ELSE events[s][i]

\* Takes events up to and including the first one of E.
ConsumeTo(s, E) ==
    LET i == SelectInSeq(events[s], LAMBDA e : e \in E)
    IN  events' = [events EXCEPT ![s] =
                     IF i = 0 THEN <<>> ELSE SubSeq(@, i + 1, Len(@))]

\* The predicate did not yield: the stall guard, then the wait.
NotYet(p) == IF late THEN End(p, "stalled") ELSE Goto(p, "wait")

InCheck(p, program, phase) ==
    /\ mode \in program /\ p \in Processes
    /\ prog[p].pc = "check" /\ prog[p].phase = phase
    /\ UNCHANGED <<outbound, made, handed, told, full, net, lost, due, faults, world>>
    /\ phase # "request" => UNCHANGED guest

\* client(): the handshake, then the payload as a finished stream.
ClientHandshake(p) ==
    /\ p = "client" /\ InCheck(p, {"interop"}, "handshake")
    /\ ConsumeTo(p, {"Connected"})
    /\ IF ~Saw(p, "Connected") THEN NotYet(p) /\ UNCHANGED conn
       ELSE IF ~present(conn[p]) THEN End(p, "died") /\ UNCHANGED conn
       ELSE /\ conn' = [conn EXCEPT ![p] = Finish(Write(@, Payload))]
            /\ GotoPhase(p, "echo")

\* client(): the echo is read to its end and compared, then the connection
\* is closed.
ClientEcho(p) ==
    /\ p = "client" /\ InCheck(p, {"interop"}, "echo")
    /\ Consume(p)
    /\ IF ~present(conn[p]) \/ ~Finished(conn[p]) THEN NotYet(p) /\ UNCHANGED conn
       ELSE IF Readable(conn[p]) # Payload THEN End(p, "died") /\ UNCHANGED conn
       ELSE /\ conn' = [conn EXCEPT ![p].st = "draining",
                                    ![p].tx = <<Frame("close", 0)>>]
            /\ GotoPhase(p, "flush")

\* client(): the close is flushed toward the peer.
ClientFlush(p) ==
    /\ p = "client" /\ InCheck(p, {"interop"}, "flush")
    /\ IF has_outbound(p) THEN NotYet(p) ELSE End(p, "ok")
    /\ UNCHANGED <<conn, events>>

\* server(): the first connection that comes up is the one it serves.
ServerHandshake(p) ==
    /\ p = "server" /\ InCheck(p, {"interop"}, "handshake")
    /\ ConsumeTo(p, {"Connected", "GuestConnected"})
    /\ LET first == FirstOf(p, {"Connected", "GuestConnected"})
       IN  IF first = "none" THEN NotYet(p)
           ELSE prog' = [prog EXCEPT ![p].pc = "pump", ![p].phase = "request",
                                     ![p].turn = 1, ![p].moved = FALSE,
                                     ![p].met = IF first = "Connected" THEN {} ELSE {"guest"}]
    /\ UNCHANGED conn

\* server(): the request is read to its end and echoed.
ServerEcho(p) ==
    /\ p = "server" /\ InCheck(p, {"interop"}, "request")
    /\ Consume(p)
    /\ IF "guest" \in prog[p].met
       THEN /\ IF present(guest) /\ guest.asked
               THEN /\ guest' = [guest EXCEPT !.tx = IF guest.st = "up"
                                                     THEN Append(@, Frame("stray", 0)) ELSE @]
                    /\ GotoPhase(p, "goodbye")
               ELSE NotYet(p) /\ UNCHANGED guest
            /\ UNCHANGED conn
       ELSE /\ IF ~present(conn[p]) \/ ~Finished(conn[p]) THEN NotYet(p) /\ UNCHANGED conn
               ELSE /\ conn' = [conn EXCEPT ![p] = Finish(Write(@, Readable(@)))]
                    /\ GotoPhase(p, "goodbye")
            /\ UNCHANGED guest

\* Mutant: however the connection was lost, the exchange counts as done.
GoodbyeAny(p) ==
    /\ p = "server" /\ InCheck(p, {"interop"}, "goodbye")
    /\ ConsumeTo(p, AnyLoss)
    /\ IF FirstOf(p, AnyLoss) # "none" THEN End(p, "ok") ELSE NotYet(p)
    /\ UNCHANGED conn

\* server(): the first loss decides, of whichever connection: a close by its
\* client is success, any other loss is fatal.
ServerGoodbye(p) ==
    /\ p = "server" /\ InCheck(p, {"interop"}, "goodbye")
    /\ ConsumeTo(p, AnyLoss)
    /\ LET first == FirstOf(p, AnyLoss)
       IN  IF first \in {"ApplicationClosed", "GuestClosed"} THEN End(p, "ok")
           ELSE IF first # "none" THEN End(p, "died")
           ELSE NotYet(p)
    /\ UNCHANGED conn

\* loopback() and the benches: both ends report the handshake; the smoke test
\* then sends its message.  The stall guard is left out here and in
\* LoopbackIdle: `late' needs a dead path, which one process does not have.
BothHandshake(p) ==
    LET met == prog[p].met \cup {s \in Side : Saw(s, "Connected")}
    IN  /\ InCheck(p, {"loopback", "bench", "native"}, "handshake")
        /\ events' = [s \in Side |-> <<>>]
        /\ IF met # Side
           THEN /\ prog' = [prog EXCEPT ![p].met = met, ![p].pc = "wait"]
                /\ UNCHANGED conn
           ELSE IF mode # "loopback" THEN GotoPhase(p, "transfer") /\ UNCHANGED conn
           ELSE IF ~present(conn.client) THEN End(p, "died") /\ UNCHANGED conn
           ELSE /\ conn' = [conn EXCEPT !.client = Finish(Write(@, Payload))]
                /\ GotoPhase(p, "deliver")

\* loopback(): the server reads the message to its end.
LoopbackDeliver(p) ==
    /\ InCheck(p, {"loopback"}, "deliver")
    /\ Consume("server")
    /\ IF ~present(conn.server) THEN End(p, "died")
       ELSE IF ~Finished(conn.server) THEN NotYet(p)
       ELSE IF Readable(conn.server) # Payload THEN End(p, "died")
       ELSE prog' = [prog EXCEPT ![p].phase = "idle", ![p].met = {}, ![p].pc = "pump",
                                 ![p].turn = 1, ![p].moved = FALSE]
    /\ UNCHANGED conn

\* loopback(): the idle timeout tears both connections down.
LoopbackIdle(p) ==
    LET met == prog[p].met \cup {s \in Side : Saw(s, "TimedOut")}
    IN  /\ InCheck(p, {"loopback"}, "idle")
        /\ events' = [s \in Side |-> <<>>]
        /\ IF met = Side THEN End(p, "ok")
           ELSE prog' = [prog EXCEPT ![p].met = met, ![p].pc = "wait"]
        /\ UNCHANGED conn

\* transfer(): a loss is fatal; the client writes what the credit allows,
\* finishes the stream when it is all written, and pumps.
BenchWrite(p) ==
    LET c == conn.client
        n == (IF Bytes < c.credit THEN Bytes ELSE c.credit) - c.written
        w == IF c.finished THEN c ELSE Write(c, n)
    IN  /\ InCheck(p, {"bench", "native"}, "transfer")
        /\ events' = [s \in Side |-> <<>>]
        /\ IF \E s \in Side, e \in Loss : Saw(s, e) THEN End(p, "died") /\ UNCHANGED conn
           ELSE /\ conn' = [conn EXCEPT !.client =
                              IF w.written = Bytes /\ ~w.finished THEN Finish(w) ELSE w]
                /\ Goto(p, IF c.finished THEN "drain" ELSE "pumpclient")

\* transfer(): the server discards what has arrived, which frees credit, and
\* pumps when there was anything.
BenchDrain(p) ==
    LET c   == conn.server
        n   == Cardinality(c.got)
        new == n + Window > c.credit
    IN  /\ prog[p].pc = "drain"
        /\ conn' = [conn EXCEPT !.server.credit = IF new THEN n + Window ELSE @,
                                !.server.tx = IF new THEN Append(@, Frame("credit", n + Window))
                                              ELSE @]
        /\ prog' = [prog EXCEPT ![p].pc = IF new THEN "pumpserver" ELSE "decide",
                                ![p].met = IF Finished(c) THEN {"fin"} ELSE {},
                                ![p].got = n]
        /\ UNCHANGED <<driver, net, lost, due, faults, world>>

\* transfer(): the end of the stream and all its bytes, as drained above.
BenchDecide(p) ==
    /\ prog[p].pc = "decide"
    /\ IF "fin" \in prog[p].met /\ prog[p].got >= Bytes THEN End(p, "ok") ELSE NotYet(p)
    /\ UNCHANGED <<conn, driver, net, lost, due, faults, world>>

\* Mutant: no timer in the poll set.
WaitSetUntimed(s) ==
    \/ net[s] # <<>> \/ (s = "server" /\ guest.frame # "none")
    \/ has_outbound(s) /\ ~full[s]

\* wait_one and wait_both: a datagram to receive, room for one still queued,
\* or a timer of some connection.
WaitSet(s) ==
    \/ net[s] # <<>> \/ (s = "server" /\ guest.frame # "none")
    \/ has_outbound(s) /\ ~full[s]
    \/ due[s] # "none" /\ next_deadline(s)

\* The native bench yields and tries again.
Wake(p) ==
    /\ prog[p].pc = "wait"
    /\ mode = "native" \/ \E i \in 1..Len(Drives(p)) : WaitSet(Drives(p)[i])
    /\ Goto(p, "pump")
    /\ UNCHANGED <<conn, driver, net, lost, due, faults, world>>

Program(p) ==
    \/ PumpAll(p) \/ PumpFails(p)
    \/ PumpInner(p, "pumpclient", "client", "drain")
    \/ PumpInner(p, "pumpserver", "server", "decide")
    \/ ClientHandshake(p) \/ ClientEcho(p) \/ ClientFlush(p)
    \/ ServerHandshake(p) \/ ServerEcho(p) \/ ServerGoodbye(p)
    \/ BothHandshake(p) \/ LoopbackDeliver(p) \/ LoopbackIdle(p)
    \/ BenchWrite(p) \/ BenchDrain(p) \/ BenchDecide(p)
    \/ Wake(p)

-----------------------------------------------------------------------------
(* The world                                                               *)

ProcessOf(s) == IF mode = "interop" THEN s ELSE "client"
Alive(s) == Running(ProcessOf(s))

\* A full socket has room again.
Room(s) ==
    /\ full[s]
    /\ full' = [full EXCEPT ![s] = FALSE]
    /\ UNCHANGED <<conn, events, outbound, made, handed, told, guest, net, lost, due,
                   prog, faults, world>>

\* A datagram is lost; its sender's connection will miss it, unless it was
\* the close, which is sent once.
Lose(s) ==
    /\ Fault /\ net[s] # <<>> /\ ~cut
    /\ LET f == Head(net[s])
       IN  lost' = [lost EXCEPT ![Peer(s)] =
                      IF f.t \in {"close", "stray", "noise"} THEN @ ELSE Append(@, f)]
    /\ net' = [net EXCEPT ![s] = Tail(@)]
    /\ UNCHANGED <<conn, driver, due, prog, world>>

\* A foreign datagram, which the endpoint answers or ignores.
Stray(s) ==
    /\ mode = "interop" /\ Fault /\ Alive(s)
    /\ \E t \in {"stray", "noise"} : net' = [net EXCEPT ![s] = Append(@, Frame(t, 0))]
    /\ UNCHANGED <<conn, driver, lost, due, prog, world>>

\* The server waits.  Only a pump looks at the guest's datagrams and timers,
\* which come up now, alone or together with others, for its next pump.
Waiting == prog.server.pc = "wait"

\* A foreign client sends the next datagram of its connection: it may stop at
\* any point, and close as soon as the connection is up.
Foreign ==
    /\ mode = "interop" /\ Waiting /\ guest.frame = "none"
    /\ \E f \in {"hello", "done", "fin", "close"} :
         /\ CASE f = "hello" -> guest.st = "none" /\ Fault
              [] f = "done"  -> guest.st = "open" /\ UNCHANGED faults
              [] f = "fin"   -> guest.st = "up" /\ ~guest.asked /\ UNCHANGED faults
              [] f = "close" -> guest.st = "up" /\ UNCHANGED faults
         /\ guest' = [guest EXCEPT !.frame = f]
    /\ UNCHANGED <<conn, events, outbound, made, handed, told, full, net, lost, due, prog, world>>

\* Nothing is moving anywhere: timers far shorter than the idle timeout have
\* done their work.
Quiet ==
    \A s \in Side : Alive(s) =>
        /\ net[s] = <<>> /\ outbound[s] = <<>> /\ lost[s] = <<>> /\ ~conn[s].owes
        /\ due[s] = "none" /\ ~full[s]
        /\ prog[ProcessOf(s)].pc = "wait"

TimerDue(s) ==
    /\ Alive(s) /\ due[s] = "none"
    /\ \E timer \in {"loss", "ack", "idle", "close", "guest"} :
         /\ CASE timer = "loss"  -> lost[s] # <<>> /\ conn[s].st = "open"
              [] timer = "ack"   -> conn[s].owes /\ conn[s].st = "open"
              [] timer = "idle"  -> conn[s].st = "open" /\ Quiet
              [] timer = "close" -> conn[s].st = "draining"
              [] timer = "guest" -> s = "server" /\ present(guest) /\ Waiting
         /\ due' = [due EXCEPT ![s] = timer]
    /\ UNCHANGED <<conn, driver, net, lost, prog, faults, world>>

\* The path between two hosts dies; what was on it is gone for good.
Cut ==
    /\ mode = "interop" /\ ~cut /\ Fault
    /\ cut' = TRUE
    /\ net' = [s \in Side |-> <<>>] /\ lost' = [s \in Side |-> <<>>]
    /\ UNCHANGED <<conn, driver, due, prog, mode, late>>

\* Thirty seconds pass, which only a dead path or a server that serves a
\* guest lets happen.
Late ==
    /\ cut \/ (guest.st # "none" /\ Quiet)
    /\ ~late
    /\ late' = TRUE
    /\ UNCHANGED <<conn, driver, net, lost, due, prog, faults, mode, cut>>

AllEnded == \A p \in Processes : ~Running(p)

Next ==
    \/ \E p \in Side : Running(p) /\ Program(p)
    \/ \E s \in Side : Lose(s) \/ Stray(s) \/ TimerDue(s) \/ Room(s)
    \/ Foreign \/ Cut \/ Late

\* The scheduler runs every process and clocks advance; a full socket
\* drains.
Fairness ==
    /\ \A p \in Side : WF_vars(Running(p) /\ Program(p))
    /\ \A s \in Side : WF_vars(TimerDue(s)) /\ WF_vars(Room(s))
    /\ WF_vars(Late)

Spec == Init /\ [][Next]_vars /\ Fairness

-----------------------------------------------------------------------------
(* Properties                                                              *)

\* The send queue is flushed as far as the socket permits, and what is left
\* goes out later: every collected datagram is handed to the socket exactly
\* once and in order (driver.rs, pump's flush loop).
FlushedInOrder == \A s \in Side : handed[s] \o outbound[s] = made[s]

\* A connection that has left the driver's table has told the program that it
\* was lost, unless the program closed it itself (driver.rs, pump polls the
\* application events before it removes a drained connection).
LossIsTold ==
    \A s \in Side : conn[s].st = "gone" =>
        \/ \E i \in 1..Len(told[s]) : told[s][i] \in Loss
        \/ prog[ProcessOf(s)].phase = "flush"

\* The interop verdicts hang together: the server reports success only after
\* the client had the whole echo and closed, or after a foreign client did
\* close a connection of its own, which server() does not tell apart; and the
\* client only with its close handed to the socket (main.rs, client and server).
VerdictsAgree ==
    mode = "interop" =>
        /\ prog.server.outcome = "ok" =>
             \/ prog.client.phase = "flush" /\ Readable(conn.client) = Payload
             \/ guest.why = "closed"
        /\ prog.client.outcome = "ok" =>
             \E i \in 1..Len(handed.client) : handed.client[i].t = "close"

\* Unless the path dies, a foreign client connects or a socket fails, every
\* program ends, the client with success.
Completes ==
    <>(\/ cut \/ guest.st # "none" \/ \E p \in Side : prog[p].outcome = "panicked"
       \/ (AllEnded /\ prog.client.outcome = "ok"))
=============================================================================
