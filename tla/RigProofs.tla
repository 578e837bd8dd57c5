----------------------------- MODULE RigProofs -----------------------------
(***************************************************************************)
(* Theorems about the programs around the library: the QUIC rig            *)
(* (QuicLoopback), for any payload, window and number of faults, and the   *)
(* timing lab (TimingLab), for any number of samples and any noise.        *)
(***************************************************************************)
EXTENDS QuicLoopback, TimingLab, SequenceTheorems, FiniteSetTheorems, WellFoundedInduction, TLAPS

-----------------------------------------------------------------------------
(* The rig's inductive invariant *)

FrameTypes ==
  {"hello", "reply", "done", "data", "fin", "credit", "close", "ack", "stray", "noise"}
AnyFrame == [t : FrameTypes, n : Nat]
AnyEvent == {"Connected"} \union Loss

\* The client has closed the connection: it is what ends in phase flush.
Closed == prog["client"].phase = "flush"

\* Only the client closes, and only in that phase: what a side sends, and the
\* events its connection can report.
SentFrames(s, closed) == {f \in AnyFrame : f.t = "close" => s = "client" /\ closed}
SeenEvents(s, closed) == {e \in AnyEvent : e = "ApplicationClosed" => s = "server" /\ closed}

\* The guest closed its connection: only then is its close an event.
Shut == guest.why = "closed"
GuestEvent == {"GuestConnected", "GuestClosed", "GuestTimedOut"}
GuestsEvents(shut) == {e \in GuestEvent : e = "GuestClosed" => shut}
QueuedEvents(s, closed, shut) == SeenEvents(s, closed) \union GuestsEvents(shut)

\* What goes to others than the peer is no close.
Strays == {f \in AnyFrame : f.t = "stray"}
AnyGuest ==
  [st : {"none", "open", "up", "draining", "gone"}, why : {"none", "closed", "timedout"},
   asked : BOOLEAN, frame : {"none", "hello", "done", "fin", "close"}, tx : Seq(Strays)]
GuestInv == guest \in AnyGuest /\ (Shut => guest.st \in {"draining", "gone"})
GuestStays == GuestInv' /\ Shut' = Shut

States == {"none", "open", "draining", "drained", "gone"}
Numbers == {S \in SUBSET Nat : IsFiniteSet(S)}

Connection(Tx, Ev) ==
  [st : States, up : BOOLEAN, tx : Tx, ev : Ev,
   written : Nat, finished : BOOLEAN, credit : Nat, got : Numbers, finAt : Nat, owes : BOOLEAN]
ConnectionOf(s, closed) ==
  Connection(Seq(SentFrames(s, closed)), Seq(SeenEvents(s, closed)))

Sided ==
  /\ DOMAIN conn = Side /\ DOMAIN outbound = Side /\ DOMAIN lost = Side
  /\ DOMAIN made = Side /\ DOMAIN handed = Side /\ DOMAIN net = Side
  /\ DOMAIN events = Side /\ DOMAIN told = Side

DriverInv ==
  GuestInv /\ \A s \in Side :
    /\ conn[s] \in ConnectionOf(s, Closed)
    /\ outbound[s] \in Seq(SentFrames(s, Closed))
    /\ lost[s] \in Seq(SentFrames(s, Closed))
    /\ made[s] \in Seq(SentFrames(s, Closed))
    /\ handed[s] \in Seq(SentFrames(s, Closed))
    /\ net[s] \in Seq(SentFrames(Peer(s), Closed))
    /\ events[s] \in Seq(QueuedEvents(s, Closed, Shut))
    /\ told[s] \in Seq(SeenEvents(s, Closed))

Steps == {"pump", "check", "wait", "drain", "pumpclient", "pumpserver", "decide",
          "ended", "joined"}
Phases == {"handshake", "echo", "flush", "request", "goodbye", "deliver", "idle", "transfer"}
Process ==
  [pc : Steps, phase : Phases, turn : Nat, moved : BOOLEAN,
   met : SUBSET {"client", "server", "fin", "guest"},
   got : Nat, outcome : {"running", "ok", "died", "stalled", "panicked"}]

ProcessInv ==
  /\ mode \in {"interop", "loopback", "bench", "native"}
  /\ Closed => mode = "interop"
  /\ prog \in [Side -> Process]
  /\ \A p \in Side :
       /\ mode = "interop" => prog[p].turn = 1 /\ prog[p].pc \in {"pump", "check", "wait", "ended"}
       /\ mode # "interop" => prog[p].turn \in 1..2 /\ (p = "server" => prog[p].pc = "joined")

Over == {"draining", "drained", "gone"}

HasLoss(events_) == \E i \in 1..Len(events_) : events_[i] \in Loss

\* A connection that is over has reported its loss or has it to report.
LossInv ==
  \A s \in Side : conn[s].st \in Over =>
    HasLoss(conn[s].ev) \/ HasLoss(told[s]) \/ prog[ProcessOf(s)].phase = "flush"

HasClose(frames) == \E i \in 1..Len(frames) : frames[i].t = "close"

\* The client that closed had the whole echo; its close has been collected, or
\* is about to be.
FlushInv ==
  Closed =>
    /\ conn["client"].st \in Over
    /\ Readable(conn["client"]) = Payload
    /\ \/ HasClose(made["client"])
       \/ prog["client"].pc \in {"pump", "ended"} /\ HasClose(conn["client"].tx)

LoopInv ==
  /\ Sided /\ DriverInv /\ ProcessInv /\ LossInv /\ FlushInv
  /\ FlushedInOrder /\ VerdictsAgree

-----------------------------------------------------------------------------
(* Recursion over a queue *)

\* A set of naturals that is not empty has a least one.
LEMMA LeastNatural ==
  ASSUME NEW S \in SUBSET Nat, S # {}
  PROVE  \E i \in S : \A j \in S : i <= j
<1>1. IsWellFoundedOn(OpToRel(<, Nat), Nat)
  BY NatLessThanWellFounded
<1>2. PICK x \in S : \A y \in S : ~(<<y, x>> \in OpToRel(<, Nat))
  BY <1>1, WFMin, Zenon
<1>3. ASSUME NEW y \in S PROVE x <= y
  <2>1. ~(y < x)
    BY <1>2 DEF OpToRel
  <2>2. QED BY <2>1
<1>4. QED BY <1>3

\* A set of naturals that holds 0 and, with each number below n, the next one,
\* holds all up to n.
LEMMA CountsUp ==
  ASSUME NEW n \in Nat, NEW S, 0 \in S, \A i \in 1..n : i - 1 \in S => i \in S
  PROVE  \A i \in 0..n : i \in S
<1> SUFFICES ASSUME NEW k \in 0..n, k \notin S PROVE FALSE
  OBVIOUS
<1> DEFINE T == {i \in 0..n : i \notin S}
<1>1. T \in SUBSET Nat /\ T # {}
  OBVIOUS
<1>2. PICK m \in T : \A j \in T : m <= j
  BY <1>1, LeastNatural
<1>3. m \in 1..n /\ m - 1 \in 0..n
  BY <1>2
<1>4. m - 1 \notin T
  BY <1>2, <1>3
<1>5. QED BY <1>2, <1>3, <1>4

\* The connection after each of the queued datagrams.
HandleRun(s, c, q, h) ==
  h = [i \in 0..Len(q) |-> IF i = 0 THEN c ELSE HandleEvent(s, h[i - 1], q[i])]

\* The pump's receive loop handles the queued datagrams one after the other.
LEMMA HandleAllSteps ==
  ASSUME NEW s, NEW c, NEW q, Len(q) \in Nat
  PROVE  \E h : HandleRun(s, c, q, h) /\ HandleAll(s, c, q) = h[Len(q)]
<1> DEFINE Run(n, h) == h = [i \in 0..n |-> IF i = 0 THEN c ELSE HandleEvent(s, h[i - 1], q[i])]
           S == {n \in 0..Len(q) : \E h : Run(n, h)}
<1>1. 0 \in S
  <2> DEFINE h == [i \in 0..0 |-> c]
  <2>1. Run(0, h)
    OBVIOUS
  <2> HIDE DEF Run
  <2>2. QED BY <2>1
<1>2. ASSUME NEW m \in 1..Len(q), m - 1 \in S PROVE m \in S
  <2>1. PICK g : Run(m - 1, g)
    BY <1>2
  <2> DEFINE h == [i \in 0..m |-> IF i = m THEN HandleEvent(s, g[m - 1], q[m]) ELSE g[i]]
  <2>2. ASSUME NEW i \in 0..m
        PROVE  h[i] = IF i = 0 THEN c ELSE HandleEvent(s, h[i - 1], q[i])
    <3>1. CASE i = m
      <4>1. m - 1 \in 0..m /\ m - 1 # m /\ m # 0
        OBVIOUS
      <4>2. h[m - 1] = g[m - 1]
        BY <4>1
      <4>3. QED BY <3>1, <4>1, <4>2
    <3>2. CASE i # m
      <4>1. i \in 0..(m - 1) /\ (i # 0 => i - 1 \in 0..m /\ i - 1 # m)
        BY <3>2
      <4>2. h[i] = g[i] /\ (i # 0 => h[i - 1] = g[i - 1])
        BY <3>2, <4>1
      <4>3. g[i] = IF i = 0 THEN c ELSE HandleEvent(s, g[i - 1], q[i])
        BY <2>1, <4>1
      <4>4. QED BY <4>2, <4>3
    <3>3. QED BY <3>1, <3>2
  <2>3. Run(m, h)
    <3>1. h = [i \in 0..m |-> h[i]]
      OBVIOUS
    <3> HIDE DEF h
    <3>2. QED BY <2>2, <3>1
  <2> HIDE DEF Run, h
  <2>4. QED BY <2>3
<1>3. Len(q) \in S
  <2> HIDE DEF S
  <2>1. \A i \in 0..Len(q) : i \in S
    BY <1>1, <1>2, CountsUp, Zenon
  <2>2. QED BY <2>1
<1>4. \E h : Run(Len(q), h)
  BY <1>3
<1> DEFINE r == CHOOSE h : Run(Len(q), h)
<1>5. Run(Len(q), r)
  BY <1>4, Zenon
<1>6. HandleAll(s, c, q) = r[Len(q)]
  BY DEF HandleAll
<1>7. HandleRun(s, c, q, r)
  BY <1>5 DEF HandleRun
<1> HIDE DEF r
<1>8. QED BY <1>6, <1>7

\* Of what the pump handed to the socket, the peer's part is found one
\* datagram after the other.
LEMMA ToPeerSteps ==
  ASSUME NEW q, Len(q) \in Nat
  PROVE  \E h : /\ h = [i \in 0..Len(q) |->
                          IF i = 0 THEN <<>>
                          ELSE IF q[i].t = "stray" THEN h[i - 1]
                          ELSE Append(h[i - 1], q[i])]
                /\ ToPeer(q) = h[Len(q)]
<1> DEFINE Step(i, x) == IF q[i].t = "stray" THEN x ELSE Append(x, q[i])
           Run(n, h) == h = [i \in 0..n |-> IF i = 0 THEN <<>> ELSE Step(i, h[i - 1])]
           S == {n \in 0..Len(q) : \E h : Run(n, h)}
<1>1. 0 \in S
  <2> DEFINE h == [i \in 0..0 |-> <<>>]
  <2> HIDE DEF Step
  <2>1. Run(0, h)
    OBVIOUS
  <2> HIDE DEF Run
  <2>2. QED BY <2>1
<1>2. ASSUME NEW m \in 1..Len(q), m - 1 \in S PROVE m \in S
  <2> HIDE DEF Step
  <2>1. PICK g : Run(m - 1, g)
    BY <1>2
  <2> DEFINE h == [i \in 0..m |-> IF i = m THEN Step(m, g[m - 1]) ELSE g[i]]
  <2>2. ASSUME NEW i \in 0..m
        PROVE  h[i] = IF i = 0 THEN <<>> ELSE Step(i, h[i - 1])
    <3>1. CASE i = m
      <4>1. m - 1 \in 0..m /\ m - 1 # m /\ m # 0
        OBVIOUS
      <4>2. h[m - 1] = g[m - 1]
        BY <4>1
      <4>3. QED BY <3>1, <4>1, <4>2
    <3>2. CASE i # m
      <4>1. i \in 0..(m - 1) /\ (i # 0 => i - 1 \in 0..m /\ i - 1 # m)
        BY <3>2
      <4>2. h[i] = g[i] /\ (i # 0 => h[i - 1] = g[i - 1])
        BY <3>2, <4>1
      <4>3. g[i] = IF i = 0 THEN <<>> ELSE Step(i, g[i - 1])
        BY <2>1, <4>1
      <4>4. QED BY <4>2, <4>3
    <3>3. QED BY <3>1, <3>2
  <2>3. Run(m, h)
    <3>1. h = [i \in 0..m |-> h[i]]
      OBVIOUS
    <3> HIDE DEF h
    <3>2. QED BY <2>2, <3>1
  <2> HIDE DEF Run, h
  <2>4. QED BY <2>3
<1>3. Len(q) \in S
  <2> HIDE DEF S
  <2>1. \A i \in 0..Len(q) : i \in S
    BY <1>1, <1>2, CountsUp, Zenon
  <2>2. QED BY <2>1
<1>4. \E h : Run(Len(q), h)
  BY <1>3
<1> DEFINE r == CHOOSE h : Run(Len(q), h)
<1>5. Run(Len(q), r)
  BY <1>4, Zenon
<1>6. ToPeer(q) = r[Len(q)]
  BY DEF ToPeer
<1>7. QED BY <1>5, <1>6

\* The datagrams for the peer are datagrams the socket took.
LEMMA ToPeerType ==
  ASSUME NEW F, NEW q \in Seq(F)
  PROVE  ToPeer(q) \in Seq(F)
<1>0. Len(q) \in Nat /\ \A i \in 1..Len(q) : q[i] \in F
  BY LenProperties, ElementOfSeq
<1>1. PICK h : /\ h = [i \in 0..Len(q) |->
                        IF i = 0 THEN <<>>
                        ELSE IF q[i].t = "stray" THEN h[i - 1]
                        ELSE Append(h[i - 1], q[i])]
               /\ ToPeer(q) = h[Len(q)]
  BY <1>0, ToPeerSteps, Zenon
<1> DEFINE S == {i \in 0..Len(q) : h[i] \in Seq(F)}
<1>2. 0 \in S
  <2>1. 0 \in 0..Len(q)
    BY <1>0
  <2>2. h[0] = <<>>
    BY <1>1, <2>1, Zenon
  <2>3. QED BY <2>1, <2>2, EmptySeq
<1>3. ASSUME NEW i \in 1..Len(q), i - 1 \in S PROVE i \in S
  <2>1. i \in 0..Len(q) /\ i # 0
    BY <1>0
  <2>2. h[i] = IF q[i].t = "stray" THEN h[i - 1] ELSE Append(h[i - 1], q[i])
    BY <1>1, <2>1, Zenon
  <2>3. h[i - 1] \in Seq(F) /\ q[i] \in F
    BY <1>0, <1>3
  <2>4. Append(h[i - 1], q[i]) \in Seq(F)
    BY <2>3, AppendProperties
  <2>5. QED BY <2>1, <2>2, <2>3, <2>4, Zenon
<1>4. \A i \in 0..Len(q) : i \in S
  <2> HIDE DEF S
  <2>1. QED BY <1>0, <1>2, <1>3, CountsUp, Zenon
<1>5. Len(q) \in 0..Len(q)
  BY <1>0
<1>6. QED BY <1>1, <1>4, <1>5

-----------------------------------------------------------------------------
(* noq-proto's steps on a connection *)

\* A frame of any type but a close may be sent by either side.
LEMMA OwnFrame ==
  ASSUME NEW s \in Side, NEW closed \in BOOLEAN, NEW t \in FrameTypes \ {"close"}, NEW n \in Nat
  PROVE  Frame(t, n) \in SentFrames(s, closed)
BY DEF Frame, SentFrames, AnyFrame

\* The parts of a connection, and what replacing some of them leaves: a
\* connection.
LEMMA SetConnection ==
  ASSUME NEW Tx, NEW Ev, NEW c \in Connection(Tx, Ev),
         NEW x \in Tx, NEW y \in Ev, NEW n \in Nat, NEW b \in BOOLEAN, NEW st \in States
  PROVE  /\ [c EXCEPT !.st = st] \in Connection(Tx, Ev)
         /\ [c EXCEPT !.tx = x] \in Connection(Tx, Ev)
         /\ [c EXCEPT !.st = st, !.tx = x] \in Connection(Tx, Ev)
         /\ [c EXCEPT !.up = TRUE, !.ev = y, !.tx = x] \in Connection(Tx, Ev)
         /\ [c EXCEPT !.up = TRUE, !.ev = y, !.owes = TRUE] \in Connection(Tx, Ev)
         /\ [c EXCEPT !.finAt = n, !.owes = TRUE] \in Connection(Tx, Ev)
         /\ [c EXCEPT !.credit = n, !.owes = TRUE] \in Connection(Tx, Ev)
         /\ [c EXCEPT !.st = st, !.tx = x, !.ev = y] \in Connection(Tx, Ev)
         /\ [c EXCEPT !.tx = x, !.ev = y, !.owes = b, !.st = st] \in Connection(Tx, Ev)
         /\ [c EXCEPT !.tx = x, !.written = n] \in Connection(Tx, Ev)
         /\ [c EXCEPT !.tx = x, !.finished = TRUE] \in Connection(Tx, Ev)
         /\ [c EXCEPT !.credit = n, !.tx = x] \in Connection(Tx, Ev)
BY DEF Connection

\* What a step of a connection preserves: its type; that it is over only with
\* a loss to report; and what it has to send and to report and has received,
\* once it is over.
Follows(s, closed, c, d) ==
  /\ d \in ConnectionOf(s, closed)
  /\ (c.st \in Over => HasLoss(c.ev)) => (d.st \in Over => HasLoss(d.ev))
  /\ c.st \in Over => d.st \in Over /\ d.tx = c.tx /\ d.ev = c.ev /\ d.got = c.got

\* An event that reports a loss is in the queue it was appended to.
LEMMA AppendedLoss ==
  ASSUME NEW E, NEW e \in Seq(E), NEW x \in Loss
  PROVE  HasLoss(Append(e, x))
<1>1. Len(e) \in Nat
  BY LenProperties
<1>2. Len(Append(e, x)) = Len(e) + 1 /\ Append(e, x)[Len(e) + 1] = x
  BY AppendProperties
<1>3. Len(e) + 1 \in 1..Len(Append(e, x))
  BY <1>1, <1>2
<1>4. QED BY <1>2, <1>3, Zenon DEF HasLoss

\* A frame from the peer: the connection keeps its type, ends only with a
\* close event, and no frame changes one that is over.
LEMMA HandleEventKeeps ==
  ASSUME NEW s \in Side, NEW closed \in BOOLEAN, NEW c \in ConnectionOf(s, closed),
         NEW f \in SentFrames(Peer(s), closed)
  PROVE  Follows(s, closed, c, HandleEvent(s, c, f))
<1> DEFINE F == SentFrames(s, closed)
           E == SeenEvents(s, closed)
           d == HandleEvent(s, c, f)
<1>1. /\ c \in Connection(Seq(F), Seq(E)) /\ c.st \in States
      /\ c.tx \in Seq(F) /\ c.ev \in Seq(E) /\ c.credit \in Nat /\ c.got \in Numbers
  BY DEF ConnectionOf, Connection
<1>2. f.n \in Nat /\ (f.t = "close" => s = "server" /\ closed)
  BY DEF SentFrames, AnyFrame, Peer, Side
<1>3. Frame("reply", 0) \in F /\ Frame("done", 0) \in F
  BY OwnFrame DEF FrameTypes
<1>4. Append(c.ev, "Connected") \in Seq(E)
  <2>1. "Connected" \in E
    BY DEF SeenEvents, AnyEvent
  <2> HIDE DEF E
  <2>2. QED BY <1>1, <2>1, AppendProperties
<1>5. c.tx \o <<Frame("reply", 0)>> \in Seq(F) /\ <<Frame("done", 0)>> \o c.tx \in Seq(F)
  <2> HIDE DEF F
  <2>1. <<Frame("reply", 0)>> \in Seq(F) /\ <<Frame("done", 0)>> \in Seq(F)
    BY <1>3
  <2>2. QED BY <1>1, <2>1, ConcatProperties
<1>6. c.got \cup {f.n} \in Numbers
  BY <1>1, <1>2, FS_AddElement DEF Numbers
<1>7. f.t = "close" => Append(c.ev, "ApplicationClosed") \in Seq(E)
  <2> SUFFICES ASSUME f.t = "close" PROVE Append(c.ev, "ApplicationClosed") \in Seq(E)
    OBVIOUS
  <2>1. "ApplicationClosed" \in E
    BY <1>2 DEF SeenEvents, AnyEvent, Loss
  <2> HIDE DEF E
  <2>2. QED BY <1>1, <2>1, AppendProperties
<1>8. HasLoss(Append(c.ev, "ApplicationClosed"))
  BY <1>1, AppendedLoss DEF Loss
<1>9. <<>> \in Seq(F)
  BY EmptySeq
<1> DEFINE a1 == Append(c.ev, "Connected")
           a2 == Append(c.ev, "ApplicationClosed")
           t1 == c.tx \o <<Frame("reply", 0)>>
           t2 == <<Frame("done", 0)>> \o c.tx
           e1 == [c EXCEPT !.st = "open", !.tx = t1]
           e2 == [c EXCEPT !.up = TRUE, !.ev = a1, !.tx = t2]
           e3 == [c EXCEPT !.up = TRUE, !.ev = a1, !.owes = TRUE]
           e4 == [c EXCEPT !.got = @ \cup {f.n}, !.owes = TRUE]
           e5 == [c EXCEPT !.finAt = f.n, !.owes = TRUE]
           e6 == [c EXCEPT !.credit = IF f.n > @ THEN f.n ELSE @, !.owes = TRUE]
           e7 == [c EXCEPT !.st = "draining", !.tx = <<>>, !.ev = a2]
<1>10. \/ d = c \/ (c.st = "none" /\ d = e1)
       \/ (c.st = "open" /\ (d = e2 \/ d = e3 \/ d = e4 \/ d = e5 \/ d = e6))
       \/ (c.st = "open" /\ f.t = "close" /\ d = e7)
  BY Zenon DEF HandleEvent
<1>11. c.st \in Over => d = c
  BY <1>10, Zenon DEF Over
<1>12. /\ e1 \in ConnectionOf(s, closed) /\ e2 \in ConnectionOf(s, closed)
       /\ e3 \in ConnectionOf(s, closed) /\ e4 \in ConnectionOf(s, closed)
       /\ e5 \in ConnectionOf(s, closed) /\ e6 \in ConnectionOf(s, closed)
       /\ f.t = "close" => e7 \in ConnectionOf(s, closed)
  <2>0. a1 \in Seq(E) /\ (f.t = "close" => a2 \in Seq(E)) /\ t1 \in Seq(F) /\ t2 \in Seq(F)
    BY <1>4, <1>5, <1>7
  <2> HIDE DEF F, E, a1, a2, t1, t2
  <2>1. ConnectionOf(s, closed) = Connection(Seq(F), Seq(E))
    BY DEF ConnectionOf, F, E
  <2>2. "open" \in States /\ "draining" \in States
    BY DEF States
  <2>3. e1 \in Connection(Seq(F), Seq(E)) /\ e2 \in Connection(Seq(F), Seq(E))
    BY <1>1, <2>0, <2>2, SetConnection, Zenon
  <2>4. e3 \in Connection(Seq(F), Seq(E))
    BY <1>1, <2>0, SetConnection, Zenon
  <2>5. e4 \in Connection(Seq(F), Seq(E))
    BY <1>1, <1>6 DEF Connection
  <2>6. e5 \in Connection(Seq(F), Seq(E))
    BY <1>1, <1>2, SetConnection, Zenon
  <2>7. e6 \in Connection(Seq(F), Seq(E))
    BY <1>1, <1>2, SetConnection, Zenon
  <2>8. f.t = "close" => e7 \in Connection(Seq(F), Seq(E))
    BY <1>1, <1>9, <2>0, <2>2, SetConnection, Zenon
  <2>9. QED BY <2>1, <2>3, <2>4, <2>5, <2>6, <2>7, <2>8, Zenon
<1> HIDE DEF a1, a2, t1, t2
<1>13. /\ e1.st = "open" /\ e2.st = c.st /\ e3.st = c.st /\ e4.st = c.st
       /\ e5.st = c.st /\ e6.st = c.st /\ e7.ev = a2
  BY <1>1 DEF Connection
<1> HIDE DEF e1, e2, e3, e4, e5, e6, e7, F, E, d
<1>14. d \in ConnectionOf(s, closed)
  BY <1>10, <1>12, Zenon
<1>15. (c.st \in Over => HasLoss(c.ev)) => (d.st \in Over => HasLoss(d.ev))
  <2> SUFFICES ASSUME d.st \in Over, c.st \notin Over PROVE HasLoss(d.ev)
    BY <1>11, Zenon
  <2>1. d.st # "open" /\ d.st # c.st
    BY DEF Over
  <2>2. d = e7
    BY <1>10, <1>13, <2>1, Zenon
  <2>3. QED BY <1>8, <1>13, <2>2, Zenon DEF a2
<1>16. QED BY <1>11, <1>14, <1>15, Zenon DEF Follows, d

\* Steps of a connection in a row preserve what each of them does.
LEMMA FollowsOn ==
  ASSUME NEW s, NEW closed, NEW c, NEW d, NEW e,
         Follows(s, closed, c, d), Follows(s, closed, d, e)
  PROVE  Follows(s, closed, c, e)
BY Zenon DEF Follows

\* The receive loop as a whole preserves what one frame does.
LEMMA HandleAllKeeps ==
  ASSUME NEW s \in Side, NEW closed \in BOOLEAN, NEW c \in ConnectionOf(s, closed),
         NEW q \in Seq(SentFrames(Peer(s), closed))
  PROVE  Follows(s, closed, c, HandleAll(s, c, q))
<1>0. Len(q) \in Nat /\ \A i \in 1..Len(q) : q[i] \in SentFrames(Peer(s), closed)
  BY LenProperties, ElementOfSeq
<1>1. PICK h : HandleRun(s, c, q, h) /\ HandleAll(s, c, q) = h[Len(q)]
  <2>1. Len(q) \in Nat
    BY <1>0
  <2>2. QED BY <2>1, HandleAllSteps, Zenon
<1> DEFINE S == {i \in 0..Len(q) : Follows(s, closed, c, h[i])}
<1>2. 0 \in S
  <2>1. 0 \in 0..Len(q)
    BY <1>0
  <2>2. h[0] = c
    BY <1>1, <2>1, Zenon DEF HandleRun
  <2>3. Follows(s, closed, c, c)
    BY Zenon DEF Follows
  <2>4. QED BY <2>1, <2>2, <2>3
<1>3. ASSUME NEW i \in 1..Len(q), i - 1 \in S PROVE i \in S
  <2>1. i \in 0..Len(q) /\ i # 0
    BY <1>0
  <2>2. h[i] = HandleEvent(s, h[i - 1], q[i])
    BY <1>1, <2>1, Zenon DEF HandleRun
  <2>3. Follows(s, closed, c, h[i - 1])
    BY <1>3
  <2>4. h[i - 1] \in ConnectionOf(s, closed)
    BY <2>3 DEF Follows
  <2>5. Follows(s, closed, h[i - 1], h[i])
    BY <1>0, <2>2, <2>4, HandleEventKeeps, Zenon
  <2>6. QED BY <2>1, <2>3, <2>5, FollowsOn, Zenon
<1>4. \A i \in 0..Len(q) : i \in S
  <2> HIDE DEF S
  <2>1. QED BY <1>0, <1>2, <1>3, CountsUp, Zenon
<1>5. Len(q) \in 0..Len(q)
  BY <1>0
<1>6. QED BY <1>1, <1>4, <1>5

\* A due timer preserves the same: an idle connection is dropped with a loss
\* to report, a closed one is dropped with what it still had to send.
LEMMA HandleTimeoutKeeps ==
  ASSUME NEW s \in Side, NEW closed \in BOOLEAN, NEW c \in ConnectionOf(s, closed),
         NEW timer, NEW again \in Seq(SentFrames(s, closed))
  PROVE  Follows(s, closed, c, HandleTimeout(c, timer, again))
<1> DEFINE F == SentFrames(s, closed)
           E == SeenEvents(s, closed)
           d == HandleTimeout(c, timer, again)
           t1 == c.tx \o again
           t2 == Append(c.tx, Frame("ack", 0))
           a1 == Append(c.ev, "TimedOut")
           d1 == [c EXCEPT !.tx = t1]
           d2 == [c EXCEPT !.tx = t2]
           d3 == [c EXCEPT !.st = "drained", !.tx = <<>>, !.ev = a1]
           d4 == [c EXCEPT !.st = "drained"]
<1>1. /\ c \in Connection(Seq(F), Seq(E)) /\ c.st \in States
      /\ c.tx \in Seq(F) /\ c.ev \in Seq(E) /\ again \in Seq(F)
  BY DEF ConnectionOf, Connection
<1>2. \/ d = c \/ (c.st = "open" /\ (d = d1 \/ d = d2 \/ d = d3))
      \/ (c.st = "draining" /\ d = d4)
  BY Zenon DEF HandleTimeout
<1>3. t1 \in Seq(F)
  <2> HIDE DEF F
  <2>1. QED BY <1>1, ConcatProperties
<1>4. t2 \in Seq(F)
  <2>1. Frame("ack", 0) \in F
    BY OwnFrame DEF FrameTypes
  <2> HIDE DEF F
  <2>2. QED BY <1>1, <2>1, AppendProperties
<1>5. a1 \in Seq(E)
  <2>1. "TimedOut" \in E
    BY DEF SeenEvents, AnyEvent, Loss
  <2> HIDE DEF E
  <2>2. QED BY <1>1, <2>1, AppendProperties
<1>6. HasLoss(a1)
  BY <1>1, AppendedLoss DEF Loss
<1>7. ConnectionOf(s, closed) = Connection(Seq(F), Seq(E))
  BY DEF ConnectionOf
<1> HIDE DEF t1, t2, a1, F, E, d
<1>8. /\ d1.st = c.st /\ d2.st = c.st /\ d3.ev = a1
      /\ d4.st = "drained" /\ d4.tx = c.tx /\ d4.ev = c.ev /\ d4.got = c.got
  BY <1>1 DEF Connection
<1>9. "drained" \in States /\ <<>> \in Seq(F)
  BY EmptySeq DEF States
<1>10. d1 \in Connection(Seq(F), Seq(E)) /\ d2 \in Connection(Seq(F), Seq(E))
  BY <1>1, <1>3, <1>4, SetConnection, Zenon
<1>11. d3 \in Connection(Seq(F), Seq(E))
  BY <1>1, <1>5, <1>9, SetConnection, Zenon
<1>12. d4 \in Connection(Seq(F), Seq(E))
  BY <1>1, <1>9, SetConnection, Zenon
<1> HIDE DEF d1, d2, d3, d4
<1>13. d \in ConnectionOf(s, closed)
  BY <1>1, <1>2, <1>7, <1>10, <1>11, <1>12, Zenon
<1>14. "open" \notin Over /\ "draining" \in Over /\ "drained" \in Over
  BY DEF Over
<1>15. c.st \in Over => d.st \in Over /\ d.tx = c.tx /\ d.ev = c.ev /\ d.got = c.got
  BY <1>2, <1>8, <1>14, Zenon
<1>16. (c.st \in Over => HasLoss(c.ev)) => (d.st \in Over => HasLoss(d.ev))
  BY <1>2, <1>6, <1>8, <1>14, Zenon
<1>17. QED BY <1>13, <1>15, <1>16, Zenon DEF Follows, d

\* The readable prefix of a stream is a number of chunks.
LEMMA ReadableType ==
  ASSUME NEW c, c.got \in Numbers
  PROVE  Readable(c) \in Nat
<1> DEFINE G == c.got
           S == {m \in Nat : m + 1 \notin G}
<1>1. G \in SUBSET Nat /\ IsFiniteSet(G) /\ Cardinality(G) \in Nat
  BY FS_CardinalityType DEF Numbers
<1>2. \A m \in Nat : 1..m \subseteq G => m <= Cardinality(G)
  <2> SUFFICES ASSUME NEW m \in Nat, 1..m \subseteq G PROVE m <= Cardinality(G)
    OBVIOUS
  <2>1. Cardinality(1..m) = m
    <3>1. Cardinality(1..m) = IF 1 > m THEN 0 ELSE m - 1 + 1
      BY FS_Interval
    <3>2. QED BY <3>1
  <2>2. Cardinality(1..m) <= Cardinality(G)
    BY <1>1, FS_Subset
  <2>3. QED BY <2>1, <2>2
<1>3. S \in SUBSET Nat /\ S # {}
  <2> SUFFICES ASSUME S = {} PROVE FALSE
    OBVIOUS
  <2> DEFINE k == Cardinality(G) + 1
  <2>1. 1..k \subseteq G
    <3> SUFFICES ASSUME NEW i \in 1..k PROVE i \in G
      OBVIOUS
    <3>1. i - 1 \in Nat /\ (i - 1) + 1 = i
      BY <1>1
    <3>2. QED BY <3>1
  <2>2. k \in Nat /\ ~(k <= Cardinality(G))
    BY <1>1
  <2>3. QED BY <1>2, <2>1, <2>2
<1>4. PICK n \in S : \A j \in S : n <= j
  BY <1>3, LeastNatural, Zenon
<1>5. 1..n \subseteq G
  <2> SUFFICES ASSUME NEW i \in 1..n PROVE i \in G
    OBVIOUS
  <2>1. i - 1 \in Nat /\ i - 1 < n /\ (i - 1) + 1 = i
    OBVIOUS
  <2>2. i - 1 \notin S
    BY <1>4, <2>1
  <2>3. QED BY <2>1, <2>2
<1>6. n \in 0..Cardinality(G) /\ n + 1 \notin G
  BY <1>1, <1>2, <1>5
<1>7. Readable(c) \in 0..Cardinality(G)
  BY <1>5, <1>6 DEF Readable
<1>8. QED BY <1>1, <1>7

\* Frames with consecutive numbers, of any type but a close.
LEMMA FramesType ==
  ASSUME NEW s \in Side, NEW closed \in BOOLEAN, NEW t \in FrameTypes \ {"close"},
         NEW a \in Nat, NEW b \in Int
  PROVE  Frames(t, a, b) \in Seq(SentFrames(s, closed))
<1> DEFINE F == SentFrames(s, closed)
           k == b - a + 1
<1>1. ASSUME NEW i \in 1..k PROVE Frame(t, a + i - 1) \in F
  <2>1. a + i - 1 \in Nat
    OBVIOUS
  <2>2. QED BY <2>1, OwnFrame
<1> HIDE DEF F
<1>2. CASE k \in Nat
  <2>1. Frames(t, a, b) = [i \in 1..k |-> Frame(t, a + i - 1)]
    BY DEF Frames
  <2> HIDE DEF k
  <2>2. [i \in 1..k |-> Frame(t, a + i - 1)] \in [1..k -> F]
    BY <1>1
  <2>3. ASSUME NEW m \in Nat, NEW g \in [1..m -> F] PROVE g \in Seq(F)
    OBVIOUS
  <2>4. Frames(t, a, b) \in Seq(F)
    BY <1>2, <2>1, <2>2, <2>3, Zenon
  <2>5. QED BY <2>4 DEF F
<1>3. CASE k \notin Nat
  <2>1. 1..k = 1..0
    BY <1>3
  <2>2. Frames(t, a, b) = [i \in 1..0 |-> Frame(t, a + i - 1)]
    BY <2>1, Zenon DEF Frames
  <2>3. QED BY <2>2
<1>4. QED BY <1>2, <1>3 DEF F

\* What the application writes goes behind what is queued; the rest of the
\* connection stays.
LEMMA WriteKeeps ==
  ASSUME NEW s \in Side, NEW closed \in BOOLEAN, NEW c \in ConnectionOf(s, closed),
         NEW n \in Int, c.written + n \in Nat
  PROVE  LET d == Write(c, n)
         IN  d \in ConnectionOf(s, closed) /\ d.st = c.st /\ d.ev = c.ev
             /\ d.finished = c.finished
<1> DEFINE F == SentFrames(s, closed)
           E == SeenEvents(s, closed)
           x == Frames("data", c.written + 1, c.written + n)
           y == c.tx \o x
           w == c.written + n
<1>1. /\ c \in Connection(Seq(F), Seq(E)) /\ c.tx \in Seq(F) /\ c.written \in Nat
      /\ c.ev \in Seq(E) /\ c.st \in States /\ c.owes \in BOOLEAN
  BY DEF ConnectionOf, Connection
<1>2. x \in Seq(F)
  <2>1. "data" \in FrameTypes \ {"close"} /\ c.written + 1 \in Nat /\ c.written + n \in Int
    BY <1>1 DEF FrameTypes
  <2>2. QED BY <2>1, FramesType, Zenon
<1>3. y \in Seq(F)
  <2> HIDE DEF F, x
  <2>1. QED BY <1>1, <1>2, ConcatProperties
<1>4. Write(c, n) = [c EXCEPT !.tx = y, !.written = w]
  BY DEF Write
<1>5. w \in Nat
  OBVIOUS
<1> HIDE DEF F, E, x, y, w
<1>6. Write(c, n) \in Connection(Seq(F), Seq(E))
  <2>1. [c EXCEPT !.tx = y, !.written = w] \in Connection(Seq(F), Seq(E))
    BY <1>1, <1>3, <1>5, SetConnection, Zenon
  <2>2. QED BY <1>4, <2>1, Zenon
<1>7. Write(c, n).st = c.st /\ Write(c, n).ev = c.ev /\ Write(c, n).finished = c.finished
  BY <1>1, <1>4 DEF Connection
<1>8. QED BY <1>6, <1>7, Zenon DEF ConnectionOf, F, E

\* Finishing the stream does as much.
LEMMA FinishKeeps ==
  ASSUME NEW s \in Side, NEW closed \in BOOLEAN, NEW c \in ConnectionOf(s, closed)
  PROVE  LET d == Finish(c)
         IN  d \in ConnectionOf(s, closed) /\ d.st = c.st /\ d.ev = c.ev
<1> DEFINE F == SentFrames(s, closed)
           E == SeenEvents(s, closed)
           y == Append(c.tx, Frame("fin", c.written))
<1>1. /\ c \in Connection(Seq(F), Seq(E)) /\ c.tx \in Seq(F) /\ c.written \in Nat
      /\ c.ev \in Seq(E) /\ c.st \in States /\ c.owes \in BOOLEAN
  BY DEF ConnectionOf, Connection
<1>2. Frame("fin", c.written) \in F
  BY <1>1, OwnFrame DEF FrameTypes
<1>3. y \in Seq(F)
  <2> HIDE DEF F
  <2>1. QED BY <1>1, <1>2, AppendProperties
<1>4. Finish(c) = [c EXCEPT !.tx = y, !.finished = TRUE]
  BY DEF Finish
<1> HIDE DEF F, E, y
<1>5. Finish(c) \in Connection(Seq(F), Seq(E))
  <2>1. [c EXCEPT !.tx = y, !.finished = TRUE] \in Connection(Seq(F), Seq(E))
    BY <1>1, <1>3, SetConnection, Zenon
  <2>2. QED BY <1>4, <2>1, Zenon
<1>6. Finish(c).st = c.st /\ Finish(c).ev = c.ev
  BY <1>1, <1>4 DEF Connection
<1>7. QED BY <1>5, <1>6, Zenon DEF ConnectionOf, F, E

\* Collecting takes what there is to send and to report, and nothing else.
LEMMA CollectKeeps ==
  ASSUME NEW s \in Side, NEW closed \in BOOLEAN, NEW c \in ConnectionOf(s, closed)
  PROVE  LET d == Collect(c).conn
         IN  /\ d \in ConnectionOf(s, closed) /\ d.got = c.got
             /\ d.st \in Over <=> c.st \in Over
             /\ Collect(c).transmits = c.tx /\ Collect(c).events = c.ev
<1> DEFINE F == SentFrames(s, closed)
           E == SeenEvents(s, closed)
           st == IF c.st = "drained" THEN "gone" ELSE c.st
           owes == c.owes /\ c.tx = <<>>
           d == [c EXCEPT !.tx = <<>>, !.ev = <<>>, !.owes = owes, !.st = st]
<1>1. c \in Connection(Seq(F), Seq(E)) /\ c.st \in States /\ <<>> \in Seq(F) /\ <<>> \in Seq(E)
  BY EmptySeq DEF ConnectionOf, Connection
<1>2. st \in States /\ (st \in Over <=> c.st \in Over) /\ owes \in BOOLEAN
  BY <1>1 DEF States, Over
<1>3. Collect(c) = [conn |-> d, transmits |-> c.tx, events |-> c.ev]
  BY DEF Collect
<1> HIDE DEF F, E, st, owes
<1>4. d \in Connection(Seq(F), Seq(E))
  BY <1>1, <1>2, SetConnection, Zenon
<1>5. d.got = c.got /\ d.st = st
  BY <1>1 DEF Connection
<1> HIDE DEF d
<1>6. Collect(c).conn = d /\ Collect(c).transmits = c.tx /\ Collect(c).events = c.ev
  BY <1>3
<1>7. QED BY <1>2, <1>4, <1>5, <1>6, Zenon DEF ConnectionOf, F, E

-----------------------------------------------------------------------------
(* The queues of a driver *)

\* Once the client has closed, what may be sent and reported only grows.
LEMMA Widens ==
  ASSUME NEW s \in Side, NEW a \in BOOLEAN, NEW b \in BOOLEAN, a => b
  PROVE  /\ Seq(SentFrames(s, a)) \subseteq Seq(SentFrames(s, b))
         /\ Seq(SeenEvents(s, a)) \subseteq Seq(SeenEvents(s, b))
         /\ ConnectionOf(s, a) \subseteq ConnectionOf(s, b)
         /\ \A shut \in BOOLEAN :
              Seq(QueuedEvents(s, a, shut)) \subseteq Seq(QueuedEvents(s, b, shut))
<1>1. SentFrames(s, a) \subseteq SentFrames(s, b) /\ SeenEvents(s, a) \subseteq SeenEvents(s, b)
  BY DEF SentFrames, SeenEvents
<1>2. /\ Seq(SentFrames(s, a)) \subseteq Seq(SentFrames(s, b))
      /\ Seq(SeenEvents(s, a)) \subseteq Seq(SeenEvents(s, b))
  BY <1>1, SeqMonotonic, Zenon
<1>3. ASSUME NEW X, NEW Y, NEW E, NEW F, X \subseteq Y, E \subseteq F
      PROVE  Connection(X, E) \subseteq Connection(Y, F)
  BY <1>3 DEF Connection
<1>4. ConnectionOf(s, a) \subseteq ConnectionOf(s, b)
  BY <1>2, <1>3, Zenon DEF ConnectionOf
<1>5. ASSUME NEW shut \in BOOLEAN
      PROVE  Seq(QueuedEvents(s, a, shut)) \subseteq Seq(QueuedEvents(s, b, shut))
  <2>1. QueuedEvents(s, a, shut) \subseteq QueuedEvents(s, b, shut)
    BY <1>1 DEF QueuedEvents
  <2>2. QED BY <2>1, SeqMonotonic, Zenon
<1>6. QED BY <1>2, <1>4, <1>5

\* The same once the guest has closed.
LEMMA GuestWidens ==
  ASSUME NEW s \in Side, NEW closed \in BOOLEAN, NEW a \in BOOLEAN, NEW b \in BOOLEAN, a => b
  PROVE  /\ Seq(QueuedEvents(s, closed, a)) \subseteq Seq(QueuedEvents(s, closed, b))
         /\ Seq(SeenEvents(s, closed)) \subseteq Seq(QueuedEvents(s, closed, b))
         /\ Seq(GuestsEvents(b)) \subseteq Seq(QueuedEvents(s, closed, b))
<1>1. /\ QueuedEvents(s, closed, a) \subseteq QueuedEvents(s, closed, b)
      /\ SeenEvents(s, closed) \subseteq QueuedEvents(s, closed, b)
      /\ GuestsEvents(b) \subseteq QueuedEvents(s, closed, b)
  BY DEF QueuedEvents, GuestsEvents
<1>2. QED BY <1>1, SeqMonotonic, Zenon

\* A queue with a loss, or a close, in it still has it when more is appended.
LEMMA StillIn ==
  ASSUME NEW S, NEW a \in Seq(S), NEW b \in Seq(S)
  PROVE  /\ HasLoss(a) \/ HasLoss(b) => HasLoss(a \o b)
         /\ HasClose(a) \/ HasClose(b) => HasClose(a \o b)
<1> DEFINE e == a \o b
<1>1. /\ Len(a) \in Nat /\ Len(b) \in Nat /\ Len(e) = Len(a) + Len(b)
      /\ \A i \in 1..(Len(a) + Len(b)) : e[i] = IF i <= Len(a) THEN a[i] ELSE b[i - Len(a)]
  BY ConcatProperties, LenProperties
<1> HIDE DEF e
<1>2. ASSUME NEW i \in 1..Len(a) PROVE i \in 1..Len(e) /\ e[i] = a[i]
  BY <1>1
<1>3. ASSUME NEW i \in 1..Len(b) PROVE Len(a) + i \in 1..Len(e) /\ e[Len(a) + i] = b[i]
  <2>1. Len(a) + i \in 1..(Len(a) + Len(b)) /\ ~(Len(a) + i <= Len(a))
    BY <1>1
  <2>2. (Len(a) + i) - Len(a) = i
    BY <1>1
  <2>3. QED BY <1>1, <2>1, <2>2
<1>4. HasLoss(a) \/ HasLoss(b) => HasLoss(e)
  BY <1>2, <1>3, Zenon DEF HasLoss
<1>5. HasClose(a) \/ HasClose(b) => HasClose(e)
  BY <1>2, <1>3, Zenon DEF HasClose
<1>6. QED BY <1>4, <1>5 DEF e

\* Concatenation is associative.
LEMMA QueueAssoc ==
  ASSUME NEW S, NEW a \in Seq(S), NEW b \in Seq(S), NEW c \in Seq(S)
  PROVE  (a \o b) \o c = a \o (b \o c)
BY ConcatAssociative

\* Appending two batches to what is queued, before or after what was sent.
Reassociates(h, o, u, v) == ((h \o o) \o u) \o v = h \o ((o \o u) \o v)

\* It makes no difference.
LEMMA BatchesAssoc ==
  ASSUME NEW S, NEW h \in Seq(S), NEW o \in Seq(S), NEW u \in Seq(S), NEW v \in Seq(S)
  PROVE  Reassociates(h, o, u, v)
<1>1. o \o u \in Seq(S)
  BY ConcatProperties
<1>2. (h \o o) \o u = h \o (o \o u)
  BY QueueAssoc
<1>3. ASSUME NEW w \in Seq(S) PROVE (h \o w) \o v = h \o (w \o v)
  BY QueueAssoc
<1>4. (h \o (o \o u)) \o v = h \o ((o \o u) \o v)
  BY <1>1, <1>3
<1>5. QED BY <1>2, <1>4 DEF Reassociates

\* A prefix of a queue followed by the rest of it is the queue.
LEMMA JoinSplit ==
  ASSUME NEW S, NEW q \in Seq(S), NEW k \in 0..Len(q), NEW a \in Seq(S), NEW r \in Seq(S),
         Len(a) = k, \A i \in 1..k : a[i] = q[i],
         Len(r) = Len(q) - k, \A i \in 1..(Len(q) - k) : r[i] = q[k + i]
  PROVE  a \o r = q
<1>0. Len(q) \in Nat /\ k \in Nat /\ k <= Len(q) /\ Len(q) - k \in Nat
  BY LenProperties
<1>1. a \o r \in Seq(S) /\ Len(a \o r) = Len(q)
  BY <1>0, ConcatProperties
<1>2. ASSUME NEW i \in 1..Len(q) PROVE (a \o r)[i] = q[i]
  <2>1. (a \o r)[i] = IF i <= k THEN a[i] ELSE r[i - k]
    BY <1>0, ConcatProperties
  <2>2. i <= k \/ i > k
    BY <1>0
  <2>3. CASE i <= k
    <3>1. i \in 1..k
      BY <1>0, <2>3
    <3>2. QED BY <2>1, <2>3, <3>1
  <2>4. CASE i > k
    <3>1. i - k \in 1..(Len(q) - k) /\ k + (i - k) = i /\ ~(i <= k)
      BY <1>0, <2>4
    <3>2. QED BY <2>1, <3>1
  <2>5. QED BY <2>2, <2>3, <2>4
<1>3. QED BY <1>1, <1>2, SeqEqual

\* Sending a prefix of the queue leaves the rest of it, whichever driver
\* sends: what was handed over and what is queued is what it was before.
LEMMA FlushSplits ==
  ASSUME NEW S, NEW q \in Seq(S), NEW done \in Seq(S), NEW k \in 0..Len(q)
  PROVE  /\ SubSeq(q, 1, k) \in Seq(S) /\ Unsent(q, k) \in Seq(S)
         /\ NativeUnsent(q, k) = Unsent(q, k)
         /\ (done \o SubSeq(q, 1, k)) \o Unsent(q, k) = done \o q
<1> DEFINE a == SubSeq(q, 1, k)
           r == Unsent(q, k)
<1>0. Len(q) \in Nat /\ Len(done) \in Nat /\ k \in Nat /\ k <= Len(q) /\ Len(q) - k \in Nat
  BY LenProperties
<1>1. a \in Seq(S) /\ Len(a) = k /\ \A i \in 1..k : a[i] = q[i]
  BY <1>0
<1>2. /\ r \in Seq(S) /\ Len(r) = Len(q) - k
      /\ \A i \in 1..(Len(q) - k) : r[i] = q[k + i]
  BY <1>0 DEF Unsent
<1>3. NativeUnsent(q, k) = r
  <2> SUFFICES ASSUME NEW u \in Seq(S), Len(u) = Len(q) - k,
                      \A i \in 1..(Len(q) - k) : u[i] = q[k + i]
               PROVE  NativeUnsent(q, k) = u
    BY <1>2, Zenon
  <2>1. u = [i \in 1..(Len(q) - k) |-> u[i]]
    BY <1>0
  <2>2. QED BY <2>1, Zenon DEF NativeUnsent
<1> HIDE DEF a, r
<1>4. a \o r = q
  BY <1>1, <1>2, JoinSplit, Zenon
<1>5. (done \o a) \o r = done \o (a \o r)
  <2>1. ASSUME NEW x \in Seq(S), NEW y \in Seq(S) PROVE (done \o x) \o y = done \o (x \o y)
    BY QueueAssoc
  <2>2. QED BY <1>1, <1>2, <2>1
<1>6. QED BY <1>1, <1>2, <1>3, <1>4, <1>5 DEF a, r

\* The same for what was handed over before.
LEMMA FlushOrder ==
  ASSUME NEW S, NEW h \in Seq(S), NEW q \in Seq(S), NEW k \in 0..Len(q)
  PROVE  (h \o SubSeq(q, 1, k)) \o Unsent(q, k) = h \o q
BY FlushSplits

-----------------------------------------------------------------------------
(* One call of Driver::pump *)

\* The connection a pump leaves behind follows on the one it found.
LEMMA PumpedConnection ==
  ASSUME DriverInv, NEW s \in Side
  PROVE  Follows(s, Closed, conn[s], HandleTimeout(Receive(s), due[s], lost[s]))
<1>1. Closed \in BOOLEAN
  BY DEF Closed
<1>2. /\ conn[s] \in ConnectionOf(s, Closed)
      /\ net[s] \in Seq(SentFrames(Peer(s), Closed))
      /\ lost[s] \in Seq(SentFrames(s, Closed))
  BY Zenon DEF DriverInv
<1> HIDE DEF Closed
<1>3. Follows(s, Closed, conn[s], Receive(s))
  BY <1>1, <1>2, HandleAllKeeps, Zenon DEF Receive
<1>4. Receive(s) \in ConnectionOf(s, Closed)
  BY <1>3, Zenon DEF Follows
<1>5. Follows(s, Closed, Receive(s), HandleTimeout(Receive(s), due[s], lost[s]))
  BY <1>1, <1>2, <1>4, HandleTimeoutKeeps, Zenon
<1>6. QED BY <1>3, <1>5, FollowsOn, Zenon

\* The guest's connection after a datagram or a timer: a close stays one, and
\* is an event only when it is one.
LEMMA GuestSteps ==
  ASSUME GuestInv, NEW timer
  PROVE  LET h == GuestHandled(guest, timer)
         IN  /\ h \in AnyGuest
             /\ h.why = "closed" => h.st \in {"draining", "gone"}
             /\ Shut => h.why = "closed"
             /\ GuestEvents(guest, h) \in Seq(GuestsEvents(h.why = "closed"))
<1> DEFINE g == guest
           h == GuestHandled(guest, timer)
           G == GuestsEvents(h.why = "closed")
<1>1. g \in AnyGuest /\ (g.why = "closed" => g.st \in {"draining", "gone"})
  BY DEF GuestInv, Shut
<1>2. Append(g.tx, Frame("stray", 0)) \in Seq(Strays)
  <2>1. Frame("stray", 0) \in Strays
    BY DEF Frame, Strays, AnyFrame, FrameTypes
  <2>2. g.tx \in Seq(Strays)
    BY <1>1 DEF AnyGuest
  <2>3. QED BY <2>1, <2>2, AppendProperties
<1>3. PICK st \in {"none", "open", "up", "draining", "gone"}, why \in {"none", "closed", "timedout"},
           asked \in BOOLEAN, tx \in Seq(Strays) :
        /\ h = [g EXCEPT !.st = st, !.why = why, !.asked = asked, !.tx = tx]
        /\ why = "closed" => st \in {"draining", "gone"}
        /\ g.why = "closed" => why = "closed"
  <2> DEFINE H(st, why, asked, tx) == [g EXCEPT !.st = st, !.why = why, !.asked = asked, !.tx = tx]
             Fine(x) == \E st \in {"none", "open", "up", "draining", "gone"},
                           why \in {"none", "closed", "timedout"}, asked \in BOOLEAN, tx \in Seq(Strays) :
                          /\ x = H(st, why, asked, tx)
                          /\ why = "closed" => st \in {"draining", "gone"}
                          /\ g.why = "closed" => why = "closed"
  <2>1. /\ g.st \in {"none", "open", "up", "draining", "gone"}
        /\ g.why \in {"none", "closed", "timedout"} /\ g.asked \in BOOLEAN /\ g.tx \in Seq(Strays)
    BY <1>1 DEF AnyGuest
  <2>2. CASE g.frame = "hello" /\ g.st = "none"
    <3>1. h = H("open", g.why, g.asked, Append(g.tx, Frame("stray", 0)))
      BY <1>1, <2>2 DEF GuestHandled, AnyGuest
    <3>2. QED BY <1>1, <1>2, <2>1, <2>2, <3>1
  <2>3. CASE ~(g.frame = "hello" /\ g.st = "none") /\ g.frame = "done" /\ g.st = "open"
    <3>1. h = H("up", g.why, g.asked, g.tx)
      BY <1>1, <2>3 DEF GuestHandled, AnyGuest
    <3>2. QED BY <1>1, <2>1, <2>3, <3>1
  <2>4. CASE g.frame = "fin" /\ g.st = "up"
    <3>1. h = H("up", g.why, TRUE, g.tx)
      BY <1>1, <2>4 DEF GuestHandled, AnyGuest
    <3>2. QED BY <1>1, <2>1, <2>4, <3>1
  <2>5. CASE g.frame = "close" /\ g.st = "up"
    <3>1. h = H("draining", "closed", g.asked, g.tx)
      BY <1>1, <2>5 DEF GuestHandled, AnyGuest
    <3>2. QED BY <1>1, <2>1, <2>5, <3>1
  <2>6. CASE g.frame = "none" /\ timer = "guest" /\ g.st \in {"open", "up"}
    <3>1. h = H("gone", "timedout", g.asked, g.tx)
      BY <1>1, <2>6 DEF GuestHandled, AnyGuest
    <3>2. QED BY <1>1, <2>1, <2>6, <3>1
  <2>7. CASE g.frame = "none" /\ timer = "guest" /\ g.st = "draining"
    <3>1. h = H("gone", g.why, g.asked, g.tx)
      BY <1>1, <2>7 DEF GuestHandled, AnyGuest
    <3>2. QED BY <1>1, <2>1, <2>7, <3>1
  <2>8. CASE /\ ~(g.frame = "hello" /\ g.st = "none") /\ ~(g.frame = "done" /\ g.st = "open")
             /\ ~(g.frame = "fin" /\ g.st = "up") /\ ~(g.frame = "close" /\ g.st = "up")
             /\ ~(g.frame = "none" /\ timer = "guest" /\ g.st \in {"open", "up"})
             /\ ~(g.frame = "none" /\ timer = "guest" /\ g.st = "draining")
    <3>1. h = g
      BY <2>8, Zenon DEF GuestHandled
    <3>2. g = H(g.st, g.why, g.asked, g.tx)
      BY <1>1 DEF AnyGuest
    <3>3. QED BY <1>1, <2>1, <3>1, <3>2
  <2>9. QED BY <2>2, <2>3, <2>4, <2>5, <2>6, <2>7, <2>8
<1>4. /\ h \in AnyGuest /\ h.st = st /\ h.why = why
  BY <1>1, <1>3 DEF AnyGuest
<1> HIDE DEF h
<1>5. GuestEvents(g, h) \in Seq(G)
  <2>1. ASSUME NEW e \in G PROVE <<e>> \in Seq(G)
    OBVIOUS
  <2>2. <<>> \in Seq(G)
    BY EmptySeq
  <2>3. /\ "GuestConnected" \in G /\ "GuestTimedOut" \in G
        /\ h.why = "closed" => "GuestClosed" \in G
    BY DEF GuestsEvents, GuestEvent
  <2> HIDE DEF G
  <2>4. QED BY <2>1, <2>2, <2>3, Zenon DEF GuestEvents
<1>6. QED BY <1>3, <1>4, <1>5, Zenon DEF h, Shut

\* What a pump makes of the guest.
LEMMA GuestPumped ==
  ASSUME GuestInv, NEW s \in Side
  PROVE  /\ GuestAfter(s) \in AnyGuest
         /\ GuestAfter(s).why = "closed" => GuestAfter(s).st \in {"draining", "gone"}
         /\ Shut => GuestAfter(s).why = "closed"
         /\ GuestTells(s) \in Seq(GuestsEvents(GuestAfter(s).why = "closed"))
         /\ GuestSends(s) \in Seq(Strays)
<1>1. guest \in AnyGuest /\ (Shut => guest.st \in {"draining", "gone"})
  BY DEF GuestInv
<1>2. CASE s = "server"
  <2>1. GuestAfter(s) = GuestHandled(guest, due[s]) /\ GuestSends(s) = GuestAfter(s).tx
    BY <1>2, Zenon DEF GuestAfter, GuestSends
  <2>2. GuestTells(s) = GuestEvents(guest, GuestHandled(guest, due[s]))
    BY <2>1, Zenon DEF GuestTells
  <2>3. LET h == GuestHandled(guest, due[s])
        IN  /\ h \in AnyGuest
            /\ h.why = "closed" => h.st \in {"draining", "gone"}
            /\ Shut => h.why = "closed"
            /\ GuestEvents(guest, h) \in Seq(GuestsEvents(h.why = "closed"))
    BY GuestSteps
  <2>4. ASSUME NEW h \in AnyGuest PROVE h.tx \in Seq(Strays)
    BY DEF AnyGuest
  <2>5. QED BY <2>1, <2>2, <2>3, <2>4, Zenon
<1>3. CASE s # "server"
  <2>1. GuestAfter(s) = guest /\ GuestSends(s) = <<>>
    BY <1>3 DEF GuestAfter, GuestSends
  <2>2. GuestEvents(guest, guest) = <<>>
    BY DEF GuestEvents
  <2>3. GuestTells(s) = <<>>
    BY <2>1, <2>2 DEF GuestTells
  <2>4. QED BY <1>1, <2>1, <2>3, EmptySeq DEF Shut
<1>4. QED BY <1>2, <1>3

\* What the endpoint answers by itself is queued like the rest.
LEMMA ResponsesType ==
  ASSUME DriverInv, NEW s \in Side
  PROVE  Responses(s) \in Seq(SentFrames(s, Closed))
<1> DEFINE strays == {i \in 1..Len(net[s]) : net[s][i].t = "stray"}
           n == Cardinality(strays)
           F == SentFrames(s, Closed)
<1>1. Closed \in BOOLEAN
  BY DEF Closed
<1>2. Len(net[s]) \in Nat
  BY LenProperties DEF DriverInv
<1>3. IsFiniteSet(1..Len(net[s]))
  BY <1>2, FS_Interval
<1>4. n \in Nat
  BY <1>3, FS_Subset, FS_CardinalityType
<1>5. Frame("stray", 0) \in F
  BY <1>1, OwnFrame DEF FrameTypes
<1>6. Responses(s) = [i \in 1..n |-> Frame("stray", 0)] \o GuestSends(s)
  BY DEF Responses
<1>7. GuestSends(s) \in Seq(F)
  <2>1. GuestInv
    BY Zenon DEF DriverInv
  <2>2. GuestSends(s) \in Seq(Strays)
    BY <2>1, GuestPumped
  <2>3. Strays \subseteq F
    BY DEF Strays, SentFrames
  <2>4. QED BY <2>2, <2>3, SeqMonotonic, Zenon
<1> HIDE DEF n, F
<1>8. [i \in 1..n |-> Frame("stray", 0)] \in Seq(F)
  BY <1>4, <1>5
<1>9. ASSUME NEW u \in Seq(F), NEW v \in Seq(F) PROVE u \o v \in Seq(F)
  BY ConcatProperties
<1>10. QED BY <1>6, <1>7, <1>8, <1>9, Zenon DEF F

\* The parts of a pump that the invariant is about: the connection c it leaves
\* behind, what it collects (the endpoint's answers x, the connection's
\* transmits y), the queue q it offers the socket, what it tells.
PumpedTo(s, sent, c, x, y, q) ==
  /\ Follows(s, Closed, conn[s], c)
  /\ x \in Seq(SentFrames(s, Closed)) /\ y = c.tx
  /\ q = (outbound[s] \o x) \o y /\ q \in Seq(SentFrames(s, Closed))
  /\ sent \in 0..Len(q)
  /\ conn' = [conn EXCEPT ![s] = Collect(c).conn]
  /\ GuestInv' /\ (Shut => Shut')
  /\ \E new \in Seq(QueuedEvents(s, Closed, Shut')) : events' = [events EXCEPT ![s] = @ \o new]
  /\ told' = [told EXCEPT ![s] = @ \o c.ev]
  /\ outbound' = [outbound EXCEPT ![s] = Unsent(q, sent)]
  /\ made' = [made EXCEPT ![s] = (@ \o x) \o y]
  /\ handed' = [handed EXCEPT ![s] = @ \o SubSeq(q, 1, sent)]
  /\ net' = [net EXCEPT ![s] = <<>>,
                        ![Peer(s)] = IF cut THEN @ ELSE @ \o ToPeer(SubSeq(q, 1, sent))]
  /\ lost' = [lost EXCEPT ![s] = IF due[s] = "loss" THEN <<>> ELSE @]

\* Every pump has these parts.
LEMMA PumpParts ==
  ASSUME DriverInv, NEW s \in Side, NEW sent \in Nat, PumpDriver(s, sent)
  PROVE  \E c, x, y, q : PumpedTo(s, sent, c, x, y, q)
<1> DEFINE F == SentFrames(s, Closed)
           c == HandleTimeout(Receive(s), due[s], lost[s])
           x == Responses(s)
           y == c.tx
           q == (outbound[s] \o x) \o y
<1>1. Closed \in BOOLEAN
  BY DEF Closed
<1>2. Follows(s, Closed, conn[s], c)
  BY PumpedConnection
<1>3. c \in ConnectionOf(s, Closed)
  BY <1>2, Zenon DEF Follows
<1>4. Collect(c).transmits = c.tx /\ Collect(c).events = c.ev
  BY <1>1, <1>3, CollectKeeps, Zenon
<1>5. x \in Seq(F) /\ y \in Seq(F) /\ outbound[s] \in Seq(F)
  <2>1. y \in Seq(F)
    BY <1>3 DEF ConnectionOf, Connection
  <2>2. outbound[s] \in Seq(F)
    BY Zenon DEF DriverInv
  <2>3. QED BY <2>1, <2>2, ResponsesType
<1>6. q \in Seq(F)
  <2> HIDE DEF F, x, y
  <2>1. ASSUME NEW a \in Seq(F), NEW b \in Seq(F), NEW d \in Seq(F) PROVE (a \o b) \o d \in Seq(F)
    BY ConcatProperties
  <2>2. QED BY <1>5, <2>1
<1>7. OutboundAfter(s, c) = q
  BY <1>4, Zenon DEF OutboundAfter
<1> HIDE DEF c, x, q, F
<1> DEFINE g == GuestAfter(s)
           tells == GuestTells(s)
<1>8. /\ SocketSend(s, q, sent)
      /\ conn' = [conn EXCEPT ![s] = Collect(c).conn]
      /\ \E new \in {c.ev \o tells, tells \o c.ev} : events' = [events EXCEPT ![s] = @ \o new]
      /\ guest' = [g EXCEPT !.frame = IF s = "server" THEN "none" ELSE @,
                            !.tx = IF s = "server" THEN <<>> ELSE @]
      /\ told' = [told EXCEPT ![s] = @ \o c.ev]
      /\ outbound' = [outbound EXCEPT ![s] = IF mode = "native" THEN NativeUnsent(q, sent)
                                                               ELSE Unsent(q, sent)]
      /\ made' = [made EXCEPT ![s] = (@ \o x) \o y]
      /\ handed' = [handed EXCEPT ![s] = @ \o SubSeq(q, 1, sent)]
      /\ net' = [net EXCEPT ![s] = <<>>,
                            ![Peer(s)] = IF cut THEN @ ELSE @ \o ToPeer(SubSeq(q, 1, sent))]
      /\ lost' = [lost EXCEPT ![s] = IF due[s] = "loss" THEN <<>> ELSE @]
  BY <1>4, <1>7, Zenon DEF PumpDriver, c, x
<1>9. sent \in 0..Len(q)
  BY <1>6, <1>8, LenProperties DEF SocketSend
<1>10. NativeUnsent(q, sent) = Unsent(q, sent)
  BY <1>6, <1>9, FlushSplits, Zenon
<1>11. outbound' = [outbound EXCEPT ![s] = Unsent(q, sent)]
  BY <1>8, <1>10, Zenon
<1>12. q = (outbound[s] \o x) \o y
  BY DEF q
<1>13. /\ g \in AnyGuest /\ (g.why = "closed" => g.st \in {"draining", "gone"})
       /\ Shut => g.why = "closed"
       /\ tells \in Seq(GuestsEvents(g.why = "closed"))
  <2>1. GuestInv
    BY Zenon DEF DriverInv
  <2>2. QED BY <2>1, GuestPumped, Zenon
<1> HIDE DEF g, tells
<1>14. /\ guest' \in AnyGuest /\ guest'.why = g.why /\ guest'.st = g.st
  BY <1>8, <1>13, EmptySeq DEF AnyGuest
<1>15. Shut' <=> g.why = "closed"
  BY <1>14 DEF Shut
<1>16. GuestInv' /\ (Shut => Shut')
  BY <1>13, <1>14, <1>15 DEF GuestInv
<1>17. \E new \in Seq(QueuedEvents(s, Closed, Shut')) : events' = [events EXCEPT ![s] = @ \o new]
  <2> DEFINE Q == QueuedEvents(s, Closed, Shut')
  <2>1. Shut' \in BOOLEAN /\ Shut' = (g.why = "closed")
    BY <1>15 DEF Shut
  <2>2. Seq(SeenEvents(s, Closed)) \subseteq Seq(Q) /\ Seq(GuestsEvents(Shut')) \subseteq Seq(Q)
    BY <1>1, <2>1, GuestWidens, Zenon
  <2>3. c.ev \in Seq(SeenEvents(s, Closed))
    BY <1>3 DEF ConnectionOf, Connection
  <2>4. tells \in Seq(GuestsEvents(Shut'))
    BY <1>13, <2>1, Zenon
  <2> HIDE DEF Q
  <2>5. c.ev \in Seq(Q) /\ tells \in Seq(Q)
    BY <2>2, <2>3, <2>4, Zenon
  <2>6. c.ev \o tells \in Seq(Q) /\ tells \o c.ev \in Seq(Q)
    <3>1. ASSUME NEW u \in Seq(Q), NEW v \in Seq(Q) PROVE u \o v \in Seq(Q)
      BY ConcatProperties
    <3>2. QED BY <2>5, <3>1, Zenon
  <2>7. QED BY <1>8, <2>6, Zenon DEF Q
<1>18. PumpedTo(s, sent, c, x, y, q)
  BY <1>2, <1>5, <1>6, <1>8, <1>9, <1>11, <1>12, <1>16, <1>17, Zenon DEF F, PumpedTo
<1>19. QED BY <1>18, Zenon

\* A pump that is not the program's last word on a phase: the types stay.
LEMMA PumpKeepsTypes ==
  ASSUME Sided, DriverInv, NEW s \in Side, NEW sent \in Nat, PumpDriver(s, sent),
         Closed' = Closed
  PROVE  Sided' /\ DriverInv'
<1>0. PICK c, x, y, q : PumpedTo(s, sent, c, x, y, q)
  BY PumpParts, Zenon
<1>1. /\ Follows(s, Closed, conn[s], c)
      /\ x \in Seq(SentFrames(s, Closed)) /\ y = c.tx
      /\ q = (outbound[s] \o x) \o y /\ q \in Seq(SentFrames(s, Closed))
      /\ sent \in 0..Len(q)
      /\ conn' = [conn EXCEPT ![s] = Collect(c).conn]
      /\ GuestInv' /\ (Shut => Shut')
      /\ \E new \in Seq(QueuedEvents(s, Closed, Shut')) : events' = [events EXCEPT ![s] = @ \o new]
      /\ told' = [told EXCEPT ![s] = @ \o c.ev]
      /\ outbound' = [outbound EXCEPT ![s] = Unsent(q, sent)]
      /\ made' = [made EXCEPT ![s] = (@ \o x) \o y]
      /\ handed' = [handed EXCEPT ![s] = @ \o SubSeq(q, 1, sent)]
      /\ net' = [net EXCEPT ![s] = <<>>,
                            ![Peer(s)] = IF cut THEN @ ELSE @ \o ToPeer(SubSeq(q, 1, sent))]
      /\ lost' = [lost EXCEPT ![s] = IF due[s] = "loss" THEN <<>> ELSE @]
  BY <1>0, Zenon DEF PumpedTo
<1> DEFINE F == SentFrames(s, Closed)
           E == SeenEvents(s, Closed)
           Q == QueuedEvents(s, Closed, Shut')
           a == SubSeq(q, 1, sent)
<1>w. PICK new \in Seq(Q) : events' = [events EXCEPT ![s] = @ \o new]
  BY <1>1
<1>2. Closed \in BOOLEAN /\ Shut \in BOOLEAN /\ Shut' \in BOOLEAN
  BY DEF Closed, Shut
<1>3. Sided'
  BY <1>1, <1>w DEF Sided
<1>v. \A t \in Side : events[t] \in Seq(QueuedEvents(t, Closed, Shut'))
  <2>1. \A t \in Side : events[t] \in Seq(QueuedEvents(t, Closed, Shut))
    BY Zenon DEF DriverInv
  <2>2. \A t \in Side : Seq(QueuedEvents(t, Closed, Shut)) \subseteq Seq(QueuedEvents(t, Closed, Shut'))
    BY <1>1, <1>2, GuestWidens, Zenon
  <2>3. QED BY <2>1, <2>2, Zenon
<1>4. c \in ConnectionOf(s, Closed) /\ c.tx \in Seq(F) /\ c.ev \in Seq(E)
  <2>1. c \in ConnectionOf(s, Closed)
    BY <1>1, Zenon DEF Follows
  <2>2. QED BY <2>1 DEF ConnectionOf, Connection
<1>5. /\ outbound[s] \in Seq(F) /\ made[s] \in Seq(F) /\ handed[s] \in Seq(F) /\ lost[s] \in Seq(F)
      /\ events[s] \in Seq(Q) /\ told[s] \in Seq(E)
  BY <1>v, Zenon DEF DriverInv
<1>6. Collect(c).conn \in ConnectionOf(s, Closed)
  BY <1>2, <1>4, CollectKeeps, Zenon
<1>7. a \in Seq(F) /\ Unsent(q, sent) \in Seq(F)
  BY <1>1, <1>5, FlushSplits, Zenon
<1>8. ToPeer(a) \in Seq(F)
  BY <1>7, ToPeerType, Zenon
<1>9. Peer(s) \in Side /\ Peer(s) # s /\ Peer(Peer(s)) = s
  BY DEF Peer, Side
<1>10. net[Peer(s)] \in Seq(F)
  BY <1>9, Zenon DEF DriverInv
<1>11. ASSUME NEW T, NEW u \in Seq(T), NEW v \in Seq(T) PROVE u \o v \in Seq(T)
  BY ConcatProperties
<1>12. <<>> \in Seq(F) /\ <<>> \in Seq(SentFrames(Peer(s), Closed))
  BY EmptySeq
<1> HIDE DEF F, E, Q, a
<1>13. /\ events[s] \o new \in Seq(Q) /\ told[s] \o c.ev \in Seq(E)
       /\ (made[s] \o x) \o y \in Seq(F) /\ handed[s] \o a \in Seq(F)
       /\ net[Peer(s)] \o ToPeer(a) \in Seq(F)
  BY <1>1, <1>w, <1>4, <1>5, <1>7, <1>8, <1>10, <1>11, Zenon DEF F
<1>14. /\ conn'[s] \in ConnectionOf(s, Closed)
       /\ outbound'[s] \in Seq(F) /\ lost'[s] \in Seq(F)
       /\ made'[s] \in Seq(F) /\ handed'[s] \in Seq(F)
       /\ net'[s] = <<>> /\ net'[Peer(s)] \in Seq(F)
       /\ events'[s] \in Seq(Q) /\ told'[s] \in Seq(E)
  <2>1. conn'[s] = Collect(c).conn /\ outbound'[s] = Unsent(q, sent)
    BY <1>1 DEF Sided
  <2>2. made'[s] = (made[s] \o x) \o y /\ handed'[s] = handed[s] \o a
    BY <1>1 DEF Sided, a
  <2>3. events'[s] = events[s] \o new /\ told'[s] = told[s] \o c.ev
    BY <1>1, <1>w DEF Sided
  <2>4. lost'[s] = (IF due[s] = "loss" THEN <<>> ELSE lost[s])
    BY <1>1 DEF Sided
  <2>5. net'[s] = <<>> /\ net'[Peer(s)] = IF cut THEN net[Peer(s)] ELSE net[Peer(s)] \o ToPeer(a)
    BY <1>1, <1>9 DEF Sided, a
  <2>6. QED BY <1>5, <1>6, <1>7, <1>10, <1>12, <1>13, <2>1, <2>2, <2>3, <2>4, <2>5, Zenon
<1>15. ASSUME NEW t \in Side, t # s
       PROVE  /\ t = Peer(s)
              /\ conn'[t] = conn[t] /\ outbound'[t] = outbound[t] /\ lost'[t] = lost[t]
              /\ made'[t] = made[t] /\ handed'[t] = handed[t]
              /\ events'[t] = events[t] /\ told'[t] = told[t]
  <2>1. t = Peer(s)
    BY <1>15 DEF Peer, Side
  <2>2. QED BY <1>1, <1>w, <1>15, <2>1 DEF Sided
<1>16. ASSUME NEW t \in Side
       PROVE  /\ conn'[t] \in ConnectionOf(t, Closed)
              /\ outbound'[t] \in Seq(SentFrames(t, Closed))
              /\ lost'[t] \in Seq(SentFrames(t, Closed))
              /\ made'[t] \in Seq(SentFrames(t, Closed))
              /\ handed'[t] \in Seq(SentFrames(t, Closed))
              /\ net'[t] \in Seq(SentFrames(Peer(t), Closed))
              /\ events'[t] \in Seq(QueuedEvents(t, Closed, Shut'))
              /\ told'[t] \in Seq(SeenEvents(t, Closed))
  <2>1. CASE t = s
    BY <1>12, <1>14, <2>1, Zenon DEF F, E, Q
  <2>2. CASE t # s
    BY <1>v, <1>9, <1>14, <1>15, <2>2, Zenon DEF DriverInv, F
  <2>3. QED BY <2>1, <2>2
<1>17. DriverInv'
  BY <1>1, <1>16, Zenon DEF DriverInv
<1>18. QED BY <1>3, <1>17

\* A pump hands on in order what it collected before.
LEMMA PumpKeepsOrder ==
  ASSUME Sided, DriverInv, FlushedInOrder, NEW s \in Side, NEW sent \in Nat,
         PumpDriver(s, sent)
  PROVE  FlushedInOrder'
<1>0. PICK c, x, y, q : PumpedTo(s, sent, c, x, y, q)
  BY PumpParts, Zenon
<1>1. /\ Follows(s, Closed, conn[s], c)
      /\ x \in Seq(SentFrames(s, Closed)) /\ y = c.tx
      /\ q = (outbound[s] \o x) \o y /\ q \in Seq(SentFrames(s, Closed))
      /\ sent \in 0..Len(q)
      /\ outbound' = [outbound EXCEPT ![s] = Unsent(q, sent)]
      /\ made' = [made EXCEPT ![s] = (@ \o x) \o y]
      /\ handed' = [handed EXCEPT ![s] = @ \o SubSeq(q, 1, sent)]
  BY <1>0, Zenon DEF PumpedTo
<1> DEFINE F == SentFrames(s, Closed)
           a == SubSeq(q, 1, sent)
<1>2. c \in ConnectionOf(s, Closed)
  BY <1>1, Zenon DEF Follows
<1>3. y \in Seq(F)
  BY <1>1, <1>2 DEF ConnectionOf, Connection
<1>4. outbound[s] \in Seq(F) /\ made[s] \in Seq(F) /\ handed[s] \in Seq(F) /\ x \in Seq(F)
  BY <1>1, Zenon DEF DriverInv
<1>5. /\ outbound'[s] = Unsent(q, sent) /\ made'[s] = (made[s] \o x) \o y
      /\ handed'[s] = handed[s] \o a
  BY <1>1 DEF Sided
<1>6. (handed[s] \o a) \o Unsent(q, sent) = ((handed[s] \o outbound[s]) \o x) \o y
  <2> HIDE DEF F
  <2>1. q \in Seq(F) /\ sent \in 0..Len(q)
    BY <1>1 DEF F
  <2>2. (handed[s] \o a) \o Unsent(q, sent) = handed[s] \o q
    BY <1>4, <2>1, FlushOrder, Zenon DEF a
  <2>3. ((handed[s] \o outbound[s]) \o x) \o y = handed[s] \o ((outbound[s] \o x) \o y)
    <3>1. Reassociates(handed[s], outbound[s], x, y)
      BY <1>3, <1>4, BatchesAssoc, Zenon
    <3>2. QED BY <3>1, Zenon DEF Reassociates
  <2>4. q = (outbound[s] \o x) \o y
    BY <1>1
  <2>5. QED BY <2>2, <2>3, <2>4, Zenon
<1>7. handed[s] \o outbound[s] = made[s]
  BY Zenon DEF FlushedInOrder
<1> HIDE DEF F, a
<1>8. (handed[s] \o a) \o Unsent(q, sent) = (made[s] \o x) \o y
  BY <1>6, <1>7, Zenon
<1>9. ASSUME NEW t \in Side PROVE handed'[t] \o outbound'[t] = made'[t]
  <2>1. CASE t = s
    BY <1>5, <1>8, <2>1, Zenon
  <2>2. CASE t # s
    <3>1. handed'[t] = handed[t] /\ outbound'[t] = outbound[t] /\ made'[t] = made[t]
      BY <1>1, <2>2 DEF Sided
    <3>2. QED BY <3>1, Zenon DEF FlushedInOrder
  <2>3. QED BY <2>1, <2>2
<1>10. QED BY <1>9, Zenon DEF FlushedInOrder

\* A connection that a pump ends has its loss told by the same pump.
LEMMA PumpKeepsLoss ==
  ASSUME Sided, DriverInv, LossInv, NEW s \in Side, NEW sent \in Nat, PumpDriver(s, sent),
         \A t \in Side : prog'[ProcessOf(t)'].phase = prog[ProcessOf(t)].phase
  PROVE  LossInv'
<1>0. PICK c, x, y, q : PumpedTo(s, sent, c, x, y, q)
  BY PumpParts, Zenon
<1>1. /\ Follows(s, Closed, conn[s], c)
      /\ conn' = [conn EXCEPT ![s] = Collect(c).conn]
      /\ told' = [told EXCEPT ![s] = @ \o c.ev]
  BY <1>0, Zenon DEF PumpedTo
<1> DEFINE E == SeenEvents(s, Closed)
<1>2. Closed \in BOOLEAN
  BY DEF Closed
<1>3. c \in ConnectionOf(s, Closed)
  BY <1>1, Zenon DEF Follows
<1>4. c.ev \in Seq(E) /\ told[s] \in Seq(E)
  <2>1. c.ev \in Seq(E)
    BY <1>3 DEF ConnectionOf, Connection
  <2>2. told[s] \in Seq(E)
    BY Zenon DEF DriverInv
  <2>3. QED BY <2>1, <2>2
<1>5. conn'[s] = Collect(c).conn /\ told'[s] = told[s] \o c.ev
  BY <1>1 DEF Sided
<1>6. conn'[s].st \in Over <=> c.st \in Over
  BY <1>2, <1>3, <1>5, CollectKeeps, Zenon
<1>7. HasLoss(told[s]) \/ HasLoss(c.ev) => HasLoss(told'[s])
  BY <1>4, <1>5, StillIn, Zenon
<1>8. ASSUME NEW t \in Side, conn'[t].st \in Over
      PROVE  HasLoss(conn'[t].ev) \/ HasLoss(told'[t]) \/ prog'[ProcessOf(t)'].phase = "flush"
  <2>1. CASE t = s
    <3>1. CASE conn[s].st \in Over
      <4>1. c.ev = conn[s].ev
        BY <1>1, <3>1, Zenon DEF Follows
      <4>2. HasLoss(conn[s].ev) \/ HasLoss(told[s]) \/ prog[ProcessOf(s)].phase = "flush"
        BY <3>1, Zenon DEF LossInv
      <4>3. QED BY <1>7, <2>1, <4>1, <4>2, Zenon
    <3>2. CASE conn[s].st \notin Over
      <4>1. c.st \in Over => HasLoss(c.ev)
        BY <1>1, <3>2, Zenon DEF Follows
      <4>2. QED BY <1>6, <1>7, <1>8, <2>1, <4>1, Zenon
    <3>3. QED BY <3>1, <3>2
  <2>2. CASE t # s
    <3>1. conn'[t] = conn[t] /\ told'[t] = told[t]
      BY <1>1, <2>2 DEF Sided
    <3>2. QED BY <1>8, <3>1, Zenon DEF LossInv
  <2>3. QED BY <2>1, <2>2
<1>9. QED BY <1>8, Zenon DEF LossInv

\* A pump after the client's close: the connection stays over and what was
\* read of it stays readable, and the close is collected; what was collected or
\* handed over stays so.
LEMMA PumpKeepsClose ==
  ASSUME Sided, DriverInv, NEW s \in Side, NEW sent \in Nat, PumpDriver(s, sent),
         NEW t \in Side
  PROVE  /\ conn[t].st \in Over => conn'[t].st \in Over /\ Readable(conn'[t]) = Readable(conn[t])
         /\ HasClose(made[t]) => HasClose(made'[t])
         /\ HasClose(handed[t]) => HasClose(handed'[t])
         /\ s = t /\ conn[t].st \in Over /\ HasClose(conn[t].tx) => HasClose(made'[t])
         /\ s # t => conn'[t] = conn[t]
<1>0. PICK c, x, y, q : PumpedTo(s, sent, c, x, y, q)
  BY PumpParts, Zenon
<1>1. /\ Follows(s, Closed, conn[s], c)
      /\ x \in Seq(SentFrames(s, Closed)) /\ y = c.tx
      /\ q = (outbound[s] \o x) \o y /\ q \in Seq(SentFrames(s, Closed))
      /\ sent \in 0..Len(q)
      /\ conn' = [conn EXCEPT ![s] = Collect(c).conn]
      /\ made' = [made EXCEPT ![s] = (@ \o x) \o y]
      /\ handed' = [handed EXCEPT ![s] = @ \o SubSeq(q, 1, sent)]
  BY <1>0, Zenon DEF PumpedTo
<1> DEFINE F == SentFrames(s, Closed)
           a == SubSeq(q, 1, sent)
<1>2. Closed \in BOOLEAN
  BY DEF Closed
<1>3. CASE t # s
  BY <1>1, <1>3 DEF Sided
<1>4. CASE t = s
  <2>1. c \in ConnectionOf(s, Closed)
    BY <1>1, Zenon DEF Follows
  <2>2. y \in Seq(F)
    BY <1>1, <2>1 DEF ConnectionOf, Connection
  <2>3. made[s] \in Seq(F) /\ handed[s] \in Seq(F) /\ x \in Seq(F)
    BY <1>1, Zenon DEF DriverInv
  <2>4. a \in Seq(F)
    BY <1>1, <2>3, FlushSplits, Zenon
  <2>5. /\ conn'[s] = Collect(c).conn /\ made'[s] = (made[s] \o x) \o y
        /\ handed'[s] = handed[s] \o a
    BY <1>1 DEF Sided
  <2> HIDE DEF F, a
  <2>6. ASSUME NEW m \in Seq(F), NEW u \in Seq(F), NEW v \in Seq(F)
        PROVE  HasClose(m) \/ HasClose(v) => HasClose((m \o u) \o v)
    <3>1. m \o u \in Seq(F)
      BY ConcatProperties
    <3>2. HasClose(m) => HasClose(m \o u)
      BY StillIn, Zenon
    <3>3. HasClose(m \o u) \/ HasClose(v) => HasClose((m \o u) \o v)
      BY <3>1, StillIn, Zenon
    <3>4. QED BY <3>2, <3>3
  <2>7. HasClose(made[s]) \/ HasClose(y) => HasClose(made'[s])
    BY <2>2, <2>3, <2>5, <2>6, Zenon
  <2>8. HasClose(handed[s]) => HasClose(handed'[s])
    BY <2>3, <2>4, <2>5, StillIn, Zenon
  <2>9. /\ conn'[s].st \in Over <=> c.st \in Over
        /\ conn'[s].got = c.got
    BY <1>2, <2>1, <2>5, CollectKeeps, Zenon
  <2>10. conn[s].st \in Over => c.st \in Over /\ c.tx = conn[s].tx /\ c.got = conn[s].got
    BY <1>1, Zenon DEF Follows
  <2>11. conn[s].st \in Over => Readable(conn'[s]) = Readable(conn[s])
    BY <2>9, <2>10, Zenon DEF Readable
  <2>12. QED BY <1>1, <1>4, <2>7, <2>8, <2>9, <2>10, <2>11, Zenon
<1>5. QED BY <1>3, <1>4

-----------------------------------------------------------------------------
(* The steps of a process *)

\* Only process p moves.
Moves(p) == prog' \in [Side -> Process] /\ \A q \in Side \ {p} : prog'[q] = prog[q]

\* A process record replaced by another one.
LEMMA SetProcess ==
  ASSUME ProcessInv, NEW p \in Side, NEW k \in Process,
         DOMAIN prog' = Side, prog'[p] = k, prog' = [q \in Side |-> prog'[q]],
         \A q \in Side \ {p} : prog'[q] = prog[q]
  PROVE  Moves(p)
<1>1. \A q \in Side : prog[q] \in Process
  BY DEF ProcessInv
<1>2. \A q \in Side : prog'[q] \in Process
  BY <1>1
<1>3. prog' \in [Side -> Process]
  BY <1>2
<1>4. QED BY <1>3 DEF Moves

\* The ways a program moves: on within its phase, to another phase, to an
\* end, or to the wait with what it has seen so far (main.rs, drive and the
\* programs around it).
LEMMA GotoMoves ==
  ASSUME ProcessInv, NEW p \in Side, NEW step \in Steps, Goto(p, step)
  PROVE  /\ Moves(p) /\ prog'[p].pc = step /\ prog'[p].turn = 1
         /\ prog'[p].phase = prog[p].phase /\ prog'[p].outcome = prog[p].outcome
<1> DEFINE k == [prog[p] EXCEPT !.pc = step, !.turn = 1, !.moved = FALSE]
<1>1. prog[p] \in Process /\ prog \in [Side -> Process]
  BY DEF ProcessInv
<1>2. k \in Process
  BY <1>1 DEF Process, Steps
<1>3. k.pc = step /\ k.turn = 1 /\ k.phase = prog[p].phase /\ k.outcome = prog[p].outcome
  BY <1>1 DEF Process
<1>4. prog'[p] = k
  BY <1>1 DEF Goto
<1>5. DOMAIN prog' = Side /\ prog' = [q \in Side |-> prog'[q]]
  BY <1>1 DEF Goto
<1>6. \A q \in Side \ {p} : prog'[q] = prog[q]
  BY <1>1 DEF Goto
<1> HIDE DEF k
<1>7. Moves(p)
  BY <1>2, <1>4, <1>5, <1>6, SetProcess
<1>8. QED BY <1>3, <1>4, <1>7

\* The next phase begins with a pump.
LEMMA GotoPhaseMoves ==
  ASSUME ProcessInv, NEW p \in Side, NEW phase \in Phases, GotoPhase(p, phase)
  PROVE  /\ Moves(p) /\ prog'[p].pc = "pump" /\ prog'[p].turn = 1
         /\ prog'[p].phase = phase /\ prog'[p].outcome = prog[p].outcome
<1> DEFINE k == [prog[p] EXCEPT !.pc = "pump", !.phase = phase, !.turn = 1, !.moved = FALSE]
<1>1. prog[p] \in Process /\ prog \in [Side -> Process]
  BY DEF ProcessInv
<1>2. k \in Process
  BY <1>1 DEF Process, Steps
<1>3. k.pc = "pump" /\ k.turn = 1 /\ k.phase = phase /\ k.outcome = prog[p].outcome
  BY <1>1 DEF Process
<1>4. prog'[p] = k
  BY <1>1 DEF GotoPhase
<1>5. DOMAIN prog' = Side /\ prog' = [q \in Side |-> prog'[q]]
  BY <1>1 DEF GotoPhase
<1>6. \A q \in Side \ {p} : prog'[q] = prog[q]
  BY <1>1 DEF GotoPhase
<1> HIDE DEF k
<1>7. Moves(p)
  BY <1>2, <1>4, <1>5, <1>6, SetProcess
<1>8. QED BY <1>3, <1>4, <1>7

\* A program ends with its outcome.
LEMMA EndMoves ==
  ASSUME ProcessInv, NEW p \in Side, NEW end \in {"ok", "died", "stalled", "panicked"}, End(p, end)
  PROVE  /\ Moves(p) /\ prog'[p].pc = "ended" /\ prog'[p].turn = prog[p].turn
         /\ prog'[p].phase = prog[p].phase /\ prog'[p].outcome = end
<1> DEFINE k == [prog[p] EXCEPT !.pc = "ended", !.outcome = end]
<1>1. prog[p] \in Process /\ prog \in [Side -> Process]
  BY DEF ProcessInv
<1>2. k \in Process
  BY <1>1 DEF Process, Steps
<1>3. k.pc = "ended" /\ k.turn = prog[p].turn /\ k.phase = prog[p].phase /\ k.outcome = end
  BY <1>1 DEF Process
<1>4. prog'[p] = k
  BY <1>1 DEF End
<1>5. DOMAIN prog' = Side /\ prog' = [q \in Side |-> prog'[q]]
  BY <1>1 DEF End
<1>6. \A q \in Side \ {p} : prog'[q] = prog[q]
  BY <1>1 DEF End
<1> HIDE DEF k
<1>7. Moves(p)
  BY <1>2, <1>4, <1>5, <1>6, SetProcess
<1>8. QED BY <1>3, <1>4, <1>7

\* What is not there yet is waited for, until it is late.
LEMMA NotYetMoves ==
  ASSUME ProcessInv, NEW p \in Side, NotYet(p)
  PROVE  /\ Moves(p) /\ prog'[p].pc \in {"wait", "ended"} /\ prog'[p].turn \in {1, prog[p].turn}
         /\ prog'[p].phase = prog[p].phase
         /\ prog'[p].outcome \in {prog[p].outcome, "stalled"}
<1>1. CASE End(p, "stalled")
  BY <1>1, EndMoves
<1>2. CASE Goto(p, "wait")
  BY <1>2, GotoMoves DEF Steps
<1>3. QED BY <1>1, <1>2 DEF NotYet

\* What the two-ended programs have met, and the wait.
LEMMA MetMoves ==
  ASSUME ProcessInv, NEW p \in Side, NEW met \in SUBSET {"client", "server", "fin", "guest"},
         prog' = [prog EXCEPT ![p].met = met, ![p].pc = "wait"]
  PROVE  /\ Moves(p) /\ prog'[p].pc = "wait" /\ prog'[p].turn = prog[p].turn
         /\ prog'[p].phase = prog[p].phase /\ prog'[p].outcome = prog[p].outcome
BY DEF ProcessInv, Process, Moves, Steps, Side

\* The driver a process pumps is one it has.
LEMMA DriverOf ==
  ASSUME ProcessInv, NEW p \in Side, prog[p].pc # "joined"
  PROVE  /\ Drives(p)[prog[p].turn] \in Side
         /\ mode = "interop" => Drives(p)[prog[p].turn] = p /\ Len(Drives(p)) = 1
         /\ mode # "interop" => Len(Drives(p)) = 2
<1>1. CASE mode = "interop"
  <2>1. prog[p].turn = 1
    BY <1>1 DEF ProcessInv
  <2>2. Drives(p) = <<p>>
    BY <1>1, Zenon DEF Drives
  <2>3. QED BY <1>1, <2>1, <2>2
<1>2. CASE mode # "interop"
  <2>1. prog[p].turn \in 1..2 /\ p # "server"
    BY <1>2 DEF ProcessInv
  <2>2. p = "client"
    BY <2>1 DEF Side
  <2>3. Drives(p) = <<"client", "server">>
    BY <1>2, <2>2 DEF Drives
  <2>4. prog[p].turn = 1 \/ prog[p].turn = 2
    BY <2>1
  <2>5. QED BY <1>2, <2>3, <2>4 DEF Side
<1>3. QED BY <1>1, <1>2

\* A process keeps to its program: where a step of it may lead.
Keeps(p) ==
  /\ mode = "interop" => prog'[p].turn = 1 /\ prog'[p].pc \in {"pump", "check", "wait", "ended"}
  /\ mode # "interop" => prog'[p].turn \in 1..2 /\ p # "server"

\* The processes stay what they are when one of them keeps to its program.
LEMMA ProcessStep ==
  ASSUME ProcessInv, NEW p \in Side, Moves(p), Keeps(p), mode' = mode,
         Closed' => mode = "interop"
  PROVE  ProcessInv'
<1>1. ASSUME NEW q \in Side
      PROVE  /\ mode = "interop" => prog'[q].turn = 1
                                    /\ prog'[q].pc \in {"pump", "check", "wait", "ended"}
             /\ mode # "interop" => prog'[q].turn \in 1..2 /\ (q = "server" => prog'[q].pc = "joined")
  <2>1. CASE q = p
    BY <2>1, Zenon DEF Keeps
  <2>2. CASE q # p
    <3>1. prog'[q] = prog[q]
      BY <2>2 DEF Moves
    <3>2. QED BY <3>1, Zenon DEF ProcessInv
  <2>3. QED BY <2>1, <2>2
<1>2. prog' \in [Side -> Process]
  BY DEF Moves
<1>3. mode \in {"interop", "loopback", "bench", "native"}
  BY DEF ProcessInv
<1>4. QED BY <1>1, <1>2, <1>3, Zenon DEF ProcessInv

\* A process whose phase stays: so does whether the client has closed.
LEMMA PhaseStays ==
  ASSUME NEW p \in Side, Moves(p), prog'[p].phase = prog[p].phase, mode' = mode
  PROVE  /\ Closed' = Closed
         /\ \A t \in Side : prog'[ProcessOf(t)'].phase = prog[ProcessOf(t)].phase
<1>1. \A q \in Side : prog'[q].phase = prog[q].phase
  BY Zenon DEF Moves
<1>2. \A t \in Side : ProcessOf(t)' = ProcessOf(t) /\ ProcessOf(t) \in Side
  BY DEF ProcessOf, Side
<1>3. "client" \in Side
  BY DEF Side
<1>4. QED BY <1>1, <1>2, <1>3, Zenon DEF Closed

\* A pump, as a step of a process.
LEMMA PumpStep ==
  ASSUME LoopInv, NEW p \in Side, NEW s \in Side, NEW sent \in Nat, PumpDriver(s, sent),
         Moves(p), Keeps(p), mode' = mode, mode = "interop" => s = p,
         prog'[p].phase = prog[p].phase, prog'[p].outcome = "ok" => prog[p].outcome = "ok"
  PROVE  LoopInv'
<1>0. Sided /\ DriverInv /\ ProcessInv /\ LossInv /\ FlushInv /\ FlushedInOrder /\ VerdictsAgree
  BY DEF LoopInv
<1>1. /\ Closed' = Closed
      /\ \A t \in Side : prog'[ProcessOf(t)'].phase = prog[ProcessOf(t)].phase
  BY PhaseStays
<1>2. Sided' /\ DriverInv'
  BY <1>0, <1>1, PumpKeepsTypes
<1>3. ProcessInv'
  <2>1. Closed => mode = "interop"
    BY <1>0, Zenon DEF ProcessInv
  <2>2. QED BY <1>0, <1>1, <2>1, ProcessStep, Zenon
<1>4. LossInv'
  BY <1>0, <1>1, PumpKeepsLoss
<1>5. FlushedInOrder'
  BY <1>0, PumpKeepsOrder
<1>6. "client" \in Side /\ "server" \in Side
  BY DEF Side
<1>7. /\ conn["client"].st \in Over => /\ conn'["client"].st \in Over
                                       /\ Readable(conn'["client"]) = Readable(conn["client"])
      /\ HasClose(made["client"]) => HasClose(made'["client"])
      /\ HasClose(handed["client"]) => HasClose(handed'["client"])
      /\ s = "client" /\ conn["client"].st \in Over /\ HasClose(conn["client"].tx)
           => HasClose(made'["client"])
      /\ s # "client" => conn'["client"] = conn["client"]
  BY <1>0, <1>6, PumpKeepsClose, Zenon
<1>8. FlushInv'
  <2> SUFFICES ASSUME Closed
               PROVE  /\ conn'["client"].st \in Over
                      /\ Readable(conn'["client"]) = Payload
                      /\ \/ HasClose(made'["client"])
                         \/ prog'["client"].pc \in {"pump", "ended"} /\ HasClose(conn'["client"].tx)
    BY <1>1, Zenon DEF FlushInv
  <2>1. /\ conn["client"].st \in Over /\ Readable(conn["client"]) = Payload
        /\ \/ HasClose(made["client"])
           \/ prog["client"].pc \in {"pump", "ended"} /\ HasClose(conn["client"].tx)
    BY <1>0, Zenon DEF FlushInv
  <2>2. mode = "interop"
    BY <1>0, Zenon DEF ProcessInv
  <2>3. CASE s = "client"
    BY <1>7, <2>1, <2>3, Zenon
  <2>4. CASE s # "client"
    <3>1. prog'["client"] = prog["client"]
      <4>1. p # "client"
        BY <2>2, <2>4
      <4>2. QED BY <1>6, <4>1 DEF Moves
    <3>2. QED BY <1>7, <2>1, <2>4, <3>1, Zenon
  <2>5. QED BY <2>3, <2>4
<1>9. VerdictsAgree'
  <2>1. \A q \in Side : prog'[q].outcome = "ok" => prog[q].outcome = "ok"
    BY Zenon DEF Moves
  <2>2. /\ prog'["server"].outcome = "ok" => prog["server"].outcome = "ok"
        /\ prog'["client"].outcome = "ok" => prog["client"].outcome = "ok"
    BY <1>6, <2>1
  <2>3. Closed' => Readable(conn'["client"]) = Payload
    BY <1>8, Zenon DEF FlushInv
  <2>4. mode = "interop" /\ prog["server"].outcome = "ok" => Closed \/ Shut
    BY <1>0, Zenon DEF VerdictsAgree, Closed, Shut
  <2>s. Shut => Shut'
    <3>1. PICK c, x, y, q : PumpedTo(s, sent, c, x, y, q)
      BY <1>0, PumpParts, Zenon
    <3>2. QED BY <3>1, Zenon DEF PumpedTo
  <2>5. mode = "interop" /\ prog["client"].outcome = "ok" => HasClose(handed["client"])
    BY <1>0, Zenon DEF VerdictsAgree, HasClose
  <2>6. mode = "interop" /\ prog'["server"].outcome = "ok" =>
          \/ prog'["client"].phase = "flush" /\ Readable(conn'["client"]) = Payload
          \/ guest'.why = "closed"
    BY <1>1, <2>2, <2>3, <2>4, <2>s, Zenon DEF Closed, Shut
  <2>7. mode = "interop" /\ prog'["client"].outcome = "ok" => HasClose(handed'["client"])
    BY <1>7, <2>2, <2>5, Zenon
  <2>8. QED BY <2>6, <2>7, Zenon DEF VerdictsAgree, HasClose
<1>10. QED BY <1>2, <1>3, <1>4, <1>5, <1>8, <1>9 DEF LoopInv

\* A step of a process that pumps nothing: it may write to a connection and
\* take events, and may end.  The client's success needs its close handed
\* over, the server's the client's close.
LEMMA CheckStep ==
  ASSUME LoopInv, NEW p \in Side, Moves(p), Keeps(p), mode' = mode,
         UNCHANGED <<outbound, made, handed, told, net, lost>>,
         DOMAIN conn' = Side, DOMAIN events' = Side,
         Closed' = Closed, GuestStays,
         prog[p].phase = "flush" => prog'[p].phase = "flush",
         \A s \in Side : /\ conn'[s] \in ConnectionOf(s, Closed)
                         /\ conn'[s].st = conn[s].st /\ conn'[s].ev = conn[s].ev
                         /\ events'[s] \in Seq(QueuedEvents(s, Closed, Shut)),
         Closed => conn'["client"] = conn["client"],
         prog["client"].pc \in {"pump", "ended"} => p # "client",
         mode = "interop" /\ prog'[p].outcome = "ok" =>
           \/ prog[p].outcome = "ok"
           \/ p = "server" /\ (Closed \/ Shut)
           \/ p = "client" /\ HasClose(handed["client"])
  PROVE  LoopInv'
<1>0. Sided /\ DriverInv /\ ProcessInv /\ LossInv /\ FlushInv /\ FlushedInOrder /\ VerdictsAgree
  BY DEF LoopInv
<1>1. Sided'
  BY <1>0 DEF Sided
<1>2. DriverInv'
  BY <1>0, Zenon DEF DriverInv, GuestStays
<1>3. ProcessInv'
  <2>1. Closed => mode = "interop"
    BY <1>0, Zenon DEF ProcessInv
  <2>2. QED BY <1>0, <2>1, ProcessStep, Zenon
<1>4. LossInv'
  <2>1. \A q \in Side : prog[q].phase = "flush" => prog'[q].phase = "flush"
    BY Zenon DEF Moves
  <2>2. \A t \in Side : ProcessOf(t)' = ProcessOf(t) /\ ProcessOf(t) \in Side
    BY DEF ProcessOf, Side
  <2>3. ASSUME NEW t \in Side, conn'[t].st \in Over
        PROVE  HasLoss(conn'[t].ev) \/ HasLoss(told'[t]) \/ prog'[ProcessOf(t)'].phase = "flush"
    <3>1. conn[t].st \in Over /\ conn'[t].ev = conn[t].ev /\ told'[t] = told[t]
      BY <2>3
    <3>2. HasLoss(conn[t].ev) \/ HasLoss(told[t]) \/ prog[ProcessOf(t)].phase = "flush"
      BY <1>0, <3>1, Zenon DEF LossInv
    <3>3. QED BY <2>1, <2>2, <3>1, <3>2, Zenon
  <2>4. QED BY <2>3, Zenon DEF LossInv
<1>5. FlushedInOrder'
  BY <1>0, Zenon DEF FlushedInOrder
<1>6. "client" \in Side /\ "server" \in Side
  BY DEF Side
<1>7. FlushInv'
  <2> SUFFICES ASSUME Closed
               PROVE  /\ conn'["client"].st \in Over
                      /\ Readable(conn'["client"]) = Payload
                      /\ \/ HasClose(made'["client"])
                         \/ prog'["client"].pc \in {"pump", "ended"} /\ HasClose(conn'["client"].tx)
    BY Zenon DEF FlushInv
  <2>1. /\ conn["client"].st \in Over /\ Readable(conn["client"]) = Payload
        /\ \/ HasClose(made["client"])
           \/ prog["client"].pc \in {"pump", "ended"} /\ HasClose(conn["client"].tx)
    BY <1>0, Zenon DEF FlushInv
  <2>2. conn'["client"] = conn["client"] /\ made' = made
    OBVIOUS
  <2>3. prog["client"].pc \in {"pump", "ended"} => prog'["client"] = prog["client"]
    BY <1>6 DEF Moves
  <2>4. QED BY <2>1, <2>2, <2>3, Zenon
<1>8. VerdictsAgree'
  <2>1. Closed' => Readable(conn'["client"]) = Payload
    BY <1>7, Zenon DEF FlushInv
  <2>2. mode = "interop" /\ prog["server"].outcome = "ok" => Closed \/ Shut
    BY <1>0, Zenon DEF VerdictsAgree, Closed, Shut
  <2>3. mode = "interop" /\ prog["client"].outcome = "ok" => HasClose(handed["client"])
    BY <1>0, Zenon DEF VerdictsAgree, HasClose
  <2>4. /\ p # "server" => prog'["server"] = prog["server"]
        /\ p # "client" => prog'["client"] = prog["client"]
    BY <1>6 DEF Moves
  <2>5. "client" # "server"
    OBVIOUS
  <2>6. mode = "interop" /\ prog'["server"].outcome = "ok" => Closed \/ Shut
    BY <2>2, <2>4, <2>5, Zenon
  <2>7. mode = "interop" /\ prog'["client"].outcome = "ok" => HasClose(handed["client"])
    BY <2>3, <2>4, <2>5, Zenon
  <2>8. mode = "interop" /\ prog'["server"].outcome = "ok" =>
          \/ prog'["client"].phase = "flush" /\ Readable(conn'["client"]) = Payload
          \/ guest'.why = "closed"
    BY <2>1, <2>6, Zenon DEF Closed, Shut, GuestStays
  <2>9. handed' = handed
    OBVIOUS
  <2>10. QED BY <2>7, <2>8, <2>9, Zenon DEF VerdictsAgree, HasClose
<1>9. QED BY <1>1, <1>2, <1>3, <1>4, <1>5, <1>7, <1>8 DEF LoopInv

\* A phase that is not the last gives way to one that is not the last.
LEMMA NotClosing ==
  ASSUME NEW p \in Side, Moves(p), prog'[p].phase = "flush" <=> prog[p].phase = "flush"
  PROVE  Closed' = Closed
<1>1. \A q \in Side : prog'[q].phase = "flush" <=> prog[q].phase = "flush"
  BY Zenon DEF Moves
<1>2. "client" \in Side
  BY DEF Side
<1>3. Closed' <=> Closed
  BY <1>1, <1>2, Zenon DEF Closed
<1>4. QED BY <1>3 DEF Closed

\* The place of the first event of E, 0 if there is none.
FirstIn(e, E) ==
  IF {i \in 1..Len(e) : e[i] \in E} # {} THEN Min({i \in 1..Len(e) : e[i] \in E}) ELSE 0

\* It is the place of one, if there is any.
LEMMA FirstSelected ==
  ASSUME NEW e, Len(e) \in Nat, NEW E
  PROVE  LET i == FirstIn(e, E)
         IN  i \in Nat /\ i <= Len(e) /\ (i # 0 => i \in 1..Len(e) /\ e[i] \in E)
<1> DEFINE I == {i \in 1..Len(e) : e[i] \in E}
           i0 == IF I # {} THEN Min(I) ELSE 0
<1>1. FirstIn(e, E) = i0
  BY DEF FirstIn
<1>2. i0 \in Nat /\ i0 <= Len(e) /\ (i0 # 0 => i0 \in I)
  <2>1. CASE I = {}
    BY <2>1
  <2>2. CASE I # {}
    <3>1. I \in SUBSET Nat
      OBVIOUS
    <3>2. \E x \in I : \A y \in I : x <= y
      BY <2>2, <3>1, LeastNatural, Zenon
    <3>3. Min(I) \in I
      BY <3>2, Zenon DEF Min
    <3>4. QED BY <2>2, <3>3
  <2>3. QED BY <2>1, <2>2
<1> HIDE DEF i0
<1>3. QED BY <1>1, <1>2

\* Taking events, all of them or those up to the one that is waited for,
\* leaves events.
LEMMA EventsTaken ==
  ASSUME Sided, DriverInv, NEW s \in Side,
         \/ Consume(s) \/ (\E E : ConsumeTo(s, E))
         \/ UNCHANGED events \/ events' = [t \in Side |-> <<>>]
  PROVE  DOMAIN events' = Side /\ \A t \in Side : events'[t] \in Seq(QueuedEvents(t, Closed, Shut))
<1>1. \A t \in Side : /\ events[t] \in Seq(QueuedEvents(t, Closed, Shut))
                      /\ <<>> \in Seq(QueuedEvents(t, Closed, Shut))
  <2>1. \A t \in Side : events[t] \in Seq(QueuedEvents(t, Closed, Shut))
    BY Zenon DEF DriverInv
  <2>2. QED BY <2>1, EmptySeq
<1>2. CASE Consume(s)
  BY <1>1, <1>2 DEF Consume, Sided
<1>3. ASSUME NEW E, ConsumeTo(s, E)
      PROVE  DOMAIN events' = Side /\ \A t \in Side : events'[t] \in Seq(QueuedEvents(t, Closed, Shut))
  <2> DEFINE e == events[s]
             i0 == FirstIn(e, E)
             r == IF i0 = 0 THEN <<>> ELSE SubSeq(e, i0 + 1, Len(e))
             V == QueuedEvents(s, Closed, Shut)
  <2>1. e \in Seq(V) /\ Len(e) \in Nat
    BY <1>1, LenProperties
  <2>2. SelectInSeq(e, LAMBDA x : x \in E) = i0
    BY DEF SelectInSeq, FirstIn
  <2>3. events' = [events EXCEPT ![s] = r]
    BY <1>3, <2>2, Zenon DEF ConsumeTo
  <2>4. i0 \in Nat /\ i0 <= Len(e)
    BY <2>1, FirstSelected
  <2> HIDE DEF i0, V
  <2>5. r \in Seq(V)
    BY <2>1, <2>4, EmptySeq
  <2> HIDE DEF r
  <2>6. QED BY <1>1, <2>3, <2>5 DEF Sided, V
<1>4. CASE UNCHANGED events
  BY <1>1, <1>4 DEF Sided
<1>5. CASE events' = [t \in Side |-> <<>>]
  BY <1>1, <1>5
<1>6. QED BY <1>2, <1>3, <1>4, <1>5

\* A close event is the client's close or the guest's.
LEMMA SawClosed ==
  ASSUME DriverInv, NEW s \in Side, NEW E, FirstOf(s, E) \in {"ApplicationClosed", "GuestClosed"}
  PROVE  Closed \/ Shut
<1> DEFINE e == events[s]
           i == FirstIn(e, E)
<1>1. e \in Seq(QueuedEvents(s, Closed, Shut))
  BY Zenon DEF DriverInv
<1>2. Len(e) \in Nat
  BY <1>1, LenProperties
<1>3. FirstOf(s, E) = IF i = 0 THEN "none" ELSE e[i]
  <2>1. SelectInSeq(e, LAMBDA x : x \in E) = i
    BY DEF SelectInSeq, FirstIn
  <2>2. QED BY <2>1, Zenon DEF FirstOf
<1>4. i # 0 => i \in 1..Len(e)
  BY <1>2, FirstSelected
<1> HIDE DEF i
<1>5. i # 0 /\ e[i] \in {"ApplicationClosed", "GuestClosed"}
  BY <1>3
<1>6. e[i] \in QueuedEvents(s, Closed, Shut)
  BY <1>1, <1>4, <1>5, ElementOfSeq
<1>7. QED BY <1>5, <1>6 DEF QueuedEvents, SeenEvents, GuestsEvents, AnyEvent, Loss, GuestEvent

\* The connection of side s becomes d.
Becomes(s, d) ==
  DOMAIN conn' = Side /\ conn'[s] = d /\ \A t \in Side : t # s => conn'[t] = conn[t]

\* It does by assignment, and when nothing is assigned.
LEMMA ConnectionAssigned ==
  ASSUME Sided, NEW s \in Side
  PROVE  /\ \A d : conn' = [conn EXCEPT ![s] = d] => Becomes(s, d)
         /\ UNCHANGED conn => Becomes(s, conn[s])
BY DEF Sided, Becomes

\* A connection that was written to keeps what the invariant says of it.
LEMMA ConnectionSet ==
  ASSUME Sided, DriverInv, NEW s \in Side, NEW d \in ConnectionOf(s, Closed),
         d.st = conn[s].st, d.ev = conn[s].ev, Becomes(s, d)
  PROVE  /\ DOMAIN conn' = Side
         /\ \A t \in Side : /\ conn'[t] \in ConnectionOf(t, Closed)
                            /\ conn'[t].st = conn[t].st /\ conn'[t].ev = conn[t].ev
<1>1. \A t \in Side : conn[t] \in ConnectionOf(t, Closed)
  BY Zenon DEF DriverInv
<1>2. DOMAIN conn' = Side /\ conn'[s] = d /\ \A t \in Side : t # s => conn'[t] = conn[t]
  BY DEF Becomes
<1>3. QED BY <1>1, <1>2, Zenon

\* A connection that was left alone does, too.
LEMMA ConnectionKept ==
  ASSUME Sided, DriverInv, UNCHANGED conn
  PROVE  /\ DOMAIN conn' = Side
         /\ \A t \in Side : /\ conn'[t] \in ConnectionOf(t, Closed)
                            /\ conn'[t].st = conn[t].st /\ conn'[t].ev = conn[t].ev
<1>1. \A t \in Side : conn[t] \in ConnectionOf(t, Closed)
  BY Zenon DEF DriverInv
<1>2. QED BY <1>1 DEF Sided

-----------------------------------------------------------------------------
(* The actions *)

\* drive and drive_one.
LEMMA PumpAllKeeps ==
  ASSUME LoopInv, NEW p \in Side, PumpAll(p)
  PROVE  LoopInv'
<1> DEFINE s == Drives(p)[prog[p].turn]
<1>0. ProcessInv /\ prog[p].pc = "pump" /\ mode' = mode
  BY DEF LoopInv, PumpAll, world
<1>1. PICK sent \in 0..MaxQueue(s) :
        /\ PumpDriver(s, sent)
        /\ LET moved == prog[p].moved \/ Moved(s, sent)
           IN  IF prog[p].turn < Len(Drives(p))
               THEN prog' = [prog EXCEPT ![p].turn = @ + 1, ![p].moved = moved]
               ELSE Goto(p, IF moved THEN "pump" ELSE "check")
  BY Zenon DEF PumpAll
<1>2. /\ s \in Side /\ (mode = "interop" => s = p /\ Len(Drives(p)) = 1)
      /\ mode # "interop" => Len(Drives(p)) = 2
  BY <1>0, DriverOf, Zenon
<1>3. sent \in Nat
  BY <1>1
<1>4. mode # "interop" => p # "server"
  BY <1>0 DEF ProcessInv
<1> HIDE DEF s
<1>5. CASE prog[p].turn < Len(Drives(p))
  <2> DEFINE moved == prog[p].moved \/ Moved(s, sent)
             k == [prog[p] EXCEPT !.turn = 2, !.moved = moved]
  <2>1. prog[p] \in Process /\ prog \in [Side -> Process]
    BY <1>0 DEF ProcessInv
  <2>2. mode # "interop" /\ prog[p].turn = 1
    <3>1. mode # "interop"
      BY <1>0, <1>2, <1>5 DEF ProcessInv
    <3>2. prog[p].turn \in 1..2
      BY <1>0, <3>1, Zenon DEF ProcessInv
    <3>3. Len(Drives(p)) = 2
      BY <1>2, <3>1, Zenon
    <3>4. QED BY <1>5, <3>1, <3>2, <3>3
  <2>3. moved \in BOOLEAN
    BY DEF Moved
  <2>4. prog' = [prog EXCEPT ![p].turn = @ + 1, ![p].moved = moved]
    BY <1>1, <1>5, Zenon
  <2> HIDE DEF moved
  <2>5. /\ k \in Process /\ k.pc = "pump" /\ k.turn = 2
        /\ k.phase = prog[p].phase /\ k.outcome = prog[p].outcome
    <3>1. ASSUME NEW b \in BOOLEAN
          PROVE  LET d == [prog[p] EXCEPT !.turn = 2, !.moved = b]
                 IN  /\ d \in Process /\ d.pc = prog[p].pc /\ d.turn = 2
                     /\ d.phase = prog[p].phase /\ d.outcome = prog[p].outcome
      BY <2>1 DEF Process
    <3>2. QED BY <1>0, <2>3, <3>1, Zenon
  <2>6. prog'[p] = k
    BY <2>1, <2>2, <2>4
  <2>7. DOMAIN prog' = Side /\ prog' = [q \in Side |-> prog'[q]]
    BY <2>1, <2>4
  <2>8. \A q \in Side \ {p} : prog'[q] = prog[q]
    BY <2>1, <2>4
  <2> HIDE DEF k
  <2>9. Moves(p)
    BY <1>0, <2>5, <2>6, <2>7, <2>8, SetProcess
  <2>10. Keeps(p)
    BY <1>4, <2>2, <2>5, <2>6 DEF Keeps
  <2>11. prog'[p].phase = prog[p].phase /\ prog'[p].outcome = prog[p].outcome
    BY <2>5, <2>6
  <2>12. QED BY <1>0, <1>1, <1>2, <1>3, <2>9, <2>10, <2>11, PumpStep, Zenon
<1>6. CASE ~(prog[p].turn < Len(Drives(p)))
  <2>1. PICK step \in {"pump", "check"} : Goto(p, step)
    BY <1>1, <1>6, Zenon
  <2>2. step \in Steps
    BY <2>1 DEF Steps
  <2>3. /\ Moves(p) /\ prog'[p].pc = step /\ prog'[p].turn = 1
        /\ prog'[p].phase = prog[p].phase /\ prog'[p].outcome = prog[p].outcome
    BY <1>0, <2>1, <2>2, GotoMoves, Zenon
  <2>4. Keeps(p)
    BY <1>4, <2>1, <2>3 DEF Keeps
  <2>5. QED BY <1>0, <1>1, <1>2, <1>3, <2>3, <2>4, PumpStep, Zenon
<1>7. QED BY <1>5, <1>6

\* The pump inside a bench predicate.
LEMMA PumpInnerKeeps ==
  ASSUME LoopInv, NEW p \in Side, NEW step \in {"pumpclient", "pumpserver"}, NEW s \in Side,
         NEW next \in {"drain", "decide"}, PumpInner(p, step, s, next)
  PROVE  LoopInv'
<1>0. ProcessInv /\ prog[p].pc = step /\ mode' = mode
  BY DEF LoopInv, PumpInner, world
<1>1. PICK sent \in 0..MaxQueue(s) :
        PumpDriver(s, sent) /\ Goto(p, IF Moved(s, sent) THEN step ELSE next)
  BY Zenon DEF PumpInner
<1>2. sent \in Nat
  BY <1>1
<1>3. mode # "interop"
  BY <1>0 DEF ProcessInv
<1>4. p # "server"
  BY <1>0, <1>3 DEF ProcessInv
<1>5. PICK to \in {step, next} : Goto(p, to)
  BY <1>1, Zenon
<1>6. to \in Steps
  BY <1>5 DEF Steps
<1>7. /\ Moves(p) /\ prog'[p].pc = to /\ prog'[p].turn = 1
      /\ prog'[p].phase = prog[p].phase /\ prog'[p].outcome = prog[p].outcome
  BY <1>0, <1>5, <1>6, GotoMoves, Zenon
<1>8. Keeps(p)
  BY <1>3, <1>4, <1>7 DEF Keeps
<1>9. QED BY <1>0, <1>1, <1>2, <1>3, <1>7, <1>8, PumpStep, Zenon

\* The driver under way is one of the process.
LEMMA PumpedSide ==
  ASSUME ProcessInv, NEW p \in Side, prog[p].pc \in {"pump", "pumpclient", "pumpserver"}
  PROVE  Pumped(p) \in Side /\ (mode = "interop" => Pumped(p) = p)
<1>1. prog[p].pc # "joined"
  OBVIOUS
<1>2. LET s == Drives(p)[prog[p].turn]
      IN  s \in Side /\ (mode = "interop" => s = p)
  BY <1>1, DriverOf, Zenon
<1>3. mode = "interop" => prog[p].pc = "pump"
  BY DEF ProcessInv
<1>4. CASE prog[p].pc = "pump"
  <2>1. Pumped(p) = Drives(p)[prog[p].turn]
    BY <1>4 DEF Pumped
  <2>2. QED BY <1>2, <2>1
<1>5. CASE prog[p].pc # "pump"
  BY <1>3, <1>5 DEF Pumped, Side
<1>6. QED BY <1>4, <1>5

\* A socket error ends the process, whatever else it did.
LEMMA PumpFailsKeeps ==
  ASSUME LoopInv, NEW p \in Side, PumpFails(p)
  PROVE  LoopInv'
<1>0. /\ Sided /\ DriverInv /\ ProcessInv /\ LossInv /\ FlushInv /\ FlushedInOrder /\ VerdictsAgree
      /\ mode' = mode /\ prog[p].pc \in {"pump", "pumpclient", "pumpserver"}
      /\ End(p, "panicked")
  BY DEF LoopInv, PumpFails, world
<1>1. /\ Moves(p) /\ prog'[p].pc = "ended" /\ prog'[p].turn = prog[p].turn
      /\ prog'[p].phase = prog[p].phase /\ prog'[p].outcome = "panicked"
  BY <1>0, EndMoves
<1>2. Keeps(p)
  <2>1. mode = "interop" => prog[p].turn = 1
    BY <1>0, Zenon DEF ProcessInv
  <2>2. mode # "interop" => prog[p].turn \in 1..2 /\ p # "server"
    BY <1>0 DEF ProcessInv
  <2>3. QED BY <1>1, <2>1, <2>2 DEF Keeps
<1>3. /\ Closed' = Closed
      /\ \A t \in Side : prog'[ProcessOf(t)'].phase = prog[ProcessOf(t)].phase
  BY <1>0, <1>1, PhaseStays
<1>4. CASE \E sent \in 0..MaxQueue(Pumped(p)) : PumpDriver(Pumped(p), sent)
  <2>1. PICK sent \in 0..MaxQueue(Pumped(p)) : PumpDriver(Pumped(p), sent)
    BY <1>4
  <2>2. sent \in Nat
    BY <2>1
  <2>3. Pumped(p) \in Side /\ (mode = "interop" => Pumped(p) = p)
    BY <1>0, PumpedSide
  <2>4. "panicked" # "ok"
    OBVIOUS
  <2>5. QED BY <1>0, <1>1, <1>2, <2>1, <2>2, <2>3, <2>4, PumpStep, Zenon
<1>5. CASE UNCHANGED <<conn, driver, net, lost, due>>
  <2>1. UNCHANGED <<conn, events, outbound, made, handed, told, net, lost, guest>>
    BY <1>5 DEF driver
  <2>2. "client" \in Side /\ "server" \in Side
    BY DEF Side
  <2>3. Shut' = Shut /\ GuestInv'
    BY <1>0, <2>1 DEF Shut, GuestInv, DriverInv
  <2>4. Sided'
    BY <1>0, <2>1, Zenon DEF Sided
  <2>5. DriverInv'
    BY <1>0, <1>3, <2>1, <2>3, Zenon DEF DriverInv
  <2>6. ProcessInv'
    <3>1. Closed => mode = "interop"
      BY <1>0, Zenon DEF ProcessInv
    <3>2. QED BY <1>0, <1>1, <1>2, <1>3, <3>1, ProcessStep, Zenon
  <2>7. LossInv'
    BY <1>0, <1>3, <2>1, Zenon DEF LossInv
  <2>8. prog["client"].pc \in {"pump", "ended"} => prog'["client"].pc \in {"pump", "ended"}
    <3>1. p # "client" => prog'["client"] = prog["client"]
      BY <1>1, <2>2 DEF Moves
    <3>2. QED BY <1>1, <3>1
  <2>9. FlushInv'
    BY <1>0, <1>3, <2>1, <2>8, Zenon DEF FlushInv
  <2>10. FlushedInOrder'
    BY <1>0, <2>1, Zenon DEF FlushedInOrder
  <2>11. \A q \in Side : prog'[q].outcome = "ok" => prog[q].outcome = "ok"
    <3>1. "panicked" # "ok"
      OBVIOUS
    <3>2. QED BY <1>1, <3>1, Zenon DEF Moves
  <2>12. VerdictsAgree'
    BY <1>0, <1>3, <2>1, <2>2, <2>11, Zenon DEF VerdictsAgree, Closed
  <2>13. QED BY <2>4, <2>5, <2>6, <2>7, <2>9, <2>10, <2>12 DEF LoopInv
<1>6. QED BY <1>4, <1>5, Zenon DEF PumpFails

\* A guest that is left alone.
LEMMA GuestKept ==
  ASSUME DriverInv, UNCHANGED guest
  PROVE  GuestStays
<1>1. GuestInv
  BY Zenon DEF DriverInv
<1>2. QED BY <1>1 DEF GuestStays, GuestInv, Shut

\* Every phase but one leaves the guest alone.
LEMMA OtherPhases ==
  /\ "handshake" # "request" /\ "echo" # "request" /\ "flush" # "request" /\ "goodbye" # "request"
  /\ "deliver" # "request" /\ "idle" # "request" /\ "transfer" # "request"
OBVIOUS

\* What is the same in every look at what has arrived.
LEMMA Looking ==
  ASSUME LoopInv, NEW p \in Side, NEW program, NEW phase, InCheck(p, program, phase)
  PROVE  /\ Sided /\ DriverInv /\ ProcessInv
         /\ UNCHANGED <<outbound, made, handed, told, net, lost>>
         /\ mode \in program /\ mode' = mode
         /\ prog[p].pc = "check" /\ prog[p].phase = phase
         /\ mode # "interop" => p # "server"
         /\ phase # "request" => GuestStays
<1>1. ProcessInv /\ prog[p].pc = "check"
  BY DEF LoopInv, InCheck
<1>2. mode # "interop" => p # "server"
  BY <1>1 DEF ProcessInv
<1>3. phase # "request" => GuestStays
  BY GuestKept, Zenon DEF LoopInv, InCheck
<1>4. QED BY <1>1, <1>2, <1>3 DEF LoopInv, InCheck, world

\* The program waits with what it has met so far.
Waits(p) ==
  \E met \in SUBSET {"client", "server", "fin", "guest"} :
    prog' = [prog EXCEPT ![p].met = met, ![p].pc = "wait"]

\* The program stays in its phase, or ends in it without success.
Stays(p) == NotYet(p) \/ End(p, "died") \/ Waits(p)

\* A look that leaves the connections alone and the program in its phase.
LEMMA LookStep ==
  ASSUME LoopInv, NEW p \in Side, prog[p].pc \in {"check", "decide"}, mode' = mode, GuestStays,
         UNCHANGED <<conn, outbound, made, handed, told, net, lost>>,
         DOMAIN events' = Side, \A t \in Side : events'[t] \in Seq(QueuedEvents(t, Closed, Shut)),
         \/ Stays(p)
         \/ /\ End(p, "ok")
            /\ mode = "interop" => \/ p = "server" /\ (Closed \/ Shut)
                                   \/ p = "client" /\ HasClose(handed["client"])
  PROVE  LoopInv'
<1>0. Sided /\ DriverInv /\ ProcessInv
  BY DEF LoopInv
<1>1. prog[p].turn \in Nat /\ (mode # "interop" => p # "server")
  <2>1. prog[p] \in Process
    BY <1>0 DEF ProcessInv
  <2>2. mode # "interop" => p # "server"
    BY <1>0 DEF ProcessInv
  <2>3. QED BY <2>1, <2>2 DEF Process
<1>2. /\ Moves(p) /\ prog'[p].pc \in {"wait", "ended"} /\ prog'[p].turn \in {1, prog[p].turn}
      /\ prog'[p].phase = prog[p].phase
      /\ mode = "interop" /\ prog'[p].outcome = "ok" =>
           \/ prog[p].outcome = "ok"
           \/ p = "server" /\ (Closed \/ Shut)
           \/ p = "client" /\ HasClose(handed["client"])
  <2>1. CASE NotYet(p)
    BY <1>0, <2>1, NotYetMoves
  <2>2. CASE End(p, "died")
    BY <1>0, <2>2, EndMoves
  <2>3. CASE /\ End(p, "ok")
             /\ mode = "interop" => \/ p = "server" /\ (Closed \/ Shut)
                                    \/ p = "client" /\ HasClose(handed["client"])
    <3>1. /\ Moves(p) /\ prog'[p].pc = "ended" /\ prog'[p].turn = prog[p].turn
          /\ prog'[p].phase = prog[p].phase
      BY <1>0, <2>3, EndMoves
    <3>2. QED BY <2>3, <3>1
  <2>4. ASSUME NEW met \in SUBSET {"client", "server", "fin", "guest"},
               prog' = [prog EXCEPT ![p].met = met, ![p].pc = "wait"]
        PROVE  /\ Moves(p) /\ prog'[p].pc \in {"wait", "ended"}
               /\ prog'[p].turn \in {1, prog[p].turn} /\ prog'[p].phase = prog[p].phase
               /\ prog'[p].outcome = prog[p].outcome
    <3>1. /\ Moves(p) /\ prog'[p].pc = "wait" /\ prog'[p].turn = prog[p].turn
          /\ prog'[p].phase = prog[p].phase /\ prog'[p].outcome = prog[p].outcome
      BY <1>0, <2>4, MetMoves, Zenon
    <3>2. QED BY <3>1
  <2>5. QED BY <2>1, <2>2, <2>3, <2>4, Zenon DEF Stays, Waits
<1>3. Keeps(p)
  <2>1. mode = "interop" => prog[p].turn = 1
    BY <1>0, Zenon DEF ProcessInv
  <2>2. mode # "interop" => prog[p].turn \in 1..2
    BY <1>0, Zenon DEF ProcessInv
  <2>3. QED BY <1>1, <1>2, <2>1, <2>2 DEF Keeps
<1>4. Closed' = Closed
  BY <1>2, PhaseStays, Zenon
<1>5. /\ DOMAIN conn' = Side
      /\ \A t \in Side : /\ conn'[t] \in ConnectionOf(t, Closed)
                         /\ conn'[t].st = conn[t].st /\ conn'[t].ev = conn[t].ev
  BY <1>0, ConnectionKept
<1>6. \A t \in Side : /\ conn'[t] \in ConnectionOf(t, Closed)
                      /\ conn'[t].st = conn[t].st /\ conn'[t].ev = conn[t].ev
                      /\ events'[t] \in Seq(QueuedEvents(t, Closed, Shut))
  BY <1>5, Zenon
<1>7. UNCHANGED <<outbound, made, handed, told, net, lost>>
  OBVIOUS
<1>8. prog["client"].pc \in {"pump", "ended"} => p # "client"
  OBVIOUS
<1>9. mode = "interop" /\ prog'[p].outcome = "ok" =>
           \/ prog[p].outcome = "ok"
           \/ p = "server" /\ (Closed \/ Shut)
           \/ p = "client" /\ HasClose(handed["client"])
  BY <1>2
<1>10. conn'["client"] = conn["client"] /\ DOMAIN conn' = Side
  BY <1>5
<1>11. prog[p].phase = "flush" => prog'[p].phase = "flush"
  BY <1>2
<1>12. QED BY <1>2, <1>3, <1>4, <1>6, <1>7, <1>8, <1>9, <1>10, <1>11, CheckStep, Zenon

\* A look that takes the program on, to a phase that is not the last, and may
\* write to a connection.
LEMMA PhaseStep ==
  ASSUME LoopInv, NEW p \in Side, prog[p].pc = "check", mode' = mode, GuestStays,
         UNCHANGED <<outbound, made, handed, told, net, lost>>,
         DOMAIN events' = Side, \A t \in Side : events'[t] \in Seq(QueuedEvents(t, Closed, Shut)),
         NEW phase \in Phases \ {"flush"}, prog[p].phase # "flush",
         Moves(p), prog'[p].pc \in {"pump", "pumpclient", "drain"}, prog'[p].turn = 1,
         prog'[p].phase = phase, prog'[p].outcome = prog[p].outcome,
         mode = "interop" => prog'[p].pc = "pump",
         NEW s \in Side, s = "server" \/ p = "client", NEW d \in ConnectionOf(s, Closed),
         d.st = conn[s].st, d.ev = conn[s].ev, Becomes(s, d)
  PROVE  LoopInv'
<1>0. Sided /\ DriverInv /\ ProcessInv
  BY DEF LoopInv
<1>1. mode # "interop" => p # "server"
  BY <1>0 DEF ProcessInv
<1>2. Keeps(p)
  BY <1>1 DEF Keeps
<1>3. Closed' = Closed
  BY NotClosing
<1>4. /\ DOMAIN conn' = Side
      /\ \A t \in Side : /\ conn'[t] \in ConnectionOf(t, Closed)
                         /\ conn'[t].st = conn[t].st /\ conn'[t].ev = conn[t].ev
  BY <1>0, ConnectionSet
<1>5. \A t \in Side : /\ conn'[t] \in ConnectionOf(t, Closed)
                      /\ conn'[t].st = conn[t].st /\ conn'[t].ev = conn[t].ev
                      /\ events'[t] \in Seq(QueuedEvents(t, Closed, Shut))
  BY <1>4, Zenon
<1>6. Closed => conn'["client"] = conn["client"]
  <2> SUFFICES ASSUME Closed PROVE conn'["client"] = conn["client"]
    OBVIOUS
  <2>1. p # "client"
    BY DEF Closed
  <2>2. s = "server" /\ "client" \in Side
    BY <2>1 DEF Side
  <2>3. QED BY <2>2 DEF Becomes
<1>7. prog["client"].pc \in {"pump", "ended"} => p # "client"
  OBVIOUS
<1>8. UNCHANGED <<outbound, made, handed, told, net, lost>>
  OBVIOUS
<1>9. prog'[p].outcome = "ok" => prog[p].outcome = "ok"
  OBVIOUS
<1>10. prog[p].phase = "flush" => prog'[p].phase = "flush"
  OBVIOUS
<1>11. QED BY <1>2, <1>3, <1>4, <1>5, <1>6, <1>7, <1>8, <1>9, <1>10, CheckStep, Zenon

\* A connection d that is neither more over than c nor has more to report.
Alike(s, closed, c, d) == d \in ConnectionOf(s, closed) /\ d.st = c.st /\ d.ev = c.ev

\* What is written and finished in one go.
LEMMA WrittenAndFinished ==
  ASSUME NEW s \in Side, NEW closed \in BOOLEAN, NEW c \in ConnectionOf(s, closed), NEW n \in Nat
  PROVE  Alike(s, closed, c, Finish(Write(c, n)))
<1>1. c.written + n \in Nat
  BY DEF ConnectionOf, Connection
<1>2. /\ Write(c, n) \in ConnectionOf(s, closed)
      /\ Write(c, n).st = c.st /\ Write(c, n).ev = c.ev
  BY <1>1, WriteKeeps
<1>3. /\ Finish(Write(c, n)) \in ConnectionOf(s, closed)
      /\ Finish(Write(c, n)).st = Write(c, n).st /\ Finish(Write(c, n)).ev = Write(c, n).ev
  BY <1>2, FinishKeeps, Zenon
<1>4. QED BY <1>2, <1>3, Zenon DEF Alike

\* client(): the handshake.
LEMMA ClientHandshakeKeeps ==
  ASSUME LoopInv, NEW p \in Side, ClientHandshake(p)
  PROVE  LoopInv'
<1>0. /\ Sided /\ DriverInv /\ ProcessInv /\ mode' = mode /\ GuestStays
      /\ UNCHANGED <<outbound, made, handed, told, net, lost>>
      /\ prog[p].pc = "check" /\ prog[p].phase = "handshake"
  BY Looking, OtherPhases, Zenon DEF ClientHandshake
<1>1. p = "client" /\ Closed \in BOOLEAN
  BY DEF ClientHandshake, Closed
<1>2. DOMAIN events' = Side /\ \A t \in Side : events'[t] \in Seq(QueuedEvents(t, Closed, Shut))
  <2>1. \E E : ConsumeTo(p, E)
    BY Zenon DEF ClientHandshake
  <2>2. QED BY <1>0, <2>1, EventsTaken, Zenon
<1>3. CASE UNCHANGED conn /\ (NotYet(p) \/ End(p, "died"))
  <2>1. Stays(p)
    BY <1>3, Zenon DEF Stays
  <2>2. QED BY <1>0, <1>2, <1>3, <2>1, LookStep
<1>4. CASE conn' = [conn EXCEPT ![p] = Finish(Write(@, Payload))] /\ GotoPhase(p, "echo")
  <2>1. "echo" \in Phases \ {"flush"} /\ "handshake" # "flush"
    BY DEF Phases
  <2>2. /\ Moves(p) /\ prog'[p].pc = "pump" /\ prog'[p].turn = 1
        /\ prog'[p].phase = "echo" /\ prog'[p].outcome = prog[p].outcome
    BY <1>0, <1>4, <2>1, GotoPhaseMoves
  <2> DEFINE d == Finish(Write(conn[p], Payload))
  <2>3. d \in ConnectionOf(p, Closed) /\ d.st = conn[p].st /\ d.ev = conn[p].ev
    <3>1. conn[p] \in ConnectionOf(p, Closed)
      BY <1>0, Zenon DEF DriverInv
    <3>2. Payload \in Nat
      BY LoopbackAssumption
    <3>3. Alike(p, Closed, conn[p], d)
      BY <1>1, <3>1, <3>2, WrittenAndFinished, Zenon
    <3>4. QED BY <3>3 DEF Alike
  <2>4. Becomes(p, d)
    BY <1>0, <1>4, ConnectionAssigned, Zenon
  <2> HIDE DEF d
  <2>5. QED BY <1>0, <1>1, <1>2, <2>1, <2>2, <2>3, <2>4, PhaseStep
<1>5. QED BY <1>3, <1>4, Zenon DEF ClientHandshake

\* client(): the close is flushed; success means that the socket has it.
LEMMA ClientFlushKeeps ==
  ASSUME LoopInv, NEW p \in Side, ClientFlush(p)
  PROVE  LoopInv'
<1>0. /\ Sided /\ DriverInv /\ ProcessInv /\ mode' = mode /\ GuestStays
      /\ UNCHANGED <<outbound, made, handed, told, net, lost>>
      /\ prog[p].pc = "check" /\ prog[p].phase = "flush"
  BY Looking, OtherPhases, Zenon DEF ClientFlush
<1>1. p = "client" /\ UNCHANGED <<conn, events>>
  BY DEF ClientFlush
<1>2. DOMAIN events' = Side /\ \A t \in Side : events'[t] \in Seq(QueuedEvents(t, Closed, Shut))
  BY <1>0, <1>1, EventsTaken
<1>3. CASE NotYet(p)
  <2>1. Stays(p)
    BY <1>3, Zenon DEF Stays
  <2>2. QED BY <1>0, <1>1, <1>2, <2>1, LookStep
<1>4. CASE ~has_outbound(p) /\ End(p, "ok")
  <2>1. outbound["client"] = <<>>
    BY <1>1, <1>4 DEF has_outbound
  <2>2. handed["client"] \o outbound["client"] = made["client"] /\ "client" \in Side
    BY DEF LoopInv, FlushedInOrder, Side
  <2>3. handed["client"] \in Seq(SentFrames("client", Closed))
    BY <1>0, <2>2, Zenon DEF DriverInv
  <2>4. handed["client"] \o <<>> = handed["client"]
    BY <2>3, ConcatEmptySeq, Zenon
  <2>5. HasClose(made["client"])
    <3>1. Closed /\ prog["client"].pc \notin {"pump", "ended"}
      BY <1>0, <1>1 DEF Closed
    <3>2. QED BY <3>1, Zenon DEF LoopInv, FlushInv
  <2>6. HasClose(handed["client"])
    BY <2>1, <2>2, <2>4, <2>5, Zenon
  <2>7. QED BY <1>0, <1>1, <1>2, <1>4, <2>6, LookStep
<1>5. QED BY <1>3, <1>4, Zenon DEF ClientFlush

\* server(): the first connection that is up.
LEMMA ServerHandshakeKeeps ==
  ASSUME LoopInv, NEW p \in Side, ServerHandshake(p)
  PROVE  LoopInv'
<1>0. /\ Sided /\ DriverInv /\ ProcessInv /\ mode' = mode /\ GuestStays
      /\ UNCHANGED <<outbound, made, handed, told, net, lost>>
      /\ prog[p].pc = "check" /\ prog[p].phase = "handshake"
  BY Looking, OtherPhases, Zenon DEF ServerHandshake
<1>1. p = "server" /\ UNCHANGED conn
  BY DEF ServerHandshake
<1>2. DOMAIN events' = Side /\ \A t \in Side : events'[t] \in Seq(QueuedEvents(t, Closed, Shut))
  <2>1. \E E : ConsumeTo(p, E)
    BY Zenon DEF ServerHandshake
  <2>2. QED BY <1>0, <2>1, EventsTaken, Zenon
<1>3. CASE NotYet(p)
  <2>1. Stays(p)
    BY <1>3, Zenon DEF Stays
  <2>2. QED BY <1>0, <1>1, <1>2, <2>1, LookStep
<1>4. ASSUME NEW met \in {{}, {"guest"}},
             prog' = [prog EXCEPT ![p].pc = "pump", ![p].phase = "request", ![p].turn = 1,
                                  ![p].moved = FALSE, ![p].met = met]
      PROVE  LoopInv'
  <2>1. "request" \in Phases \ {"flush"} /\ "handshake" # "flush"
    BY DEF Phases
  <2>2. /\ Moves(p) /\ prog'[p].pc = "pump" /\ prog'[p].turn = 1
        /\ prog'[p].phase = "request" /\ prog'[p].outcome = prog[p].outcome
    <3> DEFINE k == [prog[p] EXCEPT !.pc = "pump", !.phase = "request", !.turn = 1,
                                    !.moved = FALSE, !.met = met]
    <3>1. prog[p] \in Process /\ prog \in [Side -> Process]
      BY <1>0 DEF ProcessInv
    <3>2. /\ k \in Process /\ k.pc = "pump" /\ k.turn = 1 /\ k.phase = "request"
          /\ k.outcome = prog[p].outcome
      BY <3>1 DEF Process, Steps, Phases
    <3>3. prog'[p] = k
      BY <1>4, <3>1
    <3>4. DOMAIN prog' = Side /\ prog' = [q \in Side |-> prog'[q]]
      BY <1>4, <3>1
    <3>5. \A q \in Side \ {p} : prog'[q] = prog[q]
      BY <1>4, <3>1
    <3> HIDE DEF k
    <3>6. Moves(p)
      BY <1>0, <3>2, <3>3, <3>4, <3>5, SetProcess
    <3>7. QED BY <3>2, <3>3, <3>6
  <2>3. conn[p] \in ConnectionOf(p, Closed)
    BY <1>0, Zenon DEF DriverInv
  <2>4. Becomes(p, conn[p])
    BY <1>0, <1>1, ConnectionAssigned, Zenon
  <2>5. QED BY <1>0, <1>1, <1>2, <2>1, <2>2, <2>3, <2>4, PhaseStep
<1>5. \/ NotYet(p)
      \/ \E met \in {{}, {"guest"}} :
           prog' = [prog EXCEPT ![p].pc = "pump", ![p].phase = "request", ![p].turn = 1,
                                ![p].moved = FALSE, ![p].met = met]
  BY DEF ServerHandshake
<1>6. QED BY <1>3, <1>4, <1>5

\* server(): the request is echoed.
LEMMA ServerEchoKeeps ==
  ASSUME LoopInv, NEW p \in Side, ServerEcho(p)
  PROVE  LoopInv'
<1>0. /\ Sided /\ DriverInv /\ ProcessInv /\ mode' = mode
      /\ UNCHANGED <<outbound, made, handed, told, net, lost>>
      /\ prog[p].pc = "check" /\ prog[p].phase = "request"
  BY Looking, Zenon DEF ServerEcho
<1>1. p = "server" /\ Closed \in BOOLEAN
  BY DEF ServerEcho, Closed
<1>2. DOMAIN events' = Side /\ \A t \in Side : events'[t] \in Seq(QueuedEvents(t, Closed, Shut))
  BY <1>0, EventsTaken, Zenon DEF ServerEcho
<1>g. UNCHANGED guest => GuestStays
  BY <1>0, GuestKept
<1>3. CASE UNCHANGED conn /\ UNCHANGED guest /\ NotYet(p)
  <2>1. Stays(p)
    BY <1>3, Zenon DEF Stays
  <2>2. QED BY <1>0, <1>2, <1>3, <1>g, <2>1, LookStep
<1>4. CASE /\ UNCHANGED conn /\ GotoPhase(p, "goodbye")
           /\ guest' = [guest EXCEPT !.tx = IF guest.st = "up"
                                            THEN Append(@, Frame("stray", 0)) ELSE @]
  <2>1. "goodbye" \in Phases \ {"flush"} /\ "request" # "flush"
    BY DEF Phases
  <2>2. /\ Moves(p) /\ prog'[p].pc = "pump" /\ prog'[p].turn = 1
        /\ prog'[p].phase = "goodbye" /\ prog'[p].outcome = prog[p].outcome
    BY <1>0, <1>4, <2>1, GotoPhaseMoves
  <2>3. conn[p] \in ConnectionOf(p, Closed)
    BY <1>0, Zenon DEF DriverInv
  <2>4. Becomes(p, conn[p])
    BY <1>0, <1>4, ConnectionAssigned, Zenon
  <2>5. GuestStays
    <3>1. guest \in AnyGuest /\ (Shut => guest.st \in {"draining", "gone"})
      BY <1>0, Zenon DEF DriverInv, GuestInv
    <3>2. Append(guest.tx, Frame("stray", 0)) \in Seq(Strays) /\ guest.tx \in Seq(Strays)
      <4>1. Frame("stray", 0) \in Strays
        BY DEF Frame, Strays, AnyFrame, FrameTypes
      <4>2. guest.tx \in Seq(Strays)
        BY <3>1 DEF AnyGuest
      <4>3. QED BY <4>1, <4>2, AppendProperties
    <3>3. guest' \in AnyGuest /\ guest'.why = guest.why /\ guest'.st = guest.st
      BY <1>4, <3>1, <3>2 DEF AnyGuest
    <3>4. Shut' = Shut
      BY <3>3 DEF Shut
    <3>5. QED BY <3>1, <3>3, <3>4 DEF GuestStays, GuestInv
  <2>6. QED BY <1>0, <1>1, <1>2, <2>1, <2>2, <2>3, <2>4, <2>5, PhaseStep
<1>5. CASE /\ conn' = [conn EXCEPT ![p] = Finish(Write(@, Readable(@)))] /\ GotoPhase(p, "goodbye")
           /\ UNCHANGED guest
  <2>1. "goodbye" \in Phases \ {"flush"} /\ "request" # "flush"
    BY DEF Phases
  <2>2. /\ Moves(p) /\ prog'[p].pc = "pump" /\ prog'[p].turn = 1
        /\ prog'[p].phase = "goodbye" /\ prog'[p].outcome = prog[p].outcome
    BY <1>0, <1>5, <2>1, GotoPhaseMoves
  <2> DEFINE d == Finish(Write(conn[p], Readable(conn[p])))
  <2>3. d \in ConnectionOf(p, Closed) /\ d.st = conn[p].st /\ d.ev = conn[p].ev
    <3>1. conn[p] \in ConnectionOf(p, Closed)
      BY <1>0, Zenon DEF DriverInv
    <3>2. conn[p].got \in Numbers
      BY <3>1 DEF ConnectionOf, Connection
    <3>3. Readable(conn[p]) \in Nat
      BY <3>2, ReadableType, Zenon
    <3>4. Alike(p, Closed, conn[p], d)
      BY <1>1, <3>1, <3>3, WrittenAndFinished, Zenon
    <3>5. QED BY <3>4 DEF Alike
  <2>4. Becomes(p, d)
    BY <1>0, <1>5, ConnectionAssigned, Zenon
  <2> HIDE DEF d
  <2>5. QED BY <1>0, <1>1, <1>2, <1>5, <1>g, <2>1, <2>2, <2>3, <2>4, PhaseStep
<1>6. QED BY <1>3, <1>4, <1>5, Zenon DEF ServerEcho

\* server(): the end of the exchange is the client's close, or the guest's.
LEMMA ServerGoodbyeKeeps ==
  ASSUME LoopInv, NEW p \in Side, ServerGoodbye(p)
  PROVE  LoopInv'
<1>0. /\ Sided /\ DriverInv /\ ProcessInv /\ mode' = mode /\ GuestStays
      /\ UNCHANGED <<outbound, made, handed, told, net, lost>>
      /\ prog[p].pc = "check" /\ prog[p].phase = "goodbye"
  BY Looking, OtherPhases, Zenon DEF ServerGoodbye
<1>1. p = "server" /\ UNCHANGED conn
  BY DEF ServerGoodbye
<1>2. DOMAIN events' = Side /\ \A t \in Side : events'[t] \in Seq(QueuedEvents(t, Closed, Shut))
  <2>1. \E E : ConsumeTo(p, E)
    BY Zenon DEF ServerGoodbye
  <2>2. QED BY <1>0, <2>1, EventsTaken, Zenon
<1>3. CASE NotYet(p) \/ End(p, "died")
  <2>1. Stays(p)
    BY <1>3, Zenon DEF Stays
  <2>2. QED BY <1>0, <1>1, <1>2, <2>1, LookStep
<1>4. CASE FirstOf(p, AnyLoss) \in {"ApplicationClosed", "GuestClosed"} /\ End(p, "ok")
  <2>1. Closed \/ Shut
    BY <1>0, <1>4, SawClosed
  <2>2. QED BY <1>0, <1>1, <1>2, <1>4, <2>1, LookStep
<1>5. QED BY <1>3, <1>4, Zenon DEF ServerGoodbye

\* loopback(): the message is read, then both ends are left idle.
LEMMA LoopbackDeliverKeeps ==
  ASSUME LoopInv, NEW p \in Side, LoopbackDeliver(p)
  PROVE  LoopInv'
<1>0. /\ Sided /\ DriverInv /\ ProcessInv /\ mode' = mode /\ GuestStays
      /\ UNCHANGED <<outbound, made, handed, told, net, lost>>
      /\ prog[p].pc = "check" /\ prog[p].phase = "deliver"
  BY Looking, OtherPhases, Zenon DEF LoopbackDeliver
<1>1. UNCHANGED conn /\ mode = "loopback" /\ p = "client"
  <2>1. mode \in {"loopback"} /\ (mode # "interop" => p # "server")
    BY Looking, Zenon DEF LoopbackDeliver
  <2>2. QED BY <2>1 DEF LoopbackDeliver, Side
<1>2. DOMAIN events' = Side /\ \A t \in Side : events'[t] \in Seq(QueuedEvents(t, Closed, Shut))
  <2>1. Consume("server") /\ "server" \in Side
    BY DEF LoopbackDeliver, Side
  <2>2. QED BY <1>0, <2>1, EventsTaken, Zenon
<1>3. CASE NotYet(p) \/ End(p, "died")
  <2>1. Stays(p)
    BY <1>3, Zenon DEF Stays
  <2>2. QED BY <1>0, <1>1, <1>2, <2>1, LookStep
<1>4. CASE prog' = [prog EXCEPT ![p].phase = "idle", ![p].met = {}, ![p].pc = "pump",
                                ![p].turn = 1, ![p].moved = FALSE]
  <2> DEFINE k == [prog[p] EXCEPT !.phase = "idle", !.met = {}, !.pc = "pump",
                                  !.turn = 1, !.moved = FALSE]
  <2>1. prog[p] \in Process /\ prog \in [Side -> Process]
    BY <1>0 DEF ProcessInv
  <2>2. /\ k \in Process /\ k.pc = "pump" /\ k.turn = 1 /\ k.phase = "idle"
        /\ k.outcome = prog[p].outcome
    BY <2>1 DEF Process, Steps, Phases
  <2>3. prog'[p] = k
    BY <1>4, <2>1
  <2>4. DOMAIN prog' = Side /\ prog' = [q \in Side |-> prog'[q]]
    BY <1>4, <2>1
  <2>5. \A q \in Side \ {p} : prog'[q] = prog[q]
    BY <1>4, <2>1
  <2> HIDE DEF k
  <2>6. Moves(p)
    BY <1>0, <2>2, <2>3, <2>4, <2>5, SetProcess
  <2>7. "idle" \in Phases \ {"flush"} /\ "deliver" # "flush" /\ "client" \in Side
    BY DEF Phases, Side
  <2>8. conn[p] \in ConnectionOf(p, Closed) /\ Becomes(p, conn[p])
    BY <1>0, <1>1, ConnectionAssigned, Zenon DEF DriverInv
  <2>9. QED BY <1>0, <1>1, <1>2, <2>2, <2>3, <2>6, <2>7, <2>8, PhaseStep
<1>5. QED BY <1>3, <1>4, Zenon DEF LoopbackDeliver

\* loopback(): both ends report the idle timeout.
LEMMA LoopbackIdleKeeps ==
  ASSUME LoopInv, NEW p \in Side, LoopbackIdle(p)
  PROVE  LoopInv'
<1>0. /\ Sided /\ DriverInv /\ ProcessInv /\ mode' = mode /\ GuestStays
      /\ UNCHANGED <<outbound, made, handed, told, net, lost>>
      /\ prog[p].pc = "check" /\ prog[p].phase = "idle"
  BY Looking, OtherPhases, Zenon DEF LoopbackIdle
<1>1. UNCHANGED conn /\ mode = "loopback"
  <2>1. mode \in {"loopback"}
    BY Looking, Zenon DEF LoopbackIdle
  <2>2. QED BY <2>1, Zenon DEF LoopbackIdle
<1>2. DOMAIN events' = Side /\ \A t \in Side : events'[t] \in Seq(QueuedEvents(t, Closed, Shut))
  BY <1>0, EventsTaken, Zenon DEF LoopbackIdle
<1>3. CASE End(p, "ok")
  BY <1>0, <1>1, <1>2, <1>3, LookStep
<1>4. ASSUME NEW met, met = prog[p].met \cup {s \in Side : Saw(s, "TimedOut")},
             prog' = [prog EXCEPT ![p].met = met, ![p].pc = "wait"]
      PROVE  LoopInv'
  <2>1. prog[p] \in Process
    BY <1>0 DEF ProcessInv
  <2>2. met \in SUBSET {"client", "server", "fin", "guest"}
    BY <1>4, <2>1 DEF Process, Side
  <2>3. Waits(p)
    BY <1>4, <2>2, Zenon DEF Waits
  <2>4. Stays(p)
    BY <2>3, Zenon DEF Stays
  <2>5. QED BY <1>0, <1>1, <1>2, <2>4, LookStep
<1>5. QED BY <1>3, <1>4, Zenon DEF LoopbackIdle

\* client(): the echo is complete and the connection is closed; from here on
\* the close may be on its way.
LEMMA ClientEchoKeeps ==
  ASSUME LoopInv, NEW p \in Side, ClientEcho(p)
  PROVE  LoopInv'
<1>0. /\ Sided /\ DriverInv /\ ProcessInv /\ mode' = mode /\ GuestStays
      /\ UNCHANGED <<outbound, made, handed, told, net, lost>>
      /\ prog[p].pc = "check" /\ prog[p].phase = "echo"
  BY Looking, OtherPhases, Zenon DEF ClientEcho
<1>1. p = "client" /\ mode = "interop"
  <2>1. mode \in {"interop"}
    BY Looking, Zenon DEF ClientEcho
  <2>2. QED BY <2>1 DEF ClientEcho
<1>2. DOMAIN events' = Side /\ \A t \in Side : events'[t] \in Seq(QueuedEvents(t, Closed, Shut))
  BY <1>0, EventsTaken, Zenon DEF ClientEcho
<1>3. CASE UNCHANGED conn /\ (NotYet(p) \/ End(p, "died"))
  <2>1. Stays(p)
    BY <1>3, Zenon DEF Stays
  <2>2. QED BY <1>0, <1>2, <1>3, <2>1, LookStep
<1>4. CASE /\ Readable(conn[p]) = Payload
           /\ conn' = [conn EXCEPT ![p].st = "draining", ![p].tx = <<Frame("close", 0)>>]
           /\ GotoPhase(p, "flush")
  <2>0. /\ LossInv /\ FlushedInOrder /\ VerdictsAgree /\ "client" \in Side /\ "server" \in Side
    BY DEF LoopInv, Side
  <2> DEFINE x == <<Frame("close", 0)>>
             d == [conn["client"] EXCEPT !.st = "draining", !.tx = x]
  <2>1. "flush" \in Phases
    BY DEF Phases
  <2>2. /\ Moves(p) /\ prog'[p].pc = "pump" /\ prog'[p].turn = 1
        /\ prog'[p].phase = "flush" /\ prog'[p].outcome = prog[p].outcome
    BY <1>0, <1>4, <2>1, GotoPhaseMoves
  <2>3. ~Closed /\ Closed' /\ prog'["server"] = prog["server"]
    BY <1>0, <1>1, <2>0, <2>2 DEF Closed, Moves
  <2>4. Closed = FALSE /\ Closed' = TRUE
    BY <2>3 DEF Closed
  <2>5. \A s \in Side : /\ Seq(SentFrames(s, FALSE)) \subseteq Seq(SentFrames(s, TRUE))
                        /\ Seq(SeenEvents(s, FALSE)) \subseteq Seq(SeenEvents(s, TRUE))
                        /\ ConnectionOf(s, FALSE) \subseteq ConnectionOf(s, TRUE)
                        /\ Seq(QueuedEvents(s, FALSE, Shut)) \subseteq Seq(QueuedEvents(s, TRUE, Shut))
    <3>1. Shut \in BOOLEAN
      BY DEF Shut
    <3>2. QED BY <3>1, Widens
  <2>6. DOMAIN conn' = Side /\ conn'["client"] = d /\ conn'["server"] = conn["server"]
    BY <1>0, <1>1, <1>4, <2>0 DEF Sided
  <2>7. conn["client"] \in ConnectionOf("client", TRUE)
    <3>1. conn["client"] \in ConnectionOf("client", FALSE)
      BY <1>0, <2>0, <2>4, Zenon DEF DriverInv
    <3>2. QED BY <2>0, <2>5, <3>1
  <2>8. x \in Seq(SentFrames("client", TRUE)) /\ HasClose(x)
    <3>1. Frame("close", 0) \in SentFrames("client", TRUE)
      BY DEF Frame, SentFrames, AnyFrame, FrameTypes
    <3>2. x \in Seq(SentFrames("client", TRUE))
      <4>1. ASSUME NEW T, NEW e \in T PROVE <<e>> \in Seq(T)
        OBVIOUS
      <4>2. QED BY <3>1, <4>1, Zenon
    <3>3. Len(x) = 1 /\ x[1] = Frame("close", 0)
      OBVIOUS
    <3>4. x[1].t = "close" /\ 1 \in 1..Len(x)
      BY <3>3 DEF Frame
    <3> HIDE DEF x
    <3>5. QED BY <3>2, <3>4, Zenon DEF HasClose
  <2> HIDE DEF x
  <2>9. d \in ConnectionOf("client", TRUE)
    <3> DEFINE F == Seq(SentFrames("client", TRUE))
               E == Seq(SeenEvents("client", TRUE))
    <3>1. conn["client"] \in Connection(F, E) /\ x \in F
      BY <2>7, <2>8 DEF ConnectionOf
    <3> HIDE DEF F, E
    <3>2. ASSUME NEW c \in Connection(F, E), NEW u \in F
          PROVE  [c EXCEPT !.st = "draining", !.tx = u] \in Connection(F, E)
      BY DEF Connection, States
    <3>3. d \in Connection(F, E)
      BY <3>1, <3>2, Zenon
    <3>4. QED BY <3>3, Zenon DEF F, E, ConnectionOf
  <2>10. d.st = "draining" /\ d.tx = x /\ d.got = conn["client"].got
    BY <2>7 DEF ConnectionOf, Connection
  <2> HIDE DEF d
  <2>11. Sided'
    BY <1>0, <1>2, <2>6 DEF Sided
  <2>12. DriverInv'
    <3>1. \A s \in Side : conn'[s] \in ConnectionOf(s, TRUE)
      <4>1. conn["server"] \in ConnectionOf("server", FALSE)
        BY <1>0, <2>0, <2>4, Zenon DEF DriverInv
      <4>2. conn'["server"] \in ConnectionOf("server", TRUE)
        BY <2>0, <2>5, <2>6, <4>1
      <4>3. QED BY <2>6, <2>9, <4>2 DEF Side
    <3>2. \A s \in Side : /\ outbound[s] \in Seq(SentFrames(s, TRUE))
                          /\ lost[s] \in Seq(SentFrames(s, TRUE))
                          /\ made[s] \in Seq(SentFrames(s, TRUE))
                          /\ handed[s] \in Seq(SentFrames(s, TRUE))
                          /\ told[s] \in Seq(SeenEvents(s, TRUE))
                          /\ events'[s] \in Seq(QueuedEvents(s, TRUE, Shut))
      BY <1>0, <1>2, <2>4, <2>5 DEF DriverInv
    <3>3. \A s \in Side : net[s] \in Seq(SentFrames(Peer(s), TRUE))
      <4>1. \A s \in Side : Peer(s) \in Side
        BY DEF Peer, Side
      <4>2. QED BY <1>0, <2>4, <2>5, <4>1 DEF DriverInv
    <3>4. GuestInv' /\ Shut' = Shut
      BY <1>0 DEF GuestStays
    <3>5. QED BY <1>0, <2>4, <3>1, <3>2, <3>3, <3>4, Zenon DEF DriverInv
  <2>13. ProcessInv'
    <3>1. Keeps(p)
      BY <1>1, <2>2 DEF Keeps
    <3>2. QED BY <1>0, <1>1, <2>2, <3>1, ProcessStep
  <2>14. LossInv'
    <3>1. ASSUME NEW t \in Side, conn'[t].st \in Over
          PROVE  HasLoss(conn'[t].ev) \/ HasLoss(told'[t]) \/ prog'[ProcessOf(t)'].phase = "flush"
      <4>1. CASE t = "client"
        BY <1>0, <1>1, <2>2, <4>1 DEF ProcessOf
      <4>2. CASE t = "server"
        <5>1. conn'[t] = conn[t] /\ told'[t] = told[t] /\ prog'[t] = prog[t]
          BY <1>0, <2>3, <2>6, <4>2
        <5>2. ProcessOf(t) = t /\ ProcessOf(t)' = t
          BY <1>0, <1>1 DEF ProcessOf
        <5>3. QED BY <2>0, <3>1, <5>1, <5>2, Zenon DEF LossInv
      <4>3. QED BY <4>1, <4>2 DEF Side
    <3>2. QED BY <3>1, Zenon DEF LossInv
  <2>15. FlushedInOrder'
    BY <1>0, <2>0, Zenon DEF FlushedInOrder
  <2>16. conn'["client"].st \in Over /\ Readable(conn'["client"]) = Payload
    <3>1. Readable(d) = Readable(conn["client"])
      BY <2>10, Zenon DEF Readable
    <3>2. QED BY <1>1, <1>4, <2>6, <2>10, <3>1 DEF Over
  <2>17. FlushInv'
    <3>1. prog'["client"].pc = "pump" /\ HasClose(conn'["client"].tx)
      BY <1>1, <2>2, <2>6, <2>8, <2>10
    <3>2. QED BY <2>16, <3>1, Zenon DEF FlushInv
  <2>18. VerdictsAgree'
    <3>1. prog'["client"].phase = "flush" /\ handed' = handed
      BY <1>0, <1>1, <2>2
    <3>2. prog'["client"].outcome = "ok" => HasClose(handed["client"])
      BY <1>1, <2>0, <2>2, Zenon DEF VerdictsAgree, HasClose
    <3>3. QED BY <2>16, <3>1, <3>2, Zenon DEF VerdictsAgree, HasClose
  <2>19. QED BY <2>11, <2>12, <2>13, <2>14, <2>15, <2>17, <2>18 DEF LoopInv
<1>5. QED BY <1>3, <1>4, Zenon DEF ClientEcho

\* loopback() and the benches: both ends have their handshake.
LEMMA BothHandshakeKeeps ==
  ASSUME LoopInv, NEW p \in Side, BothHandshake(p)
  PROVE  LoopInv'
<1> DEFINE met == prog[p].met \cup {s \in Side : Saw(s, "Connected")}
<1>0. /\ Sided /\ DriverInv /\ ProcessInv /\ mode' = mode /\ GuestStays
      /\ UNCHANGED <<outbound, made, handed, told, net, lost>>
      /\ prog[p].pc = "check" /\ prog[p].phase = "handshake"
  BY Looking, OtherPhases, Zenon DEF BothHandshake
<1>1. p = "client" /\ mode # "interop" /\ Closed \in BOOLEAN /\ "client" \in Side
  <2>1. mode \in {"loopback", "bench", "native"} /\ (mode # "interop" => p # "server")
    BY Looking, Zenon DEF BothHandshake
  <2>2. QED BY <2>1 DEF Side, Closed
<1>2. DOMAIN events' = Side /\ \A t \in Side : events'[t] \in Seq(QueuedEvents(t, Closed, Shut))
  BY <1>0, EventsTaken, Zenon DEF BothHandshake
<1>3. CASE UNCHANGED conn /\ End(p, "died")
  <2>1. Stays(p)
    BY <1>3, Zenon DEF Stays
  <2>2. QED BY <1>0, <1>2, <1>3, <2>1, LookStep
<1>4. CASE UNCHANGED conn /\ prog' = [prog EXCEPT ![p].met = met, ![p].pc = "wait"]
  <2>1. prog[p] \in Process
    BY <1>0 DEF ProcessInv
  <2>2. met \in SUBSET {"client", "server", "fin", "guest"}
    BY <2>1 DEF Process, Side
  <2> HIDE DEF met
  <2>3. Waits(p)
    BY <1>4, <2>2, Zenon DEF Waits
  <2>4. Stays(p)
    BY <2>3, Zenon DEF Stays
  <2>5. QED BY <1>0, <1>2, <1>4, <2>4, LookStep
<1>5. CASE UNCHANGED conn /\ GotoPhase(p, "transfer")
  <2>1. "transfer" \in Phases \ {"flush"} /\ "handshake" # "flush"
    BY DEF Phases
  <2>2. /\ Moves(p) /\ prog'[p].pc = "pump" /\ prog'[p].turn = 1
        /\ prog'[p].phase = "transfer" /\ prog'[p].outcome = prog[p].outcome
    BY <1>0, <1>5, <2>1, GotoPhaseMoves
  <2>3. conn[p] \in ConnectionOf(p, Closed) /\ Becomes(p, conn[p])
    BY <1>0, <1>5, ConnectionAssigned, Zenon DEF DriverInv
  <2>4. QED BY <1>0, <1>1, <1>2, <2>1, <2>2, <2>3, PhaseStep
<1>6. CASE conn' = [conn EXCEPT !["client"] = Finish(Write(@, Payload))] /\ GotoPhase(p, "deliver")
  <2>1. "deliver" \in Phases \ {"flush"} /\ "handshake" # "flush"
    BY DEF Phases
  <2>2. /\ Moves(p) /\ prog'[p].pc = "pump" /\ prog'[p].turn = 1
        /\ prog'[p].phase = "deliver" /\ prog'[p].outcome = prog[p].outcome
    BY <1>0, <1>6, <2>1, GotoPhaseMoves
  <2> DEFINE d == Finish(Write(conn["client"], Payload))
  <2>3. d \in ConnectionOf("client", Closed) /\ d.st = conn["client"].st /\ d.ev = conn["client"].ev
    <3>1. conn["client"] \in ConnectionOf("client", Closed)
      BY <1>0, <1>1, Zenon DEF DriverInv
    <3>2. Payload \in Nat
      BY LoopbackAssumption
    <3>3. Alike("client", Closed, conn["client"], d)
      BY <1>1, <3>1, <3>2, WrittenAndFinished, Zenon
    <3>4. QED BY <3>3 DEF Alike
  <2>4. Becomes("client", d)
    BY <1>0, <1>1, <1>6, ConnectionAssigned, Zenon
  <2> HIDE DEF d
  <2>5. QED BY <1>0, <1>1, <1>2, <2>1, <2>2, <2>3, <2>4, PhaseStep
<1>7. QED BY <1>3, <1>4, <1>5, <1>6, Zenon DEF BothHandshake

\* transfer(): the client writes what the credit allows.
LEMMA BenchWriteKeeps ==
  ASSUME LoopInv, NEW p \in Side, BenchWrite(p)
  PROVE  LoopInv'
<1> DEFINE c == conn["client"]
           limit == IF Bytes < c.credit THEN Bytes ELSE c.credit
           n == limit - c.written
           w == IF c.finished THEN c ELSE Write(c, n)
           d == IF w.written = Bytes /\ ~w.finished THEN Finish(w) ELSE w
<1>0. /\ Sided /\ DriverInv /\ ProcessInv /\ mode' = mode /\ GuestStays
      /\ UNCHANGED <<outbound, made, handed, told, net, lost>>
      /\ prog[p].pc = "check" /\ prog[p].phase = "transfer"
  BY Looking, OtherPhases, Zenon DEF BenchWrite
<1>1. p = "client" /\ mode # "interop" /\ Closed \in BOOLEAN /\ "client" \in Side
  <2>1. mode \in {"bench", "native"} /\ (mode # "interop" => p # "server")
    BY Looking, Zenon DEF BenchWrite
  <2>2. QED BY <2>1 DEF Side, Closed
<1>2. DOMAIN events' = Side /\ \A t \in Side : events'[t] \in Seq(QueuedEvents(t, Closed, Shut))
  BY <1>0, EventsTaken, Zenon DEF BenchWrite
<1>3. CASE UNCHANGED conn /\ End(p, "died")
  <2>1. Stays(p)
    BY <1>3, Zenon DEF Stays
  <2>2. QED BY <1>0, <1>2, <1>3, <2>1, LookStep
<1>4. CASE /\ conn' = [conn EXCEPT !["client"] = d]
           /\ Goto(p, IF c.finished THEN "drain" ELSE "pumpclient")
  <2>1. "transfer" \in Phases \ {"flush"} /\ "transfer" # "flush"
    BY DEF Phases
  <2>2. PICK step \in {"drain", "pumpclient"} : Goto(p, step)
    BY <1>4, Zenon
  <2>3. step \in Steps
    BY <2>2 DEF Steps
  <2>4. /\ Moves(p) /\ prog'[p].pc = step /\ prog'[p].turn = 1
        /\ prog'[p].phase = prog[p].phase /\ prog'[p].outcome = prog[p].outcome
    BY <1>0, <2>2, <2>3, GotoMoves
  <2>5. c \in ConnectionOf("client", Closed)
    BY <1>0, <1>1, Zenon DEF DriverInv
  <2>6. c.credit \in Nat /\ c.written \in Nat
    BY <2>5 DEF ConnectionOf, Connection
  <2>7. limit \in Nat
    BY <2>6, LoopbackAssumption
  <2> HIDE DEF limit
  <2>8. n \in Int /\ c.written + n \in Nat
    BY <2>6, <2>7
  <2> HIDE DEF c, n
  <2>9. Alike("client", Closed, c, w)
    <3>1. Alike("client", Closed, c, Write(c, n))
      BY <1>1, <2>5, <2>8, WriteKeeps DEF Alike
    <3>2. Alike("client", Closed, c, c)
      BY <2>5 DEF Alike
    <3>3. QED BY <3>1, <3>2, Zenon
  <2> HIDE DEF w
  <2>10. Alike("client", Closed, c, d)
    <3>1. w \in ConnectionOf("client", Closed) /\ w.st = c.st /\ w.ev = c.ev
      BY <2>9 DEF Alike
    <3>2. Alike("client", Closed, c, Finish(w))
      BY <1>1, <3>1, FinishKeeps DEF Alike
    <3>3. QED BY <2>9, <3>2, Zenon
  <2>11. Becomes("client", d)
    BY <1>0, <1>1, <1>4, ConnectionAssigned, Zenon
  <2> HIDE DEF d
  <2>12. d \in ConnectionOf("client", Closed) /\ d.st = conn["client"].st /\ d.ev = conn["client"].ev
    BY <2>10 DEF Alike, c
  <2>13. prog'[p].phase = "transfer" /\ prog'[p].pc \in {"pump", "pumpclient", "drain"}
    BY <1>0, <2>2, <2>4
  <2>14. QED BY <1>0, <1>1, <1>2, <2>1, <2>4, <2>11, <2>12, <2>13, PhaseStep
<1>5. QED BY <1>3, <1>4, Zenon DEF BenchWrite

\* The server discards what has arrived and frees credit.
LEMMA BenchDrainKeeps ==
  ASSUME LoopInv, NEW p \in Side, BenchDrain(p)
  PROVE  LoopInv'
<1> DEFINE c == conn["server"]
           n == Cardinality(c.got)
           new == n + Window > c.credit
           credit == IF new THEN n + Window ELSE c.credit
           tx == IF new THEN Append(c.tx, Frame("credit", n + Window)) ELSE c.tx
           d == [c EXCEPT !.credit = credit, !.tx = tx]
           k == [prog[p] EXCEPT !.pc = IF new THEN "pumpserver" ELSE "decide",
                                !.met = IF Finished(c) THEN {"fin"} ELSE {}, !.got = n]
<1>0. /\ Sided /\ DriverInv /\ ProcessInv /\ mode' = mode /\ prog[p].pc = "drain"
      /\ UNCHANGED <<outbound, made, handed, told, net, lost, events>>
  BY DEF LoopInv, BenchDrain, driver, world
<1>g. GuestStays
  BY <1>0, GuestKept DEF BenchDrain, driver
<1>1. mode # "interop" /\ p = "client" /\ "server" \in Side /\ ~Closed /\ Closed \in BOOLEAN
  <2>1. mode # "interop" /\ p # "server" /\ ~Closed
    BY <1>0 DEF ProcessInv
  <2>2. QED BY <2>1 DEF Side, Closed
<1>2. c \in ConnectionOf("server", Closed)
  BY <1>0, <1>1, Zenon DEF DriverInv
<1>3. n \in Nat
  <2>1. IsFiniteSet(c.got)
    BY <1>2 DEF ConnectionOf, Connection, Numbers
  <2>2. QED BY <2>1, FS_CardinalityType
<1>4. DOMAIN conn = Side /\ DOMAIN prog = Side /\ prog \in [Side -> Process]
  BY <1>0 DEF Sided, ProcessInv
<1>5. conn' = [conn EXCEPT !["server"] = d]
  BY <1>1, <1>4 DEF BenchDrain
<1>6. prog' = [prog EXCEPT ![p] = k]
  BY <1>4 DEF BenchDrain
<1>7. k \in Process /\ k.pc \in {"pumpserver", "decide"} /\ k.turn = prog[p].turn
      /\ k.phase = prog[p].phase /\ k.outcome = prog[p].outcome
  <2>1. prog[p] \in Process
    BY <1>4
  <2>2. ASSUME NEW step \in {"pumpserver", "decide"}, NEW met \in {{"fin"}, {}}
        PROVE  LET j == [prog[p] EXCEPT !.pc = step, !.met = met, !.got = n]
               IN  /\ j \in Process /\ j.pc \in {"pumpserver", "decide"} /\ j.turn = prog[p].turn
                   /\ j.phase = prog[p].phase /\ j.outcome = prog[p].outcome
    BY <1>3, <2>1 DEF Process, Steps
  <2>3. (IF new THEN "pumpserver" ELSE "decide") \in {"pumpserver", "decide"}
    OBVIOUS
  <2>4. (IF Finished(c) THEN {"fin"} ELSE {}) \in {{"fin"}, {}}
    OBVIOUS
  <2>5. QED BY <2>2, <2>3, <2>4, Zenon
<1> HIDE DEF k
<1>8. Moves(p) /\ prog'[p] = k
  BY <1>4, <1>6, <1>7 DEF Moves
<1>9. credit \in Nat
  BY <1>2, <1>3, LoopbackAssumption DEF ConnectionOf, Connection
<1>10. tx \in Seq(SentFrames("server", Closed))
  <2>1. Frame("credit", n + Window) \in SentFrames("server", Closed)
    BY <1>3, LoopbackAssumption DEF Frame, SentFrames, AnyFrame, FrameTypes
  <2>2. c.tx \in Seq(SentFrames("server", Closed))
    BY <1>2 DEF ConnectionOf, Connection
  <2>3. QED BY <2>1, <2>2, AppendProperties
<1> HIDE DEF credit, tx
<1>11. d \in ConnectionOf("server", Closed) /\ d.st = c.st /\ d.ev = c.ev
  BY <1>2, <1>9, <1>10 DEF ConnectionOf, Connection
<1> HIDE DEF d
<1>12. /\ DOMAIN conn' = Side
       /\ \A t \in Side : /\ conn'[t] \in ConnectionOf(t, Closed)
                          /\ conn'[t].st = conn[t].st /\ conn'[t].ev = conn[t].ev
  <2>1. Becomes("server", d)
    BY <1>0, <1>1, <1>5, ConnectionAssigned, Zenon
  <2>2. QED BY <1>0, <1>1, <1>11, <2>1, ConnectionSet
<1>13. DOMAIN events' = Side /\ \A t \in Side : events'[t] \in Seq(QueuedEvents(t, Closed, Shut))
  BY <1>0, <1>1, EventsTaken
<1>14. \A t \in Side : /\ conn'[t] \in ConnectionOf(t, Closed)
                       /\ conn'[t].st = conn[t].st /\ conn'[t].ev = conn[t].ev
                       /\ events'[t] \in Seq(QueuedEvents(t, Closed, Shut))
  BY <1>12, <1>13, Zenon
<1>15. Keeps(p)
  <2>1. prog[p].turn \in 1..2
    BY <1>0, <1>1 DEF ProcessInv
  <2>2. QED BY <1>1, <1>7, <1>8, <2>1 DEF Keeps
<1>16. Closed' = Closed
  BY <1>0, <1>7, <1>8, PhaseStays, Zenon
<1>17. /\ UNCHANGED <<outbound, made, handed, told, net, lost>>
       /\ prog["client"].pc \in {"pump", "ended"} => p # "client"
       /\ prog[p].phase = "flush" => prog'[p].phase = "flush"
  BY <1>0, <1>1, <1>7, <1>8
<1>18. QED BY <1>0, <1>g, <1>1, <1>8, <1>12, <1>13, <1>14, <1>15, <1>16, <1>17, CheckStep, Zenon

\* The end of the transfer is decided on what was drained.
LEMMA BenchDecideKeeps ==
  ASSUME LoopInv, NEW p \in Side, BenchDecide(p)
  PROVE  LoopInv'
<1>0. /\ Sided /\ DriverInv /\ ProcessInv /\ mode' = mode /\ prog[p].pc = "decide"
      /\ UNCHANGED <<conn, outbound, made, handed, told, net, lost, events>>
  BY DEF LoopInv, BenchDecide, driver, world
<1>g. GuestStays
  BY <1>0, GuestKept DEF BenchDecide, driver
<1>1. mode # "interop"
  BY <1>0 DEF ProcessInv
<1>2. DOMAIN events' = Side /\ \A t \in Side : events'[t] \in Seq(QueuedEvents(t, Closed, Shut))
  BY <1>0, EventsTaken
<1>3. End(p, "ok") \/ Stays(p)
  BY Zenon DEF BenchDecide, Stays
<1>4. UNCHANGED <<conn, outbound, made, handed, told, net, lost>>
  BY <1>0
<1>5. prog[p].pc \in {"check", "decide"}
  BY <1>0
<1>6. QED BY <1>0, <1>g, <1>1, <1>2, <1>3, <1>4, <1>5, LookStep, Zenon

\* A waiting program pumps again.
LEMMA WakeKeeps ==
  ASSUME LoopInv, NEW p \in Side, Wake(p)
  PROVE  LoopInv'
<1>0. /\ Sided /\ DriverInv /\ ProcessInv /\ mode' = mode /\ prog[p].pc = "wait"
      /\ UNCHANGED <<conn, outbound, made, handed, told, net, lost, events>>
      /\ Goto(p, "pump") /\ "pump" \in Steps
  BY DEF LoopInv, Wake, driver, world, Steps
<1>g. GuestStays
  BY <1>0, GuestKept DEF Wake, driver
<1>1. /\ Moves(p) /\ prog'[p].pc = "pump" /\ prog'[p].turn = 1
      /\ prog'[p].phase = prog[p].phase /\ prog'[p].outcome = prog[p].outcome
  BY <1>0, GotoMoves
<1>2. Keeps(p)
  <2>1. mode # "interop" => p # "server"
    BY <1>0 DEF ProcessInv
  <2>2. QED BY <1>1, <2>1 DEF Keeps
<1>3. /\ DOMAIN conn' = Side
      /\ \A t \in Side : /\ conn'[t] \in ConnectionOf(t, Closed)
                         /\ conn'[t].st = conn[t].st /\ conn'[t].ev = conn[t].ev
  BY <1>0, ConnectionKept
<1>4. DOMAIN events' = Side /\ \A t \in Side : events'[t] \in Seq(QueuedEvents(t, Closed, Shut))
  BY <1>0, EventsTaken
<1>5. \A t \in Side : /\ conn'[t] \in ConnectionOf(t, Closed)
                      /\ conn'[t].st = conn[t].st /\ conn'[t].ev = conn[t].ev
                      /\ events'[t] \in Seq(QueuedEvents(t, Closed, Shut))
  BY <1>3, <1>4, Zenon
<1>6. Closed' = Closed
  BY <1>0, <1>1, PhaseStays, Zenon
<1>7. /\ UNCHANGED <<outbound, made, handed, told, net, lost>>
      /\ prog["client"].pc \in {"pump", "ended"} => p # "client"
      /\ prog[p].phase = "flush" => prog'[p].phase = "flush"
      /\ conn'["client"] = conn["client"]
      /\ mode = "interop" /\ prog'[p].outcome = "ok" => prog[p].outcome = "ok"
  BY <1>0, <1>1
<1>8. QED BY <1>0, <1>g, <1>1, <1>2, <1>3, <1>4, <1>5, <1>6, <1>7, CheckStep, Zenon

-----------------------------------------------------------------------------
(* The world's steps *)

\* A step of the network or of a clock touches nothing but queues of frames
\* that were sent.
LEMMA WorldStep ==
  ASSUME LoopInv, UNCHANGED <<conn, events, outbound, made, handed, told, prog, mode>>,
         DOMAIN net' = Side, DOMAIN lost' = Side, GuestStays,
         \A s \in Side : /\ net'[s] \in Seq(SentFrames(Peer(s), Closed))
                         /\ lost'[s] \in Seq(SentFrames(s, Closed))
  PROVE  LoopInv'
<1>0. Sided /\ DriverInv /\ ProcessInv /\ LossInv /\ FlushInv /\ FlushedInOrder /\ VerdictsAgree
  BY DEF LoopInv
<1>1. Closed' = Closed
  BY DEF Closed
<1>2. Sided'
  BY <1>0 DEF Sided
<1>3. DriverInv'
  BY <1>0, <1>1, Zenon DEF DriverInv, GuestStays
<1>4. ProcessInv'
  BY <1>0, <1>1, Zenon DEF ProcessInv
<1>5. LossInv'
  BY <1>0, Zenon DEF LossInv, ProcessOf
<1>6. FlushInv'
  BY <1>0, <1>1, Zenon DEF FlushInv
<1>7. FlushedInOrder'
  BY <1>0, Zenon DEF FlushedInOrder
<1>8. VerdictsAgree'
  BY <1>0, Zenon DEF VerdictsAgree, GuestStays, Shut
<1>9. QED BY <1>2, <1>3, <1>4, <1>5, <1>6, <1>7, <1>8, Zenon DEF LoopInv

\* A step that leaves the queues alone too.
LEMMA IdleStep ==
  ASSUME LoopInv, UNCHANGED <<conn, events, outbound, made, handed, told, prog, mode, net, lost>>,
         GuestStays
  PROVE  LoopInv'
<1>1. \A s \in Side : /\ net'[s] \in Seq(SentFrames(Peer(s), Closed))
                      /\ lost'[s] \in Seq(SentFrames(s, Closed))
  BY Zenon DEF LoopInv, DriverInv
<1>2. DOMAIN net' = Side /\ DOMAIN lost' = Side
  BY DEF LoopInv, Sided
<1>3. UNCHANGED <<conn, events, outbound, made, handed, told, prog, mode>>
  OBVIOUS
<1>4. QED BY <1>1, <1>2, <1>3, WorldStep

\* A lost datagram becomes one its sender will miss.
LEMMA LoseKeeps ==
  ASSUME LoopInv, NEW s \in Side, Lose(s)
  PROVE  LoopInv'
<1> DEFINE f == Head(net[s])
           F == SentFrames(Peer(s), Closed)
           l == IF f.t \in {"close", "stray", "noise"} THEN lost[Peer(s)]
                ELSE Append(lost[Peer(s)], f)
<1>0. Sided /\ DriverInv /\ Peer(s) \in Side /\ Peer(s) # s
  BY DEF LoopInv, Peer, Side
<1>1. net[s] \in Seq(F) /\ lost[Peer(s)] \in Seq(F) /\ net[s] # <<>>
  BY <1>0, Zenon DEF DriverInv, Lose
<1>2. f \in F /\ Tail(net[s]) \in Seq(F)
  BY <1>1, HeadTailProperties
<1>3. l \in Seq(F)
  BY <1>1, <1>2, AppendProperties
<1>4. lost' = [lost EXCEPT ![Peer(s)] = l] /\ net' = [net EXCEPT ![s] = Tail(net[s])]
  BY <1>0 DEF Lose, Sided
<1> HIDE DEF l, F
<1>5. DOMAIN net' = Side /\ DOMAIN lost' = Side
  BY <1>0, <1>4 DEF Sided
<1>6. ASSUME NEW t \in Side
      PROVE  /\ net'[t] \in Seq(SentFrames(Peer(t), Closed))
             /\ lost'[t] \in Seq(SentFrames(t, Closed))
  <2>1. net[t] \in Seq(SentFrames(Peer(t), Closed)) /\ lost[t] \in Seq(SentFrames(t, Closed))
    BY <1>0, Zenon DEF DriverInv
  <2>2. net'[t] = IF t = s THEN Tail(net[s]) ELSE net[t]
    BY <1>0, <1>4 DEF Sided
  <2>3. lost'[t] = IF t = Peer(s) THEN l ELSE lost[t]
    BY <1>0, <1>4 DEF Sided
  <2>4. QED BY <1>2, <1>3, <2>1, <2>2, <2>3, Zenon DEF F
<1>7. UNCHANGED <<conn, events, outbound, made, handed, told, prog, mode>> /\ GuestStays
  BY <1>0, GuestKept DEF Lose, driver, world
<1>8. QED BY <1>5, <1>6, <1>7, WorldStep

\* A foreign datagram is none the peer sent, and no close.
LEMMA StrayKeeps ==
  ASSUME LoopInv, NEW s \in Side, Stray(s)
  PROVE  LoopInv'
<1>0. Sided /\ DriverInv
  BY DEF LoopInv
<1>1. PICK t \in {"stray", "noise"} : net' = [net EXCEPT ![s] = Append(@, Frame(t, 0))]
  BY DEF Stray
<1>2. Frame(t, 0) \in SentFrames(Peer(s), Closed)
  BY DEF Frame, SentFrames, AnyFrame, FrameTypes
<1>3. net[s] \in Seq(SentFrames(Peer(s), Closed))
  BY <1>0, Zenon DEF DriverInv
<1>4. Append(net[s], Frame(t, 0)) \in Seq(SentFrames(Peer(s), Closed))
  BY <1>2, <1>3, AppendProperties
<1>5. UNCHANGED <<conn, events, outbound, made, handed, told, prog, mode, lost>> /\ GuestStays
  BY <1>0, GuestKept DEF Stray, driver, world
<1>6. DOMAIN net' = Side /\ DOMAIN lost' = Side
  BY <1>0, <1>1, <1>5 DEF Sided
<1>7. ASSUME NEW r \in Side
      PROVE  /\ net'[r] \in Seq(SentFrames(Peer(r), Closed))
             /\ lost'[r] \in Seq(SentFrames(r, Closed))
  <2>1. net[r] \in Seq(SentFrames(Peer(r), Closed)) /\ lost[r] \in Seq(SentFrames(r, Closed))
    BY <1>0, Zenon DEF DriverInv
  <2>2. net'[r] = IF r = s THEN Append(net[s], Frame(t, 0)) ELSE net[r]
    BY <1>0, <1>1 DEF Sided
  <2>3. QED BY <1>4, <1>5, <2>1, <2>2, Zenon
<1>8. QED BY <1>5, <1>6, <1>7, WorldStep

\* The path dies with what was on it.
LEMMA CutKeeps ==
  ASSUME LoopInv, Cut
  PROVE  LoopInv'
<1>1. DOMAIN net' = Side /\ DOMAIN lost' = Side
  BY DEF Cut
<1>2. \A s \in Side : /\ net'[s] \in Seq(SentFrames(Peer(s), Closed))
                      /\ lost'[s] \in Seq(SentFrames(s, Closed))
  BY EmptySeq DEF Cut
<1>3. UNCHANGED <<conn, events, outbound, made, handed, told, prog, mode>> /\ GuestStays
  BY GuestKept DEF Cut, driver, LoopInv
<1>4. QED BY <1>1, <1>2, <1>3, WorldStep

\* A foreign client sends a datagram.
LEMMA ForeignKeeps ==
  ASSUME LoopInv, Foreign
  PROVE  LoopInv'
<1>1. PICK f \in {"hello", "done", "fin", "close"} : guest' = [guest EXCEPT !.frame = f]
  BY DEF Foreign
<1>2. guest \in AnyGuest /\ (Shut => guest.st \in {"draining", "gone"})
  BY Zenon DEF LoopInv, DriverInv, GuestInv
<1>3. guest' \in AnyGuest /\ guest'.why = guest.why /\ guest'.st = guest.st
  BY <1>1, <1>2 DEF AnyGuest
<1>4. Shut' = Shut
  BY <1>3 DEF Shut
<1>5. GuestStays
  BY <1>2, <1>3, <1>4 DEF GuestStays, GuestInv
<1>6. UNCHANGED <<conn, events, outbound, made, handed, told, prog, mode, net, lost>>
  BY DEF Foreign, world
<1>7. QED BY <1>5, <1>6, IdleStep

-----------------------------------------------------------------------------
(* The rig's theorems *)

\* A program starts with an open client, whose hello is queued, and nothing
\* else.
LEMMA LoopInit == Init => LoopInv
<1> SUFFICES ASSUME Init PROVE LoopInv
  OBVIOUS
<1>1. ~Closed
  BY DEF Init, Closed, Side
<1>2. Sided
  BY DEF Init, Sided, NewDriver, Side
<1>3. Frame("hello", 0) \in SentFrames("client", Closed)
  BY DEF Frame, SentFrames, AnyFrame, FrameTypes
<1>4. \A s \in Side : conn[s] \in ConnectionOf(s, Closed) /\ conn[s].st \notin Over
  <2>1. {} \in Numbers
    BY FS_EmptySet DEF Numbers
  <2>2. Window \in Nat
    BY LoopbackAssumption
  <2>3. <<>> \in Seq(SentFrames("client", Closed)) /\ <<>> \in Seq(SentFrames("server", Closed))
        /\ <<>> \in Seq(SeenEvents("client", Closed)) /\ <<>> \in Seq(SeenEvents("server", Closed))
    BY EmptySeq
  <2>4. <<Frame("hello", 0)>> \in Seq(SentFrames("client", Closed))
    BY <1>3
  <2>5. NoConnection \in ConnectionOf("server", Closed) /\ NoConnection.st = "none"
    BY <2>1, <2>2, <2>3 DEF NoConnection, ConnectionOf, Connection, States
  <2>6. conn["client"] \in ConnectionOf("client", Closed) /\ conn["client"].st = "open"
    BY <2>1, <2>2, <2>3, <2>4 DEF Init, NoConnection, ConnectionOf, Connection, States
  <2>7. conn["server"] = NoConnection
    BY DEF Init
  <2>8. QED BY <2>5, <2>6, <2>7 DEF Side, Over
<1>5. DriverInv
  <2>1. GuestInv
    BY EmptySeq DEF GuestInv, AnyGuest, NoGuest, Init, NewDriver, Shut
  <2>2. QED BY <1>4, <2>1, EmptySeq DEF DriverInv, Init, NewDriver
<1>6. ProcessInv
  <2>1. mode \in {"interop", "loopback", "bench", "native"}
    BY LoopbackAssumption DEF Init
  <2>2. prog \in [Side -> Process]
    BY DEF Init, Process, Steps, Phases
  <2>3. \A p \in Side : prog[p].turn = 1
    BY DEF Init
  <2>4. \A p \in Side : prog[p].pc = IF mode = "interop" \/ p = "client" THEN "pump" ELSE "joined"
    BY DEF Init
  <2>5. QED BY <1>1, <2>1, <2>2, <2>3, <2>4 DEF ProcessInv
<1>7. LossInv
  BY <1>4 DEF LossInv
<1>8. FlushInv
  BY <1>1 DEF FlushInv
<1>9. FlushedInOrder
  BY ConcatEmptySeq, EmptySeq DEF FlushedInOrder, Init, NewDriver
<1>10. VerdictsAgree
  BY DEF VerdictsAgree, Init, Side
<1>11. QED BY <1>2, <1>5, <1>6, <1>7, <1>8, <1>9, <1>10 DEF LoopInv

\* Every step of a program keeps the rig's invariant.
LEMMA ProgramKeeps ==
  ASSUME LoopInv, NEW p \in Side, Program(p)
  PROVE  LoopInv'
<1>1. CASE PumpAll(p) \/ PumpFails(p)
  BY <1>1, PumpAllKeeps, PumpFailsKeeps
<1>2. CASE PumpInner(p, "pumpclient", "client", "drain")
  BY <1>2, PumpInnerKeeps DEF Side
<1>3. CASE PumpInner(p, "pumpserver", "server", "decide")
  BY <1>3, PumpInnerKeeps DEF Side
<1>4. CASE ClientHandshake(p) \/ ClientEcho(p) \/ ClientFlush(p)
  BY <1>4, ClientHandshakeKeeps, ClientEchoKeeps, ClientFlushKeeps
<1>5. CASE ServerHandshake(p) \/ ServerEcho(p) \/ ServerGoodbye(p)
  BY <1>5, ServerHandshakeKeeps, ServerEchoKeeps, ServerGoodbyeKeeps
<1>6. CASE BothHandshake(p) \/ LoopbackDeliver(p) \/ LoopbackIdle(p)
  BY <1>6, BothHandshakeKeeps, LoopbackDeliverKeeps, LoopbackIdleKeeps
<1>7. CASE BenchWrite(p) \/ BenchDrain(p) \/ BenchDecide(p)
  BY <1>7, BenchWriteKeeps, BenchDrainKeeps, BenchDecideKeeps
<1>8. CASE Wake(p)
  BY <1>8, WakeKeeps
<1>9. QED BY <1>1, <1>2, <1>3, <1>4, <1>5, <1>6, <1>7, <1>8, Zenon DEF Program

\* Every step of the rig does.
LEMMA LoopNext == LoopInv /\ [Next]_vars => LoopInv'
<1> SUFFICES ASSUME LoopInv, [Next]_vars PROVE LoopInv'
  OBVIOUS
<1>1. ASSUME NEW p \in Side, Program(p) PROVE LoopInv'
  BY <1>1, ProgramKeeps
<1>2. ASSUME NEW s \in Side, Lose(s) \/ Stray(s) PROVE LoopInv'
  BY <1>2, LoseKeeps, StrayKeeps
<1>3. ASSUME NEW s \in Side, TimerDue(s) \/ Room(s) PROVE LoopInv'
  <2>1. UNCHANGED <<conn, events, outbound, made, handed, told, prog, mode, net, lost, guest>>
    BY <1>3 DEF TimerDue, Room, driver, world
  <2>2. GuestStays
    BY <2>1, GuestKept DEF LoopInv
  <2>3. QED BY <2>1, <2>2, IdleStep
<1>4. CASE Foreign \/ Cut
  BY <1>4, ForeignKeeps, CutKeeps
<1>5. CASE Late \/ UNCHANGED vars
  <2>1. UNCHANGED <<conn, events, outbound, made, handed, told, prog, mode, net, lost, guest>>
    BY <1>5 DEF Late, driver, world, vars
  <2>2. GuestStays
    BY <2>1, GuestKept DEF LoopInv
  <2>3. QED BY <2>1, <2>2, IdleStep
<1>6. QED BY <1>1, <1>2, <1>3, <1>4, <1>5, Zenon DEF Next

\* The rig's invariant, for every payload, transfer, window and number of
\* faults, in all four programs: what each side sends and sees, where its
\* process is, and the three properties below (driver.rs, main.rs).
THEOREM LoopInvCorrect == Spec => []LoopInv
BY LoopInit, LoopNext, PTL DEF Spec

\* Every collected datagram is handed to the socket exactly once and in order,
\* however little the socket takes at a time (driver.rs, pump's flush loop).
THEOREM FlushedAlwaysInOrder == Spec => []FlushedInOrder
<1>1. LoopInv => FlushedInOrder
  BY DEF LoopInv
<1>2. QED BY <1>1, LoopInvCorrect, PTL

\* The server reports success only after the client had the whole echo and
\* closed, or a foreign client closed its connection; the client only with its close handed to the socket (main.rs,
\* client and server).
THEOREM VerdictsAlwaysAgree == Spec => []VerdictsAgree
<1>1. LoopInv => VerdictsAgree
  BY DEF LoopInv
<1>2. QED BY <1>1, LoopInvCorrect, PTL

-----------------------------------------------------------------------------
(* A loss is told *)

\* A connection leaves the table with nothing more to report.
GoneInv == \A s \in Side : conn[s].st = "gone" => conn[s].ev = <<>>

\* Writing and finishing touch neither the state nor the events.
LEMMA WritingKeeps ==
  ASSUME NEW Tx, NEW Ev, NEW c \in Connection(Tx, Ev), NEW n
  PROVE  /\ Write(c, n).st = c.st /\ Write(c, n).ev = c.ev
         /\ Finish(c).st = c.st /\ Finish(c).ev = c.ev
         /\ Finish(Write(c, n)).st = c.st /\ Finish(Write(c, n)).ev = c.ev
<1> DEFINE a == c.tx \o Frames("data", c.written + 1, c.written + n)
           b == c.written + n
           d == [c EXCEPT !.tx = a, !.written = b]
<1>1. Write(c, n) = d
  BY DEF Write
<1> HIDE DEF a, b
<1>2. d.st = c.st /\ d.ev = c.ev /\ DOMAIN d = DOMAIN c
  BY DEF Connection
<1>3. ASSUME NEW e, DOMAIN e = DOMAIN c, e.st = c.st, e.ev = c.ev
      PROVE  Finish(e).st = c.st /\ Finish(e).ev = c.ev
  <2>1. "st" \in DOMAIN e /\ "ev" \in DOMAIN e
    BY <1>3 DEF Connection
  <2>2. QED BY <1>3, <2>1 DEF Finish
<1>4. DOMAIN d = DOMAIN c
  BY <1>2
<1> HIDE DEF d
<1>5. QED BY <1>1, <1>2, <1>3, <1>4

\* What a step may do to a connection: leave its state and events, take its
\* events, or begin to drain it.
Reports(c, d) == (d.st = c.st /\ d.ev = c.ev) \/ d.ev = <<>> \/ d.st = "draining"

\* A pump takes the events; a look writes, finishes, frees credit or closes.
LEMMA ConnectionReports ==
  ASSUME LoopInv, [Next]_vars, NEW s \in Side
  PROVE  Reports(conn[s], conn'[s])
<1>0. Sided /\ DriverInv /\ DOMAIN conn = Side /\ "client" \in Side /\ "server" \in Side
  BY DEF LoopInv, Sided, Side
<1>1. \A t \in Side : \E Tx, Ev : conn[t] \in Connection(Tx, Ev)
  BY <1>0, Zenon DEF DriverInv, ConnectionOf
<1>2. \A t \in Side : Reports(conn[t], conn[t])
  BY DEF Reports
<1>3. ASSUME UNCHANGED conn PROVE Reports(conn[s], conn'[s])
  BY <1>2, <1>3, Zenon
<1>4. ASSUME NEW t \in Side, NEW d, Reports(conn[t], d), conn' = [conn EXCEPT ![t] = d]
      PROVE  Reports(conn[s], conn'[s])
  <2>1. conn'[s] = IF s = t THEN d ELSE conn[s]
    BY <1>0, <1>4
  <2>2. QED BY <1>2, <1>4, <2>1, Zenon
<1>5. ASSUME NEW t \in Side, NEW sent \in Nat, PumpDriver(t, sent)
      PROVE  Reports(conn[s], conn'[s])
  <2>1. PICK c, x, y, q : PumpedTo(t, sent, c, x, y, q)
    BY <1>0, <1>5, PumpParts
  <2>2. conn' = [conn EXCEPT ![t] = Collect(c).conn] /\ c \in ConnectionOf(t, Closed)
    BY <2>1, Zenon DEF PumpedTo, Follows
  <2>3. Collect(c).conn.ev = <<>>
    BY <2>2 DEF Collect, ConnectionOf, Connection
  <2>4. Reports(conn[t], Collect(c).conn)
    BY <2>3, Zenon DEF Reports
  <2>5. QED BY <1>4, <2>2, <2>4, Zenon
<1>6. ASSUME NEW t \in Side, NEW n
      PROVE  /\ Reports(conn[t], Write(conn[t], n)) /\ Reports(conn[t], Finish(conn[t]))
             /\ Reports(conn[t], Finish(Write(conn[t], n)))
  <2>1. PICK Tx, Ev : conn[t] \in Connection(Tx, Ev)
    BY <1>1
  <2> DEFINE c == conn[t]
  <2>2. /\ Write(c, n).st = c.st /\ Write(c, n).ev = c.ev
        /\ Finish(c).st = c.st /\ Finish(c).ev = c.ev
        /\ Finish(Write(c, n)).st = c.st /\ Finish(Write(c, n)).ev = c.ev
    BY <2>1, WritingKeeps
  <2>3. QED BY <2>2, Zenon DEF Reports
<1>7. ASSUME NEW p \in Side, PumpAll(p) PROVE Reports(conn[s], conn'[s])
  <2>1. prog[p].pc # "joined" /\ ProcessInv
    BY <1>7 DEF PumpAll, LoopInv
  <2>2. Drives(p)[prog[p].turn] \in Side
    BY <2>1, DriverOf
  <2>3. PICK sent \in 0..MaxQueue(Drives(p)[prog[p].turn]) :
          PumpDriver(Drives(p)[prog[p].turn], sent)
    BY <1>7, Zenon DEF PumpAll
  <2>4. sent \in Nat
    BY <2>3
  <2>5. QED BY <1>5, <2>2, <2>3, <2>4, Zenon
<1>8. ASSUME NEW p \in Side, NEW t \in Side, NEW step, NEW next, PumpInner(p, step, t, next)
      PROVE  Reports(conn[s], conn'[s])
  <2>1. PICK sent \in 0..MaxQueue(t) : PumpDriver(t, sent)
    BY <1>8, Zenon DEF PumpInner
  <2>2. sent \in Nat
    BY <2>1
  <2>3. QED BY <1>5, <2>1, <2>2, Zenon
<1>f. ASSUME NEW p \in Side, PumpFails(p) PROVE Reports(conn[s], conn'[s])
  <2>1. CASE UNCHANGED conn
    BY <1>3, <2>1
  <2>2. CASE \E sent \in 0..MaxQueue(Pumped(p)) : PumpDriver(Pumped(p), sent)
    <3>1. PICK sent \in 0..MaxQueue(Pumped(p)) : PumpDriver(Pumped(p), sent)
      BY <2>2
    <3>2. sent \in Nat
      BY <3>1
    <3>3. Pumped(p) \in Side
      BY <1>f, PumpedSide DEF PumpFails, LoopInv
    <3>4. QED BY <1>5, <3>1, <3>2, <3>3, Zenon
  <2>3. QED BY <1>f, <2>1, <2>2, Zenon DEF PumpFails
<1>9. ASSUME NEW p \in Side, ClientHandshake(p) PROVE Reports(conn[s], conn'[s])
  <2>1. UNCHANGED conn \/ conn' = [conn EXCEPT ![p] = Finish(Write(conn[p], Payload))]
    BY <1>9, Zenon DEF ClientHandshake
  <2>2. QED BY <1>3, <1>4, <1>6, <2>1, Zenon
<1>10. ASSUME NEW p \in Side, ServerEcho(p) PROVE Reports(conn[s], conn'[s])
  <2>1. UNCHANGED conn \/ conn' = [conn EXCEPT ![p] = Finish(Write(conn[p], Readable(conn[p])))]
    BY <1>10, Zenon DEF ServerEcho
  <2>2. QED BY <1>3, <1>4, <1>6, <2>1, Zenon
<1>11. ASSUME NEW p \in Side, BothHandshake(p) PROVE Reports(conn[s], conn'[s])
  <2>1. UNCHANGED conn \/ conn' = [conn EXCEPT !["client"] = Finish(Write(conn["client"], Payload))]
    BY <1>11, Zenon DEF BothHandshake
  <2>2. QED BY <1>0, <1>3, <1>4, <1>6, <2>1, Zenon
<1>12. ASSUME NEW p \in Side, ClientEcho(p) PROVE Reports(conn[s], conn'[s])
  <2> DEFINE d == [conn[p] EXCEPT !.st = "draining", !.tx = <<Frame("close", 0)>>]
  <2>1. UNCHANGED conn \/ conn' = [conn EXCEPT ![p] = d]
    BY <1>0, <1>12 DEF ClientEcho
  <2>2. d.st = "draining"
    BY <1>1 DEF Connection
  <2>3. Reports(conn[p], d)
    BY <2>2, Zenon DEF Reports
  <2>4. QED BY <1>3, <1>4, <2>1, <2>3, Zenon
<1>13. ASSUME NEW p \in Side, BenchWrite(p) PROVE Reports(conn[s], conn'[s])
  <2> DEFINE c == conn["client"]
             n == (IF Bytes < c.credit THEN Bytes ELSE c.credit) - c.written
             w == IF c.finished THEN c ELSE Write(c, n)
             d == IF w.written = Bytes /\ ~w.finished THEN Finish(w) ELSE w
  <2>1. UNCHANGED conn \/ conn' = [conn EXCEPT !["client"] = d]
    BY <1>13, Zenon DEF BenchWrite
  <2>2. Reports(c, c) /\ Reports(c, Write(c, n)) /\ Reports(c, Finish(c))
        /\ Reports(c, Finish(Write(c, n)))
    BY <1>0, <1>2, <1>6, Zenon
  <2>3. d \in {c, Write(c, n), Finish(c), Finish(Write(c, n))}
    OBVIOUS
  <2> HIDE DEF n, d
  <2>4. Reports(conn["client"], d)
    BY <2>2, <2>3, Zenon
  <2>5. QED BY <1>0, <1>3, <1>4, <2>1, <2>4, Zenon
<1>14. ASSUME NEW p \in Side, BenchDrain(p) PROVE Reports(conn[s], conn'[s])
  <2> DEFINE c == conn["server"]
             m == Cardinality(c.got) + Window
  <2>1. PICK k, tx : conn' = [conn EXCEPT !["server"] = [c EXCEPT !.credit = k, !.tx = tx]]
    <3> DEFINE k == IF m > c.credit THEN m ELSE c.credit
               tx == IF m > c.credit THEN Append(c.tx, Frame("credit", m)) ELSE c.tx
    <3>1. conn' = [conn EXCEPT !["server"] = [c EXCEPT !.credit = k, !.tx = tx]]
      BY <1>0, <1>14 DEF BenchDrain
    <3> HIDE DEF k, tx
    <3>2. QED BY <3>1
  <2>2. Reports(conn["server"], [c EXCEPT !.credit = k, !.tx = tx])
    BY <1>0, <1>1 DEF Reports, Connection
  <2>3. QED BY <1>0, <1>4, <2>1, <2>2, Zenon
<1>15. ASSUME NEW p \in Side,
              \/ ClientFlush(p) \/ ServerHandshake(p) \/ ServerGoodbye(p)
              \/ LoopbackDeliver(p) \/ LoopbackIdle(p) \/ BenchDecide(p) \/ Wake(p)
       PROVE  Reports(conn[s], conn'[s])
  <2>1. UNCHANGED conn
    BY <1>15 DEF ClientFlush, ServerHandshake, ServerGoodbye, LoopbackDeliver, LoopbackIdle,
                 BenchDecide, Wake
  <2>2. QED BY <1>3, <2>1
<1>16. ASSUME NEW p \in Side, Program(p) PROVE Reports(conn[s], conn'[s])
  BY <1>0, <1>7, <1>8, <1>f, <1>9, <1>10, <1>11, <1>12, <1>13, <1>14, <1>15, <1>16, Zenon DEF Program
<1>17. ASSUME NEW t \in Side, Lose(t) \/ Stray(t) \/ TimerDue(t) \/ Room(t)
       PROVE  Reports(conn[s], conn'[s])
  BY <1>3, <1>17 DEF Lose, Stray, TimerDue, Room
<1>18. CASE Foreign \/ Cut \/ Late \/ UNCHANGED vars
  BY <1>3, <1>18 DEF Foreign, Cut, Late, vars
<1>19. QED BY <1>16, <1>17, <1>18, Zenon DEF Next

\* A connection that has left the driver's table has told the program that it
\* was lost, unless the program closed it itself (driver.rs, pump polls the
\* application events before it removes a drained connection).
THEOREM LossAlwaysTold == Spec => []LossIsTold
<1>1. Init => GoneInv
  <2> SUFFICES ASSUME Init PROVE GoneInv
    OBVIOUS
  <2>1. conn["client"].st = "open" /\ conn["server"].st = "none"
    BY DEF Init, NoConnection
  <2>2. QED BY <2>1 DEF GoneInv, Side
<1>2. LoopInv /\ GoneInv /\ [Next]_vars => GoneInv'
  <2> SUFFICES ASSUME LoopInv, GoneInv, [Next]_vars, NEW s \in Side, conn'[s].st = "gone"
               PROVE  conn'[s].ev = <<>>
    BY DEF GoneInv
  <2>1. Reports(conn[s], conn'[s])
    BY ConnectionReports
  <2>2. QED BY <2>1 DEF Reports, GoneInv
<1>3. LoopInv /\ GoneInv => LossIsTold
  <2> SUFFICES ASSUME LoopInv, GoneInv, NEW s \in Side, conn[s].st = "gone"
               PROVE  \/ \E i \in 1..Len(told[s]) : told[s][i] \in Loss
                      \/ prog[ProcessOf(s)].phase = "flush"
    BY DEF LossIsTold
  <2>1. conn[s].st \in Over /\ conn[s].ev = <<>>
    BY DEF Over, GoneInv
  <2>2. ~HasLoss(conn[s].ev)
    BY <2>1 DEF HasLoss
  <2>3. HasLoss(told[s]) \/ prog[ProcessOf(s)].phase = "flush"
    BY <2>1, <2>2, Zenon DEF LoopInv, LossInv
  <2>4. QED BY <2>3, Zenon DEF HasLoss
<1>4. QED BY <1>1, <1>2, <1>3, LoopInvCorrect, PTL DEF Spec

-----------------------------------------------------------------------------
(* The timing lab *)

\* The kinds of surface the lab measures.
SurfaceKinds(names) ==
  [name : names, expect_leak : BOOLEAN,
   shape : {"compare", "fixed", "handshake", "reject", "live"},
   guard : {"none", "answer", "record", "packet", "token"}]

\* Every surface of the lab is of such a kind (main.rs, run_lab).
LEMMA SurfacesType == \E names : Surfaces \in Seq(SurfaceKinds(names))
<1> DEFINE names ==
             {"control/leaky-equal", "control/leaky-tag-compare",
              "control/subtle-ct-eq", "control/data-dependent-work",
              "handshake/certificate-verify-sign", "handshake/server",
              "key-schedule/hkdf-extract-expand", "key-exchange/x25519",
              "key-exchange/p256", "record/chacha20-poly1305/open-reject",
              "record/chacha20-poly1305/seal", "record/aes-128-gcm/open-reject",
              "record/aes-128-gcm/seal", "packet/chacha20-poly1305/open-reject",
              "packet/chacha20-poly1305/seal", "packet/chacha20-poly1305/hp-mask",
              "packet/aes-128-gcm/open-reject", "packet/aes-128-gcm/seal",
              "packet/aes-128-gcm/hp-mask", "token/aes-256-gcm/open-reject",
              "error/record-reject", "isolate/record-aes-seal/mask-prep",
              "isolate/packet-aes-seal/mask-prep", "isolate/aes-ctr/apply-keystream",
              "isolate/ghash/zeros-vs-random", "isolate/ghash/fixedrand-vs-random",
              "isolate/xor-sweep/zeros-vs-random"}
           K == SurfaceKinds(names)
<1>1. Controls \in Seq(K)
  BY DEF Controls, Surface, SurfaceKinds
<1>2. HandshakeSurfaces \in Seq(K)
  BY DEF HandshakeSurfaces, Surface, SurfaceKinds
<1>3. KeySurfaces \in Seq(K)
  BY DEF KeySurfaces, Surface, SurfaceKinds
<1>4. RecordSurfaces \in Seq(K)
  BY DEF RecordSurfaces, Surface, SurfaceKinds
<1>5. PacketSurfaces \in Seq(K)
  BY DEF PacketSurfaces, Surface, SurfaceKinds
<1>6. RejectSurfaces \in Seq(K)
  BY DEF RejectSurfaces, Surface, SurfaceKinds
<1>7. IsolateSurfaces \in Seq(K)
  BY DEF IsolateSurfaces, Surface, SurfaceKinds
<1> HIDE DEF K
<1>8. (IF Isolate THEN IsolateSurfaces ELSE <<>>) \in Seq(K)
  BY <1>7, EmptySeq
<1>9. ASSUME NEW a \in Seq(K), NEW b \in Seq(K) PROVE a \o b \in Seq(K)
  BY ConcatProperties
<1>10. Surfaces \in Seq(K)
  BY <1>1, <1>2, <1>3, <1>4, <1>5, <1>6, <1>8, <1>9, Zenon DEF Surfaces
<1>11. QED BY <1>10 DEF K

\* The state of a timed handshake: flights each side still has to process, and
\* the time so far.
HandshakeStates == [client : Nat, server : 0..2, ns : Nat]

\* A round takes at most one flight off the client's.
LEMMA RoundKeeps ==
  ASSUME NEW h \in HandshakeStates
  PROVE  /\ HandshakeRound(h) \in HandshakeStates
         /\ h.client <= HandshakeRound(h).client + 1
<1> DEFINE s == IF h.client = 0 THEN h
                ELSE [h EXCEPT !.client = @ - 1, !.server = IF h.server = 2 THEN 1 ELSE 0,
                               !.ns = @ + 1]
           e == IF s.server = 1 THEN [s EXCEPT !.server = 0, !.ns = @ + 1] ELSE s
<1>1. s \in HandshakeStates /\ h.client <= s.client + 1
  <2>1. h.client \in Nat /\ h.ns \in Nat
    BY DEF HandshakeStates
  <2>2. CASE h.client = 0
    BY <2>1, <2>2
  <2>3. CASE h.client # 0
    <3> DEFINE x == h.client - 1
               y == IF h.server = 2 THEN 1 ELSE 0
               z == h.ns + 1
    <3>1. x \in Nat /\ y \in 0..2 /\ z \in Nat
      BY <2>1, <2>3
    <3>2. s = [h EXCEPT !.client = x, !.server = y, !.ns = z]
      BY <2>3, Zenon
    <3> HIDE DEF x, y, z, s
    <3>3. /\ [h EXCEPT !.client = x, !.server = y, !.ns = z] \in HandshakeStates
          /\ [h EXCEPT !.client = x, !.server = y, !.ns = z].client = x
      BY <3>1 DEF HandshakeStates
    <3>4. s \in HandshakeStates /\ s.client = x
      BY <3>2, <3>3, Zenon
    <3>5. QED BY <2>1, <3>4 DEF x
  <2>4. QED BY <2>2, <2>3
<1> HIDE DEF s
<1>2. e \in HandshakeStates /\ e.client = s.client
  <2> DEFINE z == s.ns + 1
  <2>1. z \in Nat /\ 0 \in 0..2
    BY <1>1 DEF HandshakeStates
  <2>2. e = IF s.server = 1 THEN [s EXCEPT !.server = 0, !.ns = z] ELSE s
    BY Zenon
  <2> HIDE DEF z, e
  <2>3. /\ [s EXCEPT !.server = 0, !.ns = z] \in HandshakeStates
        /\ [s EXCEPT !.server = 0, !.ns = z].client = s.client
    BY <1>1, <2>1 DEF HandshakeStates
  <2>4. CASE s.server = 1
    BY <2>2, <2>4, <2>3, Zenon
  <2>5. CASE s.server # 1
    BY <1>1, <2>2, <2>5
  <2>6. QED BY <2>4, <2>5
<1>3. HandshakeRound(h) = e
  BY DEF HandshakeRound, s
<1> HIDE DEF e
<1>4. QED BY <1>1, <1>2, <1>3

\* A handshake is timed in natural numbers, and one whose peer never finishes
\* is an error after sixteen rounds (main.rs, handshake_timed).
LEMMA HandshakeTimed ==
  ASSUME NEW stuck \in BOOLEAN
  PROVE  /\ handshake_timed(stuck).ns \in Nat
         /\ stuck => ~handshake_timed(stuck).ok
<1> DEFINE first == [client |-> IF stuck THEN 99 ELSE 2, server |-> 2, ns |-> 0]
           Run(n, h) == h = [r \in 0..n |-> IF r = 0 THEN first ELSE HandshakeRound(h[r - 1])]
           S == {n \in 0..16 : \E h : Run(n, h)}
<1>0. first \in HandshakeStates /\ (stuck => first.client = 99)
  BY DEF HandshakeStates
<1> HIDE DEF first
<1>1. 0 \in S
  <2> DEFINE h == [r \in 0..0 |-> first]
  <2>1. Run(0, h)
    OBVIOUS
  <2> HIDE DEF Run
  <2>2. QED BY <2>1
<1>2. ASSUME NEW m \in 1..16, m - 1 \in S PROVE m \in S
  <2>1. PICK g : Run(m - 1, g)
    BY <1>2
  <2> DEFINE h == [r \in 0..m |-> IF r = m THEN HandshakeRound(g[m - 1]) ELSE g[r]]
  <2>2. ASSUME NEW r \in 0..m
        PROVE  h[r] = IF r = 0 THEN first ELSE HandshakeRound(h[r - 1])
    <3>1. CASE r = m
      <4>1. m - 1 \in 0..m /\ m - 1 # m /\ m # 0
        OBVIOUS
      <4>2. h[m - 1] = g[m - 1]
        BY <4>1
      <4>3. QED BY <3>1, <4>1, <4>2
    <3>2. CASE r # m
      <4>1. r \in 0..(m - 1) /\ (r # 0 => r - 1 \in 0..m /\ r - 1 # m)
        BY <3>2
      <4>2. h[r] = g[r] /\ (r # 0 => h[r - 1] = g[r - 1])
        BY <3>2, <4>1
      <4>3. g[r] = IF r = 0 THEN first ELSE HandshakeRound(g[r - 1])
        BY <2>1, <4>1
      <4>4. QED BY <4>2, <4>3
    <3>3. QED BY <3>1, <3>2
  <2>3. Run(m, h)
    <3>1. h = [r \in 0..m |-> h[r]]
      OBVIOUS
    <3> HIDE DEF h
    <3>2. QED BY <2>2, <3>1
  <2> HIDE DEF Run, h
  <2>4. QED BY <2>3
<1>3. 16 \in S
  <2> HIDE DEF S
  <2>1. \A i \in 0..16 : i \in S
    BY <1>1, <1>2, CountsUp, Zenon
  <2>2. QED BY <2>1
<1>4. \E h : Run(16, h)
  BY <1>3
<1> DEFINE a == CHOOSE h : Run(16, h)
<1>5. Run(16, a)
  BY <1>4, Zenon
<1>6. handshake_timed(stuck) = [ok |-> a[16].client = 0, ns |-> a[16].ns]
  BY DEF handshake_timed, first
<1> HIDE DEF a
<1> DEFINE T == {r \in 0..16 : a[r] \in HandshakeStates /\ (stuck => a[r].client + r >= 99)}
<1>7. 0 \in T
  <2>1. a[0] = first
    BY <1>5
  <2>2. QED BY <1>0, <2>1 DEF HandshakeStates
<1>8. ASSUME NEW m \in 1..16, m - 1 \in T PROVE m \in T
  <2>1. a[m] = HandshakeRound(a[m - 1])
    <3>1. m \in 0..16 /\ m # 0
      OBVIOUS
    <3>2. QED BY <1>5, <3>1, Zenon
  <2>2. a[m] \in HandshakeStates /\ a[m - 1].client <= a[m].client + 1
    BY <1>8, <2>1, RoundKeeps
  <2>3. QED BY <1>8, <2>2 DEF HandshakeStates
<1>9. 16 \in T
  <2> HIDE DEF T
  <2>1. \A i \in 0..16 : i \in T
    BY <1>7, <1>8, CountsUp, Zenon
  <2>2. QED BY <2>1
<1>10. a[16].ns \in Nat /\ (stuck => a[16].client # 0)
  BY <1>9 DEF HandshakeStates
<1>11. handshake_timed(stuck).ns = a[16].ns
  BY <1>6
<1>12. handshake_timed(stuck).ok = (a[16].client = 0)
  <2>1. ASSUME NEW b, NEW n PROVE [ok |-> b, ns |-> n].ok = b
    OBVIOUS
  <2>2. QED BY <1>6, <2>1, Zenon
<1>13. QED BY <1>10, <1>11, <1>12, Zenon

\* Entries of a class in a schedule.
Entries(s, c) == {i \in 1..Len(s) : s[i] = c}
Count(s, c) == Cardinality(Entries(s, c))

\* A schedule has a number of entries of each class (main.rs, measure).
LEMMA CountType ==
  ASSUME NEW s \in Seq(BOOLEAN), NEW c
  PROVE  IsFiniteSet(Entries(s, c)) /\ Count(s, c) \in Nat
<1>1. IsFiniteSet(1..Len(s))
  BY FS_Interval
<1>2. Entries(s, c) \in SUBSET (1..Len(s))
  BY DEF Entries
<1>3. IsFiniteSet(Entries(s, c))
  BY <1>1, <1>2, FS_Subset
<1>4. QED BY <1>3, FS_CardinalityType DEF Count

\* The shuffle's swap changes no count (main.rs, Rng::shuffle).
LEMMA SwapKeepsCount ==
  ASSUME NEW s \in Seq(BOOLEAN), NEW i \in 1..Len(s), NEW j \in 1..Len(s), NEW c \in BOOLEAN
  PROVE  /\ Swap(s, i, j) \in Seq(BOOLEAN) /\ Len(Swap(s, i, j)) = Len(s)
         /\ Count(Swap(s, i, j), c) = Count(s, c)
<1> DEFINE r == Swap(s, i, j)
           A == Entries(s, c)
           B == Entries(r, c)
<1>1. r \in Seq(BOOLEAN) /\ Len(r) = Len(s)
  BY DEF Swap
<1>2. \A k \in 1..Len(s) : r[k] = IF k = j THEN s[i] ELSE IF k = i THEN s[j] ELSE s[k]
  BY DEF Swap
<1>3. IsFiniteSet(A) /\ Cardinality(A) \in Nat
  BY CountType DEF Count
<1> HIDE DEF r
<1>4. CASE (s[i] = c) = (s[j] = c)
  <2>1. B = A
    BY <1>1, <1>2, <1>4 DEF Entries
  <2>2. QED BY <1>1, <2>1 DEF r, Count
<1>5. ASSUME NEW x \in 1..Len(s), NEW y \in 1..Len(s), s[x] = c, s[y] # c, {x, y} = {i, j}
      PROVE  Count(r, c) = Count(s, c)
  <2>1. B = (A \ {x}) \union {y}
    <3>1. x # y
      BY <1>5
    <3>2. \A k \in 1..Len(s) : r[k] = IF k = y THEN s[x] ELSE IF k = x THEN s[y] ELSE s[k]
      BY <1>2, <1>5, <3>1
    <3>3. QED BY <1>1, <1>5, <3>1, <3>2 DEF Entries
  <2>2. x \in A /\ y \notin A \ {x}
    BY <1>5 DEF Entries
  <2> HIDE DEF A, B
  <2>3. IsFiniteSet(A \ {x}) /\ Cardinality(A \ {x}) = Cardinality(A) - 1
    BY <1>3, <2>2, FS_RemoveElement
  <2>4. Cardinality((A \ {x}) \union {y}) = Cardinality(A \ {x}) + 1
    BY <2>2, <2>3, FS_AddElement
  <2>5. QED BY <1>3, <2>1, <2>3, <2>4 DEF Count, A, B
<1>6. CASE s[i] = c /\ s[j] # c
  BY <1>1, <1>5, <1>6 DEF r
<1>7. CASE s[i] # c /\ s[j] = c
  <2>1. {j, i} = {i, j}
    OBVIOUS
  <2>2. QED BY <1>1, <1>5, <1>7, <2>1 DEF r
<1>8. QED BY <1>4, <1>6, <1>7

\* The next entry taken off a schedule is one of its class.
LEMMA TailCount ==
  ASSUME NEW s \in Seq(BOOLEAN), s # <<>>, NEW c \in BOOLEAN
  PROVE  Count(s, c) = Count(Tail(s), c) + (IF Head(s) = c THEN 1 ELSE 0)
<1> DEFINE A == Entries(s, c)
           B == Entries(Tail(s), c)
           f == [i \in B |-> i + 1]
<1>1. /\ Tail(s) \in Seq(BOOLEAN) /\ Len(Tail(s)) = Len(s) - 1 /\ Len(s) \in Nat \ {0}
      /\ \A i \in 1..Len(Tail(s)) : Tail(s)[i] = s[i + 1]
  BY HeadTailProperties, EmptySeq
<1>2. Head(s) = s[1]
  OBVIOUS
<1>3. IsFiniteSet(A) /\ Cardinality(A) \in Nat /\ IsFiniteSet(B) /\ Cardinality(B) \in Nat
  BY <1>1, CountType DEF Count
<1>4. /\ \A i \in B : i \in Nat /\ i + 1 \in A \ {1}
      /\ \A k \in A \ {1} : k - 1 \in B /\ k \in Nat
  BY <1>1 DEF Entries
<1>5. ExistsBijection(B, A \ {1})
  <2> HIDE DEF A, B
  <2>1. f \in [B -> A \ {1}] /\ \A x, y \in B : f[x] = f[y] => x = y
    BY <1>4
  <2>2. \A k \in A \ {1} : \E i \in B : f[i] = k
    <3>1. ASSUME NEW k \in A \ {1} PROVE k - 1 \in B /\ f[k - 1] = k
      BY <1>4
    <3>2. QED BY <3>1
  <2> HIDE DEF f
  <2>3. f \in Injection(B, A \ {1}) /\ f \in Surjection(B, A \ {1})
    BY <2>1, <2>2 DEF Injection, IsInjective, Surjection
  <2>4. QED BY <2>3 DEF ExistsBijection, Bijection
<1>6. Cardinality(A \ {1}) = Cardinality(B)
  BY <1>3, <1>5, FS_Bijection
<1>7. 1 \in A <=> Head(s) = c
  BY <1>1, <1>2 DEF Entries
<1> HIDE DEF A, B
<1>8. Cardinality(A \ {1}) = IF 1 \in A THEN Cardinality(A) - 1 ELSE Cardinality(A)
  BY <1>3, FS_RemoveElement
<1>9. QED BY <1>3, <1>6, <1>7, <1>8 DEF Count, A, B

\* A new schedule has as many entries of each class (main.rs, measure).
LEMMA NewScheduleCount ==
  ASSUME Samples \in Nat \ {0, 1}
  PROVE  /\ NewSchedule \in Seq(BOOLEAN) /\ Len(NewSchedule) = 2 * Samples
         /\ Count(NewSchedule, FALSE) = Samples /\ Count(NewSchedule, TRUE) = Samples
<1>1. NewSchedule \in Seq(BOOLEAN) /\ Len(NewSchedule) = 2 * Samples
  BY DEF NewSchedule
<1>2. ASSUME NEW i \in 1..(2 * Samples)
      PROVE  /\ NewSchedule[i] = FALSE <=> i \in 1..Samples
             /\ NewSchedule[i] = TRUE <=> i \in (Samples + 1)..(2 * Samples)
  <2>1. NewSchedule[i] = (i > Samples)
    BY Zenon DEF NewSchedule
  <2>2. CASE i > Samples
    <3>1. (i > Samples) = TRUE
      BY <2>2, Zenon
    <3>2. NewSchedule[i] = TRUE
      BY <2>1, <3>1, Zenon
    <3>3. i \notin 1..Samples /\ i \in (Samples + 1)..(2 * Samples)
      BY <2>2
    <3>4. QED BY <3>2, <3>3, Zenon
  <2>3. CASE ~(i > Samples)
    <3>1. (i > Samples) = FALSE
      BY <2>3, SMT
    <3>2. NewSchedule[i] = FALSE
      BY <2>1, <3>1, Zenon
    <3>3. i \in 1..Samples /\ i \notin (Samples + 1)..(2 * Samples)
      BY <2>3
    <3>4. QED BY <3>2, <3>3, Zenon
  <2>4. QED BY <2>2, <2>3
<1>3. 1..Samples \subseteq 1..(2 * Samples) /\ (Samples + 1)..(2 * Samples) \subseteq 1..(2 * Samples)
  OBVIOUS
<1>4. Entries(NewSchedule, FALSE) = 1..Samples
  BY <1>1, <1>2, <1>3, Zenon DEF Entries
<1>5. Entries(NewSchedule, TRUE) = (Samples + 1)..(2 * Samples)
  BY <1>1, <1>2, <1>3, Zenon DEF Entries
<1>6. Cardinality(1..Samples) = Samples
  BY FS_Interval
<1>7. Cardinality((Samples + 1)..(2 * Samples)) = Samples
  BY FS_Interval
<1>8. QED BY <1>1, <1>4, <1>5, <1>6, <1>7 DEF Count

-----------------------------------------------------------------------------
(* The lab's inductive invariant *)

Measuring == {"warmup", "shuffle", "sample", "verdict"}
Verdicts == [expect_leak : BOOLEAN, verdict : {"Inconclusive", "Leak", "Quiet"}]

\* What a sample of a class can measure.
Durations(class) ==
  {TrialCost(class) + n : n \in IF at = focus THEN Noise ELSE {0, 1}}

Placed ==
  /\ pc \in Measuring \union {"setup", "evaluate", "done"}
  /\ at \in 1..Len(Surfaces) /\ focus \in 1..Len(Surfaces)
  /\ focusCode \in Codes(Surfaces[focus])

\* Nothing is measured that did not pass its setup.
Guarded == pc \in Measuring => GuardHolds

\* What the schedule still holds of a class and what has been sampled of it
\* make up the class.
Balanced ==
  /\ pc \in {"warmup", "shuffle"} => class0 = <<>> /\ class1 = <<>>
  /\ pc \in {"shuffle", "sample"} =>
       /\ schedule \in Seq(BOOLEAN)
       /\ Count(schedule, FALSE) + Len(class0) = Samples
       /\ Count(schedule, TRUE) + Len(class1) = Samples
  /\ pc = "shuffle" => trial \in 1..Len(schedule)
  /\ pc = "verdict" => Len(class0) = Samples /\ Len(class1) = Samples

\* A sample is a trial that passed its checks.
Sampled ==
  pc \in Measuring =>
    /\ class0 \in Seq(Durations(FALSE)) /\ class1 \in Seq(Durations(TRUE))
    /\ class0 # <<>> => TrialOk(FALSE)
    /\ class1 # <<>> => TrialOk(TRUE)

\* Every surface measured has its report, and that of the surface in question
\* is as expected only if its code deserves it.
Reported ==
  /\ reports \in Seq(Verdicts)
  /\ pc \in Measuring \union {"setup"} => Len(reports) = at - 1
  /\ pc = "evaluate" => Len(reports) = Len(Surfaces)
  /\ focus <= Len(reports) /\ Matches(reports[focus]) => Earned

LabInv == Placed /\ Guarded /\ Balanced /\ Sampled /\ Reported /\ SuccessIsEarned

\* The surface under measurement is one of the lab's.
LEMMA SurfaceType ==
  ASSUME Placed
  PROVE  \E names : surface \in SurfaceKinds(names)
<1>1. PICK names : Surfaces \in Seq(SurfaceKinds(names))
  BY SurfacesType
<1>2. Surfaces[at] \in SurfaceKinds(names)
  BY <1>1, ElementOfSeq DEF Placed
<1>3. QED BY <1>2 DEF surface

\* A setup that passed and a trial of each class that passed rule out all but
\* what only time can show (main.rs, the rigs, measure and handshake_timed).
LEMMA OnlyTimeCanTell ==
  ASSUME Placed, at = focus, GuardHolds, TrialOk(FALSE), TrialOk(TRUE)
  PROVE  Functional(surface, focusCode)
<1> DEFINE c == focusCode
<1>1. PICK names : surface \in SurfaceKinds(names)
  BY SurfaceType
<1>2. /\ surface.shape \in {"compare", "fixed", "handshake", "reject", "live"}
      /\ surface.guard \in {"none", "answer", "record", "packet", "token"}
  BY <1>1 DEF SurfaceKinds
<1>3. code = c /\ c \in Codes(surface)
  BY DEF Placed, code, surface
<1>4. /\ c.finishes \in BOOLEAN
      /\ surface.guard = "none" => c.right
      /\ surface.shape \notin {"handshake", "live"} => c.finishes
      /\ surface.shape \in {"fixed", "handshake"} =>
           c.opens[FALSE] = "refuses" /\ c.opens[TRUE] = "refuses"
  BY <1>3 DEF Codes
<1>5. c.right /\ (surface.guard \in {"record", "packet", "token"} => c.opens[FALSE] = "refuses")
  BY <1>2, <1>3, <1>4 DEF GuardHolds, record_rig, packet_rig, TokenGuard
<1>6. ASSUME surface.shape \in {"handshake", "live"} PROVE c.finishes
  <2>1. handshake_timed(~c.finishes).ok
    <3>1. HandshakeTrial
      BY <1>6, Zenon DEF TrialOk, LiveTrial
    <3>2. QED BY <1>3, <3>1, Zenon DEF HandshakeTrial
  <2>2. (~c.finishes) \in BOOLEAN
    BY <1>4
  <2>3. QED BY <2>1, <2>2, HandshakeTimed, Zenon
<1>7. ASSUME NEW class \in BOOLEAN PROVE c.opens[class] # "accepts"
  <2>1. TrialOk(class)
    BY Zenon
  <2>2. CASE surface.shape = "compare"
    <3>1. CompareTrial(class)
      BY <2>1, <2>2, Zenon DEF TrialOk
    <3>2. QED BY <1>3, <3>1, Zenon DEF CompareTrial
  <2>3. CASE surface.shape = "reject"
    <3>1. RejectTrial(class)
      BY <2>1, <2>3, Zenon DEF TrialOk
    <3>2. QED BY <1>3, <3>1, Zenon DEF RejectTrial
  <2>4. CASE surface.shape = "live"
    <3>1. LiveTrial(class)
      BY <2>1, <2>4, Zenon DEF TrialOk
    <3>2. QED BY <1>3, <3>1, Zenon DEF LiveTrial
  <2>5. CASE surface.shape \in {"fixed", "handshake"}
    BY <1>4, <2>5
  <2>6. QED BY <1>2, <2>2, <2>3, <2>4, <2>5
<1>8. c.finishes
  BY <1>4, <1>6
<1>9. QED BY <1>5, <1>7, <1>8, Zenon DEF Functional

\* What a step that stays on its surface keeps.
LEMMA SurfaceStays ==
  ASSUME UNCHANGED <<at, focus, focusCode>>
  PROVE  /\ GuardHolds' = GuardHolds /\ Earned' = Earned
         /\ \A class : TrialOk(class)' = TrialOk(class)
         /\ \A class : Durations(class)' = Durations(class)
<1>1. surface' = surface /\ code' = code
  BY DEF surface, code
<1>2. GuardHolds' = GuardHolds
  BY <1>1, Zenon DEF GuardHolds, record_rig, packet_rig, TokenGuard
<1>3. \A class : TrialOk(class)' = TrialOk(class)
  BY <1>1, Zenon DEF TrialOk, CompareTrial, RejectTrial, HandshakeTrial, LiveTrial
<1>4. \A class : TrialCost(class)' = TrialCost(class)
  BY <1>1, Zenon DEF TrialCost
<1>5. Earned' = Earned
  BY Zenon DEF Earned
<1>6. QED BY <1>2, <1>3, <1>4, <1>5, Zenon DEF Durations

\* A report as expected is one over code that deserves it: what was sampled is
\* among the times the code and the noise can make (main.rs, measure).
LEMMA VerdictShows ==
  ASSUME Samples \in Nat \ {0, 1},
         Placed, Guarded, Balanced, Sampled, pc = "verdict", at = focus,
         Matches([expect_leak |-> surface.expect_leak,
                      verdict |-> VerdictOf(class0, class1)])
  PROVE  Earned
<1> DEFINE base == BaseCost(surface)
           verdict == VerdictOf(class0, class1)
<1>1. /\ GuardHolds /\ code = focusCode /\ surface = Surfaces[focus]
      /\ Len(class0) = Samples /\ Len(class1) = Samples
      /\ class0 \in Seq(Durations(FALSE)) /\ class1 \in Seq(Durations(TRUE))
      /\ class0 # <<>> => TrialOk(FALSE)
      /\ class1 # <<>> => TrialOk(TRUE)
  BY DEF Placed, Guarded, Balanced, Sampled, Measuring, code, surface
<1>2. class0 # <<>> /\ class1 # <<>>
  BY <1>1
<1>3. Functional(surface, focusCode)
  BY <1>1, <1>2, OnlyTimeCanTell, Zenon
<1>4. base \in Nat
  BY HandshakeTimed DEF BaseCost
<1>5. base + 0 = base
  <2> HIDE DEF base
  <2>1. QED BY <1>4
<1>6. TrialCost(FALSE) = base
  <2>1. TrialCost(FALSE) = base + 0
    BY Zenon DEF TrialCost
  <2>2. QED BY <1>5, <2>1, Zenon
<1>7. TrialCost(TRUE) = IF focusCode.slow THEN base + LeakCost ELSE base
  <2>1. CASE focusCode.slow
    BY <1>1, <2>1, Zenon DEF TrialCost
  <2>2. CASE ~focusCode.slow
    <3>1. TrialCost(TRUE) = base + 0
      BY <1>1, <2>2, Zenon DEF TrialCost
    <3>2. QED BY <1>5, <2>2, <3>1, Zenon
  <2>3. QED BY <2>1, <2>2
<1> HIDE DEF base
<1>8. class0 \in Timed(base)
  <2>1. Durations(FALSE) = {base + noise : noise \in Noise}
    BY <1>6, Zenon DEF Durations
  <2>2. class0 \in [1..Samples -> Durations(FALSE)]
    BY <1>1, LenProperties
  <2>3. QED BY <2>1, <2>2, Zenon DEF Timed
<1>9. ASSUME NEW ns, TrialCost(TRUE) = ns
      PROVE  class1 \in Timed(ns)
  <2>1. Durations(TRUE) = {ns + noise : noise \in Noise}
    BY <1>9, Zenon DEF Durations
  <2>2. class1 \in [1..Samples -> Durations(TRUE)]
    BY <1>1, LenProperties
  <2>3. QED BY <2>1, <2>2, Zenon DEF Timed
<1>10. verdict = IF surface.expect_leak THEN "Leak" ELSE "Quiet"
  <2>1. ASSUME NEW e, NEW v PROVE [expect_leak |-> e, verdict |-> v].expect_leak = e
                                  /\ [expect_leak |-> e, verdict |-> v].verdict = v
    OBVIOUS
  <2> HIDE DEF verdict
  <2>2. Matches([expect_leak |-> surface.expect_leak, verdict |-> verdict])
    BY DEF verdict
  <2>3. QED BY <2>1, <2>2, Zenon DEF Matches
<1>11. ASSUME focusCode.slow, ~surface.expect_leak PROVE NoiseHides(base)
  <2>1. class1 \in Timed(base + LeakCost)
    BY <1>7, <1>9, <1>11, Zenon
  <2>2. QED BY <1>8, <1>10, <1>11, <2>1, Zenon DEF NoiseHides
<1>12. ASSUME ~focusCode.slow, surface.expect_leak PROVE NoiseShows(base)
  <2>1. class1 \in Timed(base)
    BY <1>7, <1>9, <1>12, Zenon
  <2>2. QED BY <1>8, <1>10, <1>12, <2>1, Zenon DEF NoiseShows
<1>13. QED BY <1>1, <1>3, <1>11, <1>12, Zenon DEF Earned, base

\* A lab starts before its first surface.
LEMMA LabStarts == LabInit => LabInv
<1> SUFFICES ASSUME LabInit PROVE LabInv
  OBVIOUS
<1>1. pc = "setup" /\ at = 1 /\ reports = <<>> /\ outcome = "running"
      /\ focus \in 1..Len(Surfaces) /\ focusCode \in Codes(Surfaces[focus])
  BY DEF LabInit
<1>2. PICK names : Surfaces \in Seq(SurfaceKinds(names))
  BY SurfacesType
<1>3. Len(Surfaces) \in Nat
  BY <1>2, LenProperties
<1>4. Placed
  BY <1>1, <1>3 DEF Placed
<1>5. Guarded /\ Balanced /\ Sampled
  BY <1>1 DEF Guarded, Balanced, Sampled, Measuring
<1>6. Reported
  BY <1>1, EmptySeq DEF Reported, Measuring
<1>7. SuccessIsEarned
  BY <1>1 DEF SuccessIsEarned
<1>8. QED BY <1>4, <1>5, <1>6, <1>7 DEF LabInv

\* A step that neither reports nor moves on to another surface keeps the
\* reports as they should be.
LEMMA ReportsStay ==
  ASSUME Reported, SuccessIsEarned, UNCHANGED <<at, focus, focusCode, reports>>,
         \/ UNCHANGED outcome \/ outcome' = "FAILURE",
         pc \in Measuring \union {"setup"}, pc' \in Measuring \union {"done"}
  PROVE  Reported' /\ SuccessIsEarned'
<1>1. Earned' = Earned
  BY SurfaceStays
<1>2. SuccessIsEarned'
  BY <1>1 DEF SuccessIsEarned
<1>3. pc' # "evaluate"
  BY DEF Measuring
<1>4. QED BY <1>1, <1>2, <1>3, Zenon DEF Reported, Matches

\* A surface's setup.
LEMMA SetupKeeps ==
  ASSUME LabInv, Setup PROVE LabInv'
<1>0. Placed /\ Reported /\ SuccessIsEarned /\ pc = "setup"
  BY DEF LabInv, Setup
<1>1. /\ UNCHANGED <<at, focus, focusCode>> /\ UNCHANGED reports
      /\ class0' = <<>> /\ class1' = <<>>
      /\ \/ GuardHolds /\ pc' = "warmup" /\ UNCHANGED outcome
         \/ pc' = "done" /\ outcome' = "FAILURE"
  BY DEF Setup, Fixed, Fail
<1>2. Placed'
  BY <1>0, <1>1 DEF Placed, Measuring
<1>3. Guarded'
  BY <1>1, SurfaceStays, Zenon DEF Guarded, Measuring
<1>4. Balanced'
  BY <1>1 DEF Balanced
<1>5. Sampled'
  BY <1>1, EmptySeq DEF Sampled
<1>6. Reported' /\ SuccessIsEarned'
  <2>1. pc \in Measuring \union {"setup"} /\ pc' \in Measuring \union {"done"}
    BY <1>0, <1>1 DEF Measuring
  <2>2. QED BY <1>0, <1>1, <2>1, ReportsStay
<1>7. QED BY <1>2, <1>3, <1>4, <1>5, <1>6 DEF LabInv

\* A discarded trial, or the fresh schedule.
LEMMA WarmUpKeeps ==
  ASSUME Samples \in Nat \ {0, 1}, LabInv, WarmUp PROVE LabInv'
<1>0. Placed /\ Guarded /\ Balanced /\ Sampled /\ Reported /\ SuccessIsEarned /\ pc = "warmup"
  BY DEF LabInv, WarmUp
<1>1. /\ UNCHANGED <<at, focus, focusCode>> /\ UNCHANGED <<class0, class1, reports>>
      /\ \/ pc' = pc /\ UNCHANGED outcome
         \/ pc' = "done" /\ outcome' = "FAILURE"
         \/ /\ pc' = "shuffle" /\ UNCHANGED outcome
            /\ schedule' = NewSchedule /\ trial' = Len(NewSchedule)
  BY DEF WarmUp, Fixed, Fail
<1>2. Placed' /\ pc' \in {"warmup", "shuffle", "done"}
  BY <1>0, <1>1 DEF Placed, Measuring
<1>3. Guarded'
  BY <1>0, <1>1, SurfaceStays, Zenon DEF Guarded, Measuring
<1>4. Balanced'
  <2>1. class0 = <<>> /\ class1 = <<>> /\ class0' = <<>> /\ class1' = <<>>
    BY <1>0, <1>1 DEF Balanced
  <2>2. CASE pc' = "shuffle"
    <3>1. schedule' = NewSchedule /\ trial' = Len(NewSchedule)
      BY <1>0, <1>1, <2>2
    <3>2. /\ schedule' \in Seq(BOOLEAN) /\ Len(schedule') = 2 * Samples
          /\ Count(schedule', FALSE) = Samples /\ Count(schedule', TRUE) = Samples
      BY <3>1, NewScheduleCount
    <3>3. Len(<<>>) = 0 /\ Samples + 0 = Samples
      OBVIOUS
    <3>4. trial' \in 1..Len(schedule')
      BY <3>1, <3>2
    <3>5. Count(schedule', FALSE) + Len(class0') = Samples
          /\ Count(schedule', TRUE) + Len(class1') = Samples
      BY <2>1, <3>2, <3>3, Zenon
    <3>6. QED BY <2>1, <2>2, <3>2, <3>4, <3>5 DEF Balanced
  <2>3. CASE pc' # "shuffle"
    BY <1>2, <2>1, <2>3 DEF Balanced
  <2>4. QED BY <2>2, <2>3
<1>5. Sampled'
  BY <1>0, <1>1, SurfaceStays, Zenon DEF Sampled, Measuring
<1>6. Reported' /\ SuccessIsEarned'
  <2>1. pc \in Measuring \union {"setup"} /\ pc' \in Measuring \union {"done"}
    BY <1>0, <1>2 DEF Measuring
  <2>2. QED BY <1>0, <1>1, <2>1, ReportsStay
<1>7. QED BY <1>2, <1>3, <1>4, <1>5, <1>6 DEF LabInv

\* A swap of the shuffle, or its end.
LEMMA ShuffleKeeps ==
  ASSUME Samples \in Nat \ {0, 1}, LabInv, Shuffle PROVE LabInv'
<1>0. Placed /\ Guarded /\ Balanced /\ Sampled /\ Reported /\ SuccessIsEarned /\ pc = "shuffle"
  BY DEF LabInv, Shuffle
<1>1. /\ UNCHANGED <<at, focus, focusCode>> /\ UNCHANGED <<class0, class1, reports, outcome>>
      /\ \/ /\ trial > 1 /\ trial' = trial - 1 /\ pc' = pc
            /\ \E j \in (IF at = focus THEN 1..trial ELSE {(trial + 1) \div 2}) :
                 schedule' = Swap(schedule, trial, j)
         \/ pc' = "sample" /\ UNCHANGED <<trial, schedule>>
  BY DEF Shuffle, Fixed
<1>2. Placed' /\ pc' \in {"shuffle", "sample"}
  BY <1>0, <1>1 DEF Placed, Measuring
<1>3. Guarded'
  BY <1>0, <1>1, SurfaceStays, Zenon DEF Guarded, Measuring
<1>4. Balanced'
  <2>1. /\ class0' = <<>> /\ class1' = <<>> /\ UNCHANGED <<class0, class1>>
        /\ schedule \in Seq(BOOLEAN) /\ trial \in 1..Len(schedule)
        /\ Count(schedule, FALSE) + Len(class0) = Samples
        /\ Count(schedule, TRUE) + Len(class1) = Samples
    BY <1>0, <1>1 DEF Balanced
  <2>2. CASE pc' = "sample" /\ UNCHANGED <<trial, schedule>>
    BY <2>1, <2>2 DEF Balanced
  <2>3. ASSUME NEW j \in (IF at = focus THEN 1..trial ELSE {(trial + 1) \div 2}),
               trial > 1, trial' = trial - 1, pc' = "shuffle",
               schedule' = Swap(schedule, trial, j)
        PROVE  Balanced'
    <3>1. j \in 1..Len(schedule)
      BY <2>1, <2>3
    <3>2. /\ schedule' \in Seq(BOOLEAN) /\ Len(schedule') = Len(schedule)
          /\ Count(schedule', FALSE) = Count(schedule, FALSE)
          /\ Count(schedule', TRUE) = Count(schedule, TRUE)
      BY <2>1, <2>3, <3>1, SwapKeepsCount
    <3>3. trial' \in 1..Len(schedule')
      BY <2>1, <2>3, <3>2
    <3>4. Count(schedule', FALSE) + Len(class0') = Samples
          /\ Count(schedule', TRUE) + Len(class1') = Samples
      BY <2>1, <3>2, Zenon
    <3>5. QED BY <2>1, <2>3, <3>2, <3>3, <3>4 DEF Balanced
  <2>4. QED BY <1>0, <1>1, <2>2, <2>3
<1>5. Sampled'
  BY <1>0, <1>1, SurfaceStays, Zenon DEF Sampled, Measuring
<1>6. Reported' /\ SuccessIsEarned'
  <2>1. pc \in Measuring \union {"setup"} /\ pc' \in Measuring \union {"done"}
    BY <1>0, <1>2 DEF Measuring
  <2>2. QED BY <1>0, <1>1, <2>1, ReportsStay
<1>7. QED BY <1>2, <1>3, <1>4, <1>5, <1>6 DEF LabInv

\* A sample, or the end of the schedule.
LEMMA SampleKeeps ==
  ASSUME Samples \in Nat \ {0, 1}, LabInv, Sample PROVE LabInv'
<1>0. Placed /\ Guarded /\ Balanced /\ Sampled /\ Reported /\ SuccessIsEarned /\ pc = "sample"
  BY DEF LabInv, Sample
<1>1. UNCHANGED <<at, focus, focusCode, reports>> /\ (UNCHANGED outcome \/ outcome' = "FAILURE")
      /\ pc' \in {"sample", "verdict", "done"}
  BY <1>0 DEF Sample, Fixed, Fail
<1>2. Placed'
  BY <1>0, <1>1 DEF Placed, Measuring
<1>3. Guarded'
  BY <1>0, <1>1, SurfaceStays, Zenon DEF Guarded, Measuring
<1>4. Reported' /\ SuccessIsEarned'
  <2>1. pc \in Measuring \union {"setup"} /\ pc' \in Measuring \union {"done"}
    BY <1>0, <1>1 DEF Measuring
  <2>2. QED BY <1>0, <1>1, <2>1, ReportsStay
<1>5. /\ schedule \in Seq(BOOLEAN)
      /\ Count(schedule, FALSE) + Len(class0) = Samples
      /\ Count(schedule, TRUE) + Len(class1) = Samples
      /\ class0 \in Seq(Durations(FALSE)) /\ class1 \in Seq(Durations(TRUE))
      /\ class0 # <<>> => TrialOk(FALSE)
      /\ class1 # <<>> => TrialOk(TRUE)
  BY <1>0 DEF Balanced, Sampled, Measuring
<1>6. /\ Len(class0) \in Nat /\ Len(class1) \in Nat
      /\ Count(schedule, FALSE) \in Nat /\ Count(schedule, TRUE) \in Nat
  BY <1>5, CountType, LenProperties
<1>7. CASE schedule = <<>> /\ pc' = "verdict" /\ UNCHANGED <<class0, class1>>
  <2>1. \A c : Count(<<>>, c) = 0
    <3>1. \A c : Entries(<<>>, c) = {}
      BY DEF Entries
    <3>2. QED BY <3>1, FS_EmptySet DEF Count
  <2>2. Len(class0) = Samples /\ Len(class1) = Samples
    <3>1. 0 + Len(class0) = Samples /\ 0 + Len(class1) = Samples
      BY <1>5, <1>7, <2>1, Zenon
    <3>2. QED BY <1>6, <3>1
  <2>3. Balanced'
    BY <1>7, <2>2 DEF Balanced
  <2>4. Sampled'
    BY <1>1, <1>5, <1>7, SurfaceStays, Zenon DEF Sampled
  <2>5. QED BY <1>2, <1>3, <1>4, <2>3, <2>4 DEF LabInv
<1>8. CASE pc' = "done"
  <2>1. Balanced' /\ Sampled'
    BY <1>8 DEF Balanced, Sampled, Measuring
  <2>2. QED BY <1>2, <1>3, <1>4, <2>1 DEF LabInv
<1>9. ASSUME TrialOk(Head(schedule)), schedule # <<>>, schedule' = Tail(schedule),
             pc' = "sample",
             IF Head(schedule)
             THEN /\ \E noise \in NoiseOf(class1) :
                       class1' = Append(class1, TrialCost(TRUE) + noise)
                  /\ UNCHANGED class0
             ELSE /\ \E noise \in NoiseOf(class0) :
                       class0' = Append(class0, TrialCost(FALSE) + noise)
                  /\ UNCHANGED class1
      PROVE  LabInv'
  <2>1. Tail(schedule) \in Seq(BOOLEAN) /\ Head(schedule) \in BOOLEAN
    BY <1>5, <1>9, HeadTailProperties
  <2>2. /\ NoiseOf(class0) \subseteq IF at = focus THEN Noise ELSE {0, 1}
        /\ NoiseOf(class1) \subseteq IF at = focus THEN Noise ELSE {0, 1}
    BY <1>6 DEF NoiseOf
  <2>3. /\ \A noise \in NoiseOf(class0) : TrialCost(FALSE) + noise \in Durations(FALSE)
        /\ \A noise \in NoiseOf(class1) : TrialCost(TRUE) + noise \in Durations(TRUE)
    BY <2>2, Zenon DEF Durations
  <2>4. /\ Count(schedule, FALSE) =
             Count(Tail(schedule), FALSE) + (IF Head(schedule) = FALSE THEN 1 ELSE 0)
        /\ Count(schedule, TRUE) =
             Count(Tail(schedule), TRUE) + (IF Head(schedule) = TRUE THEN 1 ELSE 0)
    BY <1>5, <1>9, TailCount
  <2>5. Count(Tail(schedule), FALSE) \in Nat /\ Count(Tail(schedule), TRUE) \in Nat
    BY <2>1, CountType
  <2>6. ASSUME NEW m \in Nat, NEW l \in Nat, (m + 1) + l = Samples
         PROVE  m + (l + 1) = Samples
    BY <2>6
  <2>7. ASSUME NEW m \in Nat, NEW n, NEW l \in Nat, n = m + 0, n + l = Samples
         PROVE  m + l = Samples
    BY <2>7
  <2>8. /\ class0' \in Seq(Durations(FALSE)) /\ class1' \in Seq(Durations(TRUE))
        /\ Count(Tail(schedule), FALSE) + Len(class0') = Samples
        /\ Count(Tail(schedule), TRUE) + Len(class1') = Samples
    <3>1. CASE Head(schedule) = TRUE
      <4>0. PICK noise \in NoiseOf(class1) :
                   class1' = Append(class1, TrialCost(TRUE) + noise)
        BY <1>9, <3>1, Zenon
      <4>1. class0' = class0 /\ class1' = Append(class1, TrialCost(TRUE) + noise)
        BY <1>9, <3>1, <4>0, Zenon
      <4>2. Count(schedule, TRUE) = Count(Tail(schedule), TRUE) + 1
            /\ Count(schedule, FALSE) = Count(Tail(schedule), FALSE) + 0
        BY <2>4, <3>1, Zenon
      <4>3. class1' \in Seq(Durations(TRUE)) /\ Len(class1') = Len(class1) + 1
        <5> DEFINE D == Durations(TRUE)
                   x == TrialCost(TRUE) + noise
        <5>1. x \in D /\ class1 \in Seq(D) /\ class1' = Append(class1, x)
          BY <1>5, <2>3, <4>1, Zenon
        <5> HIDE DEF D, x
        <5>2. class1' \in Seq(D) /\ Len(class1') = Len(class1) + 1
          BY <5>1, AppendProperties
        <5>3. QED BY <5>2 DEF D
      <4>4. Count(Tail(schedule), TRUE) + Len(class1') = Samples
        <5>1. (Count(Tail(schedule), TRUE) + 1) + Len(class1) = Samples
          BY <1>5, <4>2, Zenon
        <5>2. Count(Tail(schedule), TRUE) + (Len(class1) + 1) = Samples
          BY <1>6, <2>5, <2>6, <5>1, Zenon
        <5>3. QED BY <4>3, <5>2, Zenon
      <4>5. Count(Tail(schedule), FALSE) + Len(class0) = Samples
        BY <1>5, <1>6, <2>5, <2>7, <4>2, Zenon
      <4>6. QED BY <1>5, <4>1, <4>3, <4>4, <4>5, Zenon
    <3>2. CASE Head(schedule) = FALSE
      <4>0. PICK noise \in NoiseOf(class0) :
                   class0' = Append(class0, TrialCost(FALSE) + noise)
        BY <1>9, <3>2, Zenon
      <4>1. class1' = class1 /\ class0' = Append(class0, TrialCost(FALSE) + noise)
        BY <1>9, <3>2, <4>0, Zenon
      <4>2. Count(schedule, FALSE) = Count(Tail(schedule), FALSE) + 1
            /\ Count(schedule, TRUE) = Count(Tail(schedule), TRUE) + 0
        BY <2>4, <3>2, Zenon
      <4>3. class0' \in Seq(Durations(FALSE)) /\ Len(class0') = Len(class0) + 1
        <5> DEFINE D == Durations(FALSE)
                   x == TrialCost(FALSE) + noise
        <5>1. x \in D /\ class0 \in Seq(D) /\ class0' = Append(class0, x)
          BY <1>5, <2>3, <4>1, Zenon
        <5> HIDE DEF D, x
        <5>2. class0' \in Seq(D) /\ Len(class0') = Len(class0) + 1
          BY <5>1, AppendProperties
        <5>3. QED BY <5>2 DEF D
      <4>4. Count(Tail(schedule), FALSE) + Len(class0') = Samples
        <5>1. (Count(Tail(schedule), FALSE) + 1) + Len(class0) = Samples
          BY <1>5, <4>2, Zenon
        <5>2. Count(Tail(schedule), FALSE) + (Len(class0) + 1) = Samples
          BY <1>6, <2>5, <2>6, <5>1, Zenon
        <5>3. QED BY <4>3, <5>2, Zenon
      <4>5. Count(Tail(schedule), TRUE) + Len(class1) = Samples
        BY <1>5, <1>6, <2>5, <2>7, <4>2, Zenon
      <4>6. QED BY <1>5, <4>1, <4>3, <4>4, <4>5, Zenon
    <3>3. QED BY <2>1, <3>1, <3>2, Zenon
  <2>9. Balanced'
    BY <1>9, <2>1, <2>8 DEF Balanced
  <2>10. Sampled'
    <3>1. (class0' # <<>> => TrialOk(FALSE)) /\ (class1' # <<>> => TrialOk(TRUE))
      <4>1. CASE Head(schedule) = TRUE
        BY <1>5, <1>9, <4>1, Zenon
      <4>2. CASE Head(schedule) = FALSE
        BY <1>5, <1>9, <4>2, Zenon
      <4>3. QED BY <2>1, <4>1, <4>2
    <3>2. QED BY <1>1, <2>8, <3>1, SurfaceStays, Zenon DEF Sampled
  <2>11. QED BY <1>2, <1>3, <1>4, <2>9, <2>10 DEF LabInv
<1>10. \/ schedule = <<>> /\ pc' = "verdict" /\ UNCHANGED <<class0, class1>>
       \/ pc' = "done"
       \/ /\ TrialOk(Head(schedule)) /\ schedule # <<>> /\ schedule' = Tail(schedule)
          /\ pc' = "sample"
          /\ IF Head(schedule)
             THEN /\ \E noise \in NoiseOf(class1) :
                       class1' = Append(class1, TrialCost(TRUE) + noise)
                  /\ UNCHANGED class0
             ELSE /\ \E noise \in NoiseOf(class0) :
                       class0' = Append(class0, TrialCost(FALSE) + noise)
                  /\ UNCHANGED class1
  BY <1>0, Zenon DEF Sample, Fail
<1>11. QED BY <1>7, <1>8, <1>9, <1>10, Zenon

\* The verdict joins the reports, and the lab goes on to the next surface.
LEMMA ReportKeeps ==
  ASSUME Samples \in Nat \ {0, 1}, LabInv, Report PROVE LabInv'
<1> DEFINE e == surface.expect_leak
           v == VerdictOf(class0, class1)
           rec == [expect_leak |-> e, verdict |-> v]
<1>0. /\ Placed /\ Guarded /\ Balanced /\ Sampled /\ Reported /\ SuccessIsEarned
      /\ pc = "verdict"
  BY DEF LabInv, Report
<1>1. /\ UNCHANGED <<focus, focusCode, outcome>> /\ reports' = Append(reports, rec)
      /\ \/ at < Len(Surfaces) /\ at' = at + 1 /\ pc' = "setup"
         \/ ~(at < Len(Surfaces)) /\ at' = at /\ pc' = "evaluate"
  BY Zenon DEF Report
<1>2. at \in 1..Len(Surfaces) /\ focus \in 1..Len(Surfaces) /\ Len(Surfaces) \in Nat
  <2>1. PICK names : Surfaces \in Seq(SurfaceKinds(names))
    BY SurfacesType
  <2>2. QED BY <1>0, <2>1, LenProperties DEF Placed
<1>3. rec \in Verdicts
  <2>1. PICK names : surface \in SurfaceKinds(names)
    BY <1>0, SurfaceType
  <2>2. e \in BOOLEAN
    BY <2>1 DEF SurfaceKinds
  <2>3. v \in {"Inconclusive", "Leak", "Quiet"}
    BY DEF VerdictOf
  <2> HIDE DEF e, v
  <2>4. QED BY <2>2, <2>3 DEF Verdicts
<1>4. Matches(rec) /\ at = focus => Earned
  BY <1>0, VerdictShows
<1> HIDE DEF rec
<1>5. reports \in Seq(Verdicts) /\ Len(reports) = at - 1
  BY <1>0 DEF Reported, Measuring
<1>6. /\ reports' \in Seq(Verdicts) /\ Len(reports') = at /\ reports'[at] = rec
      /\ \A i \in 1..Len(reports) : reports'[i] = reports[i]
  BY <1>1, <1>2, <1>3, <1>5, AppendProperties
<1>7. Placed'
  BY <1>0, <1>1, <1>2 DEF Placed
<1>8. Guarded' /\ Balanced' /\ Sampled'
  BY <1>1 DEF Guarded, Balanced, Sampled, Measuring
<1>9. Reported'
  <2>1. ASSUME focus <= Len(reports'), Matches(reports'[focus]) PROVE Earned
    <3>1. CASE focus = at
      BY <1>4, <1>6, <2>1, <3>1
    <3>2. CASE focus # at
      <4>1. focus \in 1..Len(reports) /\ focus <= Len(reports)
        BY <1>2, <1>5, <1>6, <2>1, <3>2
      <4>2. Matches(reports[focus])
        BY <1>6, <2>1, <4>1
      <4>3. QED BY <1>0, <4>1, <4>2 DEF Reported
    <3>3. QED BY <3>1, <3>2
  <2>2. pc' \in {"setup", "evaluate"} /\ pc' \notin Measuring
    BY <1>1 DEF Measuring
  <2>3. /\ pc' = "setup" => Len(reports') = at' - 1
        /\ pc' = "evaluate" => Len(reports') = Len(Surfaces)
    BY <1>1, <1>2, <1>6
  <2>4. focus' = focus /\ Earned' = Earned
    BY <1>1, Zenon DEF Earned
  <2>5. QED BY <1>6, <2>1, <2>2, <2>3, <2>4, Zenon DEF Reported, Matches
<1>10. SuccessIsEarned'
  <2>1. Earned' = Earned
    BY <1>1, Zenon DEF Earned
  <2>2. QED BY <1>0, <1>1, <2>1 DEF SuccessIsEarned
<1>11. QED BY <1>7, <1>8, <1>9, <1>10 DEF LabInv

\* The comparison of every verdict with what was expected.
LEMMA EvaluateKeeps ==
  ASSUME LabInv, Evaluate PROVE LabInv'
<1>0. Placed /\ Reported /\ pc = "evaluate"
  BY DEF LabInv, Evaluate
<1>1. /\ UNCHANGED <<at, focus, focusCode, reports>> /\ pc' = "done"
      /\ outcome' = IF \A i \in 1..Len(reports) : Matches(reports[i])
                    THEN "SUCCESS" ELSE "FAILURE"
  BY DEF Evaluate, Fixed
<1>2. Placed'
  BY <1>0, <1>1 DEF Placed
<1>3. Guarded' /\ Balanced' /\ Sampled'
  BY <1>1 DEF Guarded, Balanced, Sampled, Measuring
<1>4. Earned' = Earned
  BY <1>1, SurfaceStays
<1>5. Reported'
  BY <1>0, <1>1, <1>4 DEF Reported, Matches, Measuring
<1>6. SuccessIsEarned'
  <2>1. ASSUME outcome' = "SUCCESS" PROVE Earned
    <3>1. \A i \in 1..Len(reports) : Matches(reports[i])
      BY <1>1, <2>1, Zenon
    <3>2. focus \in 1..Len(reports) /\ focus <= Len(reports)
      BY <1>0 DEF Placed, Reported
    <3>3. QED BY <1>0, <3>1, <3>2 DEF Reported
  <2>2. QED BY <1>1, <1>4, <2>1 DEF SuccessIsEarned
<1>7. QED BY <1>2, <1>3, <1>5, <1>6 DEF LabInv

\* The lab's invariant, for every number of samples and trials, every noise and
\* every cost of a leak: nothing is measured that did not pass its guard, both
\* classes are sampled equally often, whatever the shuffle did, and a report as
\* expected means code that deserves it (main.rs, run_lab and measure).
THEOREM LabInvCorrect == LabSpec => []LabInv
<1>1. LabInv /\ [LabNext]_labVars => LabInv'
  <2>0. Samples \in Nat \ {0, 1}
    BY LabAssumption
  <2> SUFFICES ASSUME LabInv, [LabNext]_labVars PROVE LabInv'
    OBVIOUS
  <2>1. CASE LabNext
    BY <2>0, <2>1, SetupKeeps, WarmUpKeeps, ShuffleKeeps, SampleKeeps, ReportKeeps, EvaluateKeeps, Zenon
       DEF LabNext
  <2>2. CASE UNCHANGED labVars
    <3>1. UNCHANGED <<pc, at, focus, focusCode, trial, schedule, class0, class1, reports, outcome>>
      BY <2>2 DEF labVars
    <3>2. Placed' /\ Balanced' /\ Reported' /\ SuccessIsEarned'
      BY <3>1, SurfaceStays, Zenon
         DEF LabInv, Placed, Balanced, Reported, SuccessIsEarned, Matches
    <3>3. Guarded' /\ Sampled'
      BY <3>1, SurfaceStays, Zenon DEF LabInv, Guarded, Sampled
    <3>4. QED BY <3>2, <3>3 DEF LabInv
  <2>3. QED BY <2>1, <2>2
<1>2. QED BY <1>1, LabStarts, PTL DEF LabSpec

\* A run succeeds only over code whose guards and trials all answered as they
\* should, and whose leak, or whose control's silence, the noise of this many
\* samples can explain, for every noise and every cost of a leak ("they MUST
\* read as leaks or the run fails", main.rs).
THEOREM SuccessAlwaysEarned == LabSpec => []SuccessIsEarned
<1>1. LabInv => SuccessIsEarned
  BY DEF LabInv
<1>2. QED BY <1>1, LabInvCorrect, PTL
=============================================================================
