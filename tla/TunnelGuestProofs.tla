------------------------- MODULE TunnelGuestProofs -------------------------
(***************************************************************************)
(* Theorems about TunnelGuest, for any number of connects, any amount of   *)
(* data and any size of the splice's reads.                                *)
(***************************************************************************)
EXTENDS TunnelGuest, SequenceTheorems, TLAPS

-----------------------------------------------------------------------------
(* The inductive invariant *)

Stands == {"plain", "dial", "tls", "ok", "err", "cancelled"}

TunnelRecord ==
  [tx : {"none", "held", "sent", "gone"}, cleartext : {"none", "held", "taken", "gone"},
   pc : {"none", "waiting", "read", "write", "settle", "done"}, last : BOOLEAN,
   app : Seq(Nat), open : BOOLEAN, taken : Seq(Nat), buf : Seq(Nat), piped : Seq(Nat),
   writer : BOOLEAN, reader : BOOLEAN, send_done : {"pending", "ok", "err"},
   verdict : {"pending", "ok", "connection-reset"}]

TypeOK ==
  /\ state \in {"host", "busy", "tunnel", "dropped"} /\ tunnel \in 0..MaxCalls
  /\ native \in {"fresh", "connected", "closed", "gone"}
  /\ calls \in Seq(Stands)
  /\ tun \in [Calls -> TunnelRecord]

\* A tunnel in state is one a connect made.  The host socket is in one place:
\* in state, in the one connect that took it out, or gone with that connect.
SocketInv ==
  /\ state = "busy" => native = "gone" \/ \E c \in DOMAIN calls : calls[c] = "plain"
  /\ native = "gone" => /\ state # "host"
                        /\ \E c \in DOMAIN calls : calls[c] = "cancelled"
  /\ state = "host" \/ native = "gone" => \A c \in DOMAIN calls : calls[c] # "plain"
  /\ \A c, d \in DOMAIN calls : calls[c] = "plain" /\ calls[d] = "plain" => c = d
  /\ state = "tunnel" <=> tunnel # 0
  /\ tunnel # 0 => tunnel \in DOMAIN calls /\ calls[tunnel] = "ok"

\* The pipe of one tunnel: the splice holds the writer until it returns, with
\* nothing left in write_all unless the connector is gone; whoever can still
\* see the end of the pipe, or saw it, has read all of what was spliced.
PipeOK(t) ==
  /\ t.pc = "none" => t.reader = FALSE /\ t.tx = "none" /\ t.send_done = "pending"
  /\ t.pc \in {"none", "waiting", "read"} => t.buf = <<>>
  /\ t.pc \notin {"settle", "done"} => t.piped \o t.buf = t.taken
  /\ t.pc \in {"waiting", "read", "write"} => t.writer = TRUE
  /\ t.send_done # "pending" => t.reader = FALSE
  /\ t.send_done = "ok" \/ (t.reader = TRUE /\ t.writer = FALSE) =>
       /\ t.pc \in {"settle", "done"}
       /\ t.buf = <<>> /\ t.piped = t.taken /\ t.open = FALSE
  /\ t.verdict = "ok" => t.send_done = "ok"

\* The application's stream: it has an end in the application's hands only
\* after send, and the splice's last read was the one that saw it closed.
StreamOK(t) ==
  /\ t.tx = "held" => t.pc = "waiting"
  /\ t.open = TRUE => t.tx = "sent"
  /\ t.pc = "write" /\ t.last = TRUE => t.open = FALSE

TunnelsInv == \A c \in Calls : PipeOK(tun[c]) /\ StreamOK(tun[c])

GuestInv == TypeOK /\ SocketInv /\ TunnelsInv

-----------------------------------------------------------------------------
(* Operators *)

\* Concatenation of units is associative.
LEMMA UnitsAssoc ==
  ASSUME NEW s \in Seq(Nat), NEW t \in Seq(Nat), NEW u \in Seq(Nat)
  PROVE  (s \o t) \o u = s \o (t \o u)
BY ConcatAssociative

\* Handing over the head of a buffer leaves the concatenation as it was.
LEMMA MoveHead ==
  ASSUME NEW s \in Seq(Nat), NEW t \in Seq(Nat), t # <<>>
  PROVE  /\ Append(s, Head(t)) \in Seq(Nat) /\ Tail(t) \in Seq(Nat)
         /\ Append(s, Head(t)) \o Tail(t) = s \o t
<1> DEFINE h == Head(t)
           r == Tail(t)
<1>1. h \in Nat /\ r \in Seq(Nat) /\ t = <<h>> \o r
  <2>1. h \in Nat /\ r \in Seq(Nat)
    BY HeadTailProperties
  <2>2. t = <<h>> \o r
    BY HeadTailProperties
  <2>3. QED BY <2>1, <2>2
<1> HIDE DEF h, r
<1>2. <<h>> \in Seq(Nat) /\ Append(s, h) = s \o <<h>> /\ Append(s, h) \in Seq(Nat)
  BY <1>1, AppendIsConcat, AppendProperties
<1>3. (s \o <<h>>) \o r = s \o (<<h>> \o r)
  <2> DEFINE e == <<h>>
  <2>1. e \in Seq(Nat)
    BY <1>2
  <2> HIDE DEF e
  <2>2. (s \o e) \o r = s \o (e \o r)
    BY <1>1, <2>1, UnitsAssoc
  <2>3. QED BY <2>2 DEF e
<1>4. QED BY <1>1, <1>2, <1>3 DEF h, r

-----------------------------------------------------------------------------
(* The steps of one tunnel *)

\* A step of one tunnel that leaves its pipe and its stream in order keeps the
\* whole invariant.
LEMMA TunnelMoves ==
  ASSUME GuestInv, NEW c \in Calls, NEW t \in TunnelRecord, PipeOK(t), StreamOK(t),
         tun' = [tun EXCEPT ![c] = t], UNCHANGED <<sock, calls>>
  PROVE  GuestInv'
<1> USE DEF GuestInv
<1>1. /\ tun' \in [Calls -> TunnelRecord] /\ tun'[c] = t
      /\ \A d \in Calls : d # c => tun'[d] = tun[d]
  BY DEF TypeOK
<1>2. TypeOK'
  BY <1>1 DEF TypeOK, sock
<1>3. SocketInv'
  BY DEF SocketInv, sock
<1>4. TunnelsInv'
  BY <1>1, Zenon DEF TunnelsInv
<1>5. QED BY <1>2, <1>3, <1>4

\* send and receive take what the tunnel holds.
LEMMA TakeStep ==
  ASSUME GuestInv, Send \/ Receive
  PROVE  GuestInv'
<1>1. tunnel \in Calls
  BY TunnelAssumption DEF GuestInv, TypeOK, SocketInv, Send, Receive, Calls
<1>2. tun[tunnel] \in TunnelRecord /\ PipeOK(tun[tunnel]) /\ StreamOK(tun[tunnel])
  BY <1>1 DEF GuestInv, TypeOK, TunnelsInv
<1>3. CASE Send
  <2> DEFINE t == [tun[tunnel] EXCEPT !.tx = "sent", !.open = TRUE]
  <2>1. t \in TunnelRecord
    BY <1>2 DEF TunnelRecord
  <2>2. tun[tunnel].tx = "held" /\ tun[tunnel].pc = "waiting"
    BY <1>2, <1>3 DEF Send, StreamOK
  <2>3. PipeOK(t)
    BY <1>2, <2>2 DEF PipeOK, TunnelRecord
  <2>4. StreamOK(t)
    BY <1>2, <2>2 DEF StreamOK, TunnelRecord
  <2>5. tun' = [tun EXCEPT ![tunnel] = t] /\ UNCHANGED <<sock, calls>>
    BY <1>1, <1>3 DEF Send, GuestInv, TypeOK
  <2> HIDE DEF t
  <2>6. QED BY <1>1, <2>1, <2>3, <2>4, <2>5, TunnelMoves
<1>4. CASE Receive
  <2> DEFINE t == [tun[tunnel] EXCEPT !.cleartext = "taken"]
  <2>1. t \in TunnelRecord
    BY <1>2 DEF TunnelRecord
  <2>2. PipeOK(t)
    BY <1>2 DEF PipeOK, TunnelRecord
  <2>3. StreamOK(t)
    BY <1>2 DEF StreamOK, TunnelRecord
  <2>4. tun' = [tun EXCEPT ![tunnel] = t] /\ UNCHANGED <<sock, calls>>
    BY <1>1, <1>4 DEF Receive, GuestInv, TypeOK
  <2> HIDE DEF t
  <2>5. QED BY <1>1, <2>1, <2>2, <2>3, <2>4, TunnelMoves
<1>5. QED BY <1>3, <1>4

\* The application writes, or closes its end.
LEMMA AppStep ==
  ASSUME GuestInv, NEW c \in Calls, AppWrite(c) \/ AppClose(c)
  PROVE  GuestInv'
<1>1. tun[c] \in TunnelRecord /\ PipeOK(tun[c]) /\ StreamOK(tun[c])
  BY DEF GuestInv, TypeOK, TunnelsInv
<1>2. CASE AppWrite(c)
  <2> DEFINE n == Len(tun[c].taken \o tun[c].app) + 1
             a == Append(tun[c].app, n)
             t == [tun[c] EXCEPT !.app = a]
  <2>1. tun' = [tun EXCEPT ![c] = t] /\ UNCHANGED <<sock, calls>>
    BY <1>2 DEF AppWrite, GuestInv, TypeOK
  <2>2. tun[c].app \in Seq(Nat) /\ tun[c].taken \in Seq(Nat)
    BY <1>1 DEF TunnelRecord
  <2>3. n \in Nat
    <3> DEFINE all == tun[c].taken \o tun[c].app
    <3>1. all \in Seq(Nat)
      BY <2>2, ConcatProperties
    <3> HIDE DEF all
    <3>2. Len(all) + 1 \in Nat
      BY <3>1, LenProperties
    <3>3. QED BY <3>2 DEF all
  <2> HIDE DEF n
  <2>4. a \in Seq(Nat)
    BY <2>2, <2>3, AppendProperties
  <2> HIDE DEF a
  <2>5. t \in TunnelRecord
    BY <1>1, <2>4 DEF TunnelRecord
  <2>6. PipeOK(t)
    BY <1>1 DEF PipeOK, TunnelRecord
  <2>7. StreamOK(t)
    BY <1>1 DEF StreamOK, TunnelRecord
  <2> HIDE DEF t
  <2>8. QED BY <2>1, <2>5, <2>6, <2>7, TunnelMoves
<1>3. CASE AppClose(c)
  <2> DEFINE t == [tun[c] EXCEPT !.open = FALSE, !.app = <<>>]
  <2>1. tun' = [tun EXCEPT ![c] = t] /\ UNCHANGED <<sock, calls>>
    BY <1>3 DEF AppClose, GuestInv, TypeOK
  <2>2. t \in TunnelRecord
    BY <1>1, EmptySeq DEF TunnelRecord
  <2>3. PipeOK(t)
    BY <1>1 DEF PipeOK, TunnelRecord
  <2>4. StreamOK(t)
    BY <1>1 DEF StreamOK, TunnelRecord
  <2> HIDE DEF t
  <2>5. QED BY <2>1, <2>2, <2>3, <2>4, TunnelMoves
<1>4. QED BY <1>2, <1>3

\* The splice begins, or learns that send will never be called.
LEMMA SpliceBegins ==
  ASSUME GuestInv, NEW c \in Calls, SpliceStart(c) \/ SpliceUnclaimed(c)
  PROVE  GuestInv'
<1>1. tun[c] \in TunnelRecord /\ PipeOK(tun[c]) /\ StreamOK(tun[c])
  BY DEF GuestInv, TypeOK, TunnelsInv
<1>2. CASE SpliceStart(c)
  <2> DEFINE t == [tun[c] EXCEPT !.pc = "read"]
  <2>1. tun' = [tun EXCEPT ![c] = t] /\ UNCHANGED <<sock, calls>>
    BY <1>2 DEF SpliceStart, GuestInv, TypeOK
  <2>2. t \in TunnelRecord
    BY <1>1 DEF TunnelRecord
  <2>3. PipeOK(t)
    BY <1>1, <1>2 DEF SpliceStart, PipeOK, TunnelRecord
  <2>4. StreamOK(t)
    BY <1>1, <1>2 DEF SpliceStart, StreamOK, TunnelRecord
  <2> HIDE DEF t
  <2>5. QED BY <2>1, <2>2, <2>3, <2>4, TunnelMoves
<1>3. CASE SpliceUnclaimed(c)
  <2> DEFINE t == [tun[c] EXCEPT !.pc = "settle", !.writer = FALSE]
  <2>1. tun' = [tun EXCEPT ![c] = t] /\ UNCHANGED <<sock, calls>>
    BY <1>3 DEF SpliceUnclaimed, GuestInv, TypeOK
  <2>2. t \in TunnelRecord
    BY <1>1 DEF TunnelRecord
  <2>3. tun[c].buf = <<>> /\ tun[c].piped = tun[c].taken
    <3>1. tun[c].buf = <<>> /\ tun[c].piped \o <<>> = tun[c].taken
      BY <1>1, <1>3 DEF SpliceUnclaimed, PipeOK
    <3>2. tun[c].piped \o <<>> = tun[c].piped
      BY <1>1, ConcatEmptySeq DEF TunnelRecord
    <3>3. QED BY <3>1, <3>2
  <2>4. tun[c].open = FALSE
    BY <1>1, <1>3 DEF SpliceUnclaimed, StreamOK, TunnelRecord
  <2>5. PipeOK(t)
    BY <1>1, <1>3, <2>3, <2>4 DEF SpliceUnclaimed, PipeOK, TunnelRecord
  <2>6. StreamOK(t)
    BY <1>1, <1>3 DEF SpliceUnclaimed, StreamOK, TunnelRecord
  <2> HIDE DEF t
  <2>7. QED BY <2>1, <2>2, <2>5, <2>6, TunnelMoves
<1>4. QED BY <1>2, <1>3

\* splice returns in order when the stream has ended with all of it handed
\* over, or the connector has given up.
LEMMA ReturnsKeeps ==
  ASSUME GuestInv, NEW c \in Calls, tun[c].pc \in {"read", "write"},
         \/ tun[c].buf = <<>> /\ tun[c].open = FALSE
         \/ tun[c].reader = FALSE,
         SpliceReturns(c), UNCHANGED <<sock, calls>>
  PROVE  GuestInv'
<1> DEFINE t == [tun[c] EXCEPT !.pc = "settle", !.writer = FALSE, !.buf = <<>>, !.app = <<>>]
<1>1. tun[c] \in TunnelRecord /\ PipeOK(tun[c]) /\ StreamOK(tun[c])
  BY DEF GuestInv, TypeOK, TunnelsInv
<1>2. tun' = [tun EXCEPT ![c] = t]
  BY DEF SpliceReturns, GuestInv, TypeOK
<1>3. t \in TunnelRecord
  BY <1>1, EmptySeq DEF TunnelRecord
<1>4. tun[c].buf = <<>> => tun[c].piped = tun[c].taken
  <2>1. tun[c].piped \o tun[c].buf = tun[c].taken
    BY <1>1 DEF PipeOK
  <2>2. tun[c].piped \o <<>> = tun[c].piped
    BY <1>1, ConcatEmptySeq DEF TunnelRecord
  <2>3. QED BY <2>1, <2>2
<1>5. tun[c].send_done # "ok"
  BY <1>1 DEF PipeOK
<1>6. PipeOK(t)
  BY <1>1, <1>4, <1>5 DEF PipeOK, TunnelRecord
<1>7. StreamOK(t)
  BY <1>1 DEF StreamOK, TunnelRecord
<1> HIDE DEF t
<1>8. QED BY <1>2, <1>3, <1>6, <1>7, TunnelMoves

\* A read of the splice.
LEMMA SpliceReadStep ==
  ASSUME GuestInv, NEW c \in Calls, NEW n \in 1..CHUNK, NEW closes \in BOOLEAN,
         SpliceRead(c, n, closes)
  PROVE  GuestInv'
<1> DEFINE o == tun[c].open /\ ~closes
           b == SubSeq(tun[c].app, 1, n)
           k == tun[c].taken \o b
           a == SubSeq(tun[c].app, n + 1, Len(tun[c].app))
           t == [tun[c] EXCEPT !.pc = "write", !.last = closes, !.open = o, !.buf = b,
                               !.taken = k, !.app = a]
<1>1. tun[c] \in TunnelRecord /\ PipeOK(tun[c]) /\ StreamOK(tun[c])
  BY DEF GuestInv, TypeOK, TunnelsInv
<1>2. tun' = [tun EXCEPT ![c] = t] /\ UNCHANGED <<sock, calls>>
  BY DEF SpliceRead, GuestInv, TypeOK
<1>3. /\ tun[c].app \in Seq(Nat) /\ tun[c].taken \in Seq(Nat) /\ tun[c].piped \in Seq(Nat)
      /\ tun[c].open \in BOOLEAN
  BY <1>1 DEF TunnelRecord
<1>4. b \in Seq(Nat) /\ a \in Seq(Nat)
  <2>1. n \in Nat \ {0} /\ n <= Len(tun[c].app)
    BY TunnelAssumption DEF SpliceRead
  <2>2. Len(tun[c].app) \in Nat
    BY <1>3, LenProperties
  <2>3. \A i \in 1..Len(tun[c].app) : tun[c].app[i] \in Nat
    BY <1>3, ElementOfSeq
  <2>4. QED BY <1>3, <2>1, <2>2, <2>3, SubSeqProperties
<1> HIDE DEF a, b
<1>5. k \in Seq(Nat)
  BY <1>3, <1>4, ConcatProperties
<1>6. tun[c].piped \o b = k
  <2>1. tun[c].piped \o <<>> = tun[c].taken
    BY <1>1 DEF SpliceRead, PipeOK
  <2>2. tun[c].piped \o <<>> = tun[c].piped
    BY <1>3, ConcatEmptySeq
  <2>3. QED BY <2>1, <2>2
<1> HIDE DEF k
<1>7. o \in BOOLEAN /\ (closes = TRUE => o = FALSE) /\ (o = TRUE => tun[c].open = TRUE)
  BY <1>3, Zenon
<1> HIDE DEF o
<1>8. t \in TunnelRecord
  BY <1>1, <1>4, <1>5, <1>7 DEF TunnelRecord
<1>9. tun[c].pc = "read"
  BY DEF SpliceRead
<1>10. PipeOK(t)
  BY <1>1, <1>6, <1>9 DEF PipeOK, TunnelRecord
<1>11. StreamOK(t)
  BY <1>1, <1>7, <1>9 DEF StreamOK, TunnelRecord
<1> HIDE DEF t
<1>12. QED BY <1>2, <1>8, <1>10, <1>11, TunnelMoves

\* The splice after a read: write_all returns, the stream ends, or the verdict
\* comes in.
LEMMA SpliceGoesOn ==
  ASSUME GuestInv, NEW c \in Calls,
         SpliceWritten(c) \/ SpliceLeftover(c) \/ SpliceEof(c) \/ SpliceVerdict(c)
  PROVE  GuestInv'
<1>1. tun[c] \in TunnelRecord /\ PipeOK(tun[c]) /\ StreamOK(tun[c])
  BY DEF GuestInv, TypeOK, TunnelsInv
<1>2. /\ tun[c].last \in BOOLEAN /\ tun[c].open \in BOOLEAN /\ tun[c].reader \in BOOLEAN
  BY <1>1 DEF TunnelRecord
<1>3. CASE SpliceWritten(c)
  <2>1. /\ tun[c].pc = "write" /\ tun[c].buf = <<>> /\ UNCHANGED <<sock, calls>>
    BY <1>3 DEF SpliceWritten
  <2>2. CASE tun[c].last = TRUE
    <3>1. SpliceReturns(c)
      BY <1>3, <2>2, Zenon DEF SpliceWritten
    <3>2. tun[c].open = FALSE
      BY <1>1, <2>1, <2>2 DEF StreamOK
    <3>3. QED BY <2>1, <3>1, <3>2, ReturnsKeeps
  <2>3. CASE tun[c].last = FALSE
    <3> DEFINE t == [tun[c] EXCEPT !.pc = "read"]
    <3>1. tun' = [tun EXCEPT ![c].pc = "read"]
      BY <1>3, <2>3, Zenon DEF SpliceWritten
    <3>2. tun' = [tun EXCEPT ![c] = t]
      BY <3>1 DEF GuestInv, TypeOK
    <3>3. t \in TunnelRecord
      BY <1>1 DEF TunnelRecord
    <3>4. PipeOK(t)
      BY <1>1, <2>1 DEF PipeOK, TunnelRecord
    <3>5. StreamOK(t)
      BY <1>1, <2>1 DEF StreamOK, TunnelRecord
    <3> HIDE DEF t
    <3>6. QED BY <2>1, <3>2, <3>3, <3>4, <3>5, TunnelMoves
  <2>4. QED BY <1>2, <2>2, <2>3
<1>4. CASE SpliceLeftover(c)
  <2>1. /\ tun[c].pc \in {"read", "write"} /\ SpliceReturns(c) /\ UNCHANGED <<sock, calls>>
    BY <1>4 DEF SpliceLeftover
  <2>2. tun[c].reader = FALSE
    BY <1>2, <1>4, Zenon DEF SpliceLeftover
  <2>3. QED BY <2>1, <2>2, ReturnsKeeps
<1>5. CASE SpliceEof(c)
  <2>1. /\ tun[c].pc = "read" /\ SpliceReturns(c) /\ UNCHANGED <<sock, calls>>
    BY <1>5 DEF SpliceEof
  <2>2. tun[c].open = FALSE
    BY <1>2, <1>5, Zenon DEF SpliceEof
  <2>3. tun[c].buf = <<>>
    BY <1>1, <2>1 DEF PipeOK
  <2>4. QED BY <2>1, <2>2, <2>3, ReturnsKeeps
<1>6. CASE SpliceVerdict(c)
  <2> DEFINE v == IF tun[c].send_done = "ok" THEN "ok" ELSE "connection-reset"
             t == [tun[c] EXCEPT !.pc = "done", !.verdict = v]
  <2>1. /\ tun' = [tun EXCEPT ![c] = t] /\ UNCHANGED <<sock, calls>>
        /\ tun[c].pc = "settle"
    BY <1>6 DEF SpliceVerdict, GuestInv, TypeOK
  <2>2. v \in {"ok", "connection-reset"} /\ (v = "ok" => tun[c].send_done = "ok")
    OBVIOUS
  <2> HIDE DEF v
  <2>3. t \in TunnelRecord
    BY <1>1, <2>2 DEF TunnelRecord
  <2>4. PipeOK(t)
    BY <1>1, <2>1, <2>2 DEF PipeOK, TunnelRecord
  <2>5. StreamOK(t)
    BY <1>1, <2>1 DEF StreamOK, TunnelRecord
  <2> HIDE DEF t
  <2>6. QED BY <2>1, <2>3, <2>4, <2>5, TunnelMoves
<1>7. QED BY <1>3, <1>4, <1>5, <1>6

\* The steps of the splice task.
LEMMA SpliceStep ==
  ASSUME GuestInv, NEW c \in Calls, Splice(c)
  PROVE  GuestInv'
<1>1. ASSUME NEW n \in 1..CHUNK, NEW closes \in BOOLEAN, SpliceRead(c, n, closes)
      PROVE  GuestInv'
  BY <1>1, SpliceReadStep
<1>2. QED BY <1>1, SpliceBegins, SpliceGoesOn DEF Splice

\* The connector reads on, sees the end of the pipe, or gives up.
LEMMA PumpStep ==
  ASSUME GuestInv, NEW c \in Calls, PumpRead(c) \/ PumpEof(c) \/ PumpFails(c)
  PROVE  GuestInv'
<1>1. tun[c] \in TunnelRecord /\ PipeOK(tun[c]) /\ StreamOK(tun[c])
  BY DEF GuestInv, TypeOK, TunnelsInv
<1>2. tun[c].reader = TRUE /\ tun[c].send_done = "pending" /\ tun[c].pc # "none"
  BY <1>1 DEF PumpRead, PumpEof, PumpFails, PipeOK, TunnelRecord
<1>3. tun[c].verdict # "ok"
  BY <1>1, <1>2 DEF PipeOK
<1>4. CASE PumpRead(c)
  <2> DEFINE p == Append(tun[c].piped, Head(tun[c].buf))
             b == Tail(tun[c].buf)
             t == [tun[c] EXCEPT !.piped = p, !.buf = b]
  <2>1. tun' = [tun EXCEPT ![c] = t] /\ UNCHANGED <<sock, calls>> /\ tun[c].buf # <<>>
    BY <1>4 DEF PumpRead, GuestInv, TypeOK
  <2>2. p \in Seq(Nat) /\ b \in Seq(Nat) /\ p \o b = tun[c].piped \o tun[c].buf
    <3> DEFINE x == tun[c].piped
               y == tun[c].buf
    <3>1. x \in Seq(Nat) /\ y \in Seq(Nat) /\ y # <<>>
      BY <1>1, <2>1 DEF TunnelRecord
    <3> HIDE DEF x, y
    <3>2. /\ Append(x, Head(y)) \in Seq(Nat) /\ Tail(y) \in Seq(Nat)
          /\ Append(x, Head(y)) \o Tail(y) = x \o y
      BY <3>1, MoveHead
    <3>3. QED BY <3>2 DEF x, y
  <2> HIDE DEF p, b
  <2>3. t \in TunnelRecord
    BY <1>1, <2>2 DEF TunnelRecord
  <2>4. PipeOK(t)
    BY <1>1, <1>2, <1>3, <2>1, <2>2 DEF PipeOK, TunnelRecord
  <2>5. StreamOK(t)
    BY <1>1 DEF StreamOK, TunnelRecord
  <2> HIDE DEF t
  <2>6. QED BY <2>1, <2>3, <2>4, <2>5, TunnelMoves
<1>5. CASE PumpEof(c)
  <2> DEFINE t == [tun[c] EXCEPT !.reader = FALSE, !.send_done = "ok"]
  <2>1. tun' = [tun EXCEPT ![c] = t] /\ UNCHANGED <<sock, calls>>
    BY <1>5 DEF PumpEof, GuestInv, TypeOK
  <2>2. tun[c].writer = FALSE
    BY <1>1, <1>5 DEF PumpEof, TunnelRecord
  <2>3. t \in TunnelRecord
    BY <1>1 DEF TunnelRecord
  <2>4. PipeOK(t)
    BY <1>1, <1>2, <2>2 DEF PipeOK, TunnelRecord
  <2>5. StreamOK(t)
    BY <1>1 DEF StreamOK, TunnelRecord
  <2> HIDE DEF t
  <2>6. QED BY <2>1, <2>3, <2>4, <2>5, TunnelMoves
<1>6. CASE PumpFails(c)
  <2> DEFINE t == [tun[c] EXCEPT !.reader = FALSE, !.send_done = "err"]
  <2>1. tun' = [tun EXCEPT ![c] = t] /\ UNCHANGED <<sock, calls>>
    BY <1>6 DEF PumpFails, GuestInv, TypeOK
  <2>2. t \in TunnelRecord
    BY <1>1 DEF TunnelRecord
  <2>3. PipeOK(t)
    BY <1>1, <1>2, <1>3 DEF PipeOK, TunnelRecord
  <2>4. StreamOK(t)
    BY <1>1 DEF StreamOK, TunnelRecord
  <2> HIDE DEF t
  <2>5. QED BY <2>1, <2>2, <2>3, <2>4, TunnelMoves
<1>7. QED BY <1>4, <1>5, <1>6

-----------------------------------------------------------------------------
(* The steps of the socket *)

\* A tunnel that goes with the socket's state is still in order.
LEMMA ReleasedKeeps ==
  ASSUME GuestInv
  PROVE  /\ Released \in [Calls -> TunnelRecord]
         /\ \A c \in Calls : PipeOK(Released[c]) /\ StreamOK(Released[c])
<1> USE DEF GuestInv
<1> DEFINE x(c) == IF tun[c].tx = "held" THEN "gone" ELSE tun[c].tx
           y(c) == IF tun[c].cleartext = "held" THEN "gone" ELSE tun[c].cleartext
           t(c) == [tun[c] EXCEPT !.tx = x(c), !.cleartext = y(c)]
<1>1. ASSUME NEW c \in Calls
      PROVE  tun[c] \in TunnelRecord /\ PipeOK(tun[c]) /\ StreamOK(tun[c])
  BY DEF TypeOK, TunnelsInv
<1>2. ASSUME NEW c \in Calls
      PROVE  Released[c] = IF c # tunnel THEN tun[c] ELSE t(c)
  <2>1. tun[c] \in TunnelRecord
    BY <1>1
  <2>2. QED BY <2>1 DEF Released, TunnelRecord
<1>3. ASSUME NEW c \in Calls
      PROVE  /\ x(c) \in {"none", "sent", "gone"} /\ y(c) \in {"none", "taken", "gone"}
             /\ tun[c].tx \in {"none", "sent"} => x(c) = tun[c].tx
  BY <1>1 DEF TunnelRecord
<1> HIDE DEF x, y
<1>4. ASSUME NEW c \in Calls
      PROVE  t(c) \in TunnelRecord /\ PipeOK(t(c)) /\ StreamOK(t(c))
  <2>1. t(c) \in TunnelRecord
    BY <1>1, <1>3 DEF TunnelRecord
  <2>2. PipeOK(t(c))
    <3> DEFINE old == tun[c]
               new == t(c)
    <3>1. /\ new.pc = old.pc /\ new.open = old.open /\ new.taken = old.taken
          /\ new.buf = old.buf /\ new.piped = old.piped /\ new.writer = old.writer
          /\ new.reader = old.reader /\ new.send_done = old.send_done
          /\ new.verdict = old.verdict /\ new.tx = x(c)
      BY <1>1 DEF TunnelRecord
    <3>2. old.tx = "none" => new.tx = "none"
      BY <1>3, <3>1
    <3>3. PipeOK(old)
      BY <1>1
    <3> HIDE DEF old, new
    <3>4. PipeOK(new)
      BY <3>1, <3>2, <3>3 DEF PipeOK
    <3>5. QED BY <3>4 DEF new
  <2>3. StreamOK(t(c))
    BY <1>1, <1>3 DEF TunnelRecord, StreamOK
  <2>4. QED BY <2>1, <2>2, <2>3
<1> HIDE DEF t
<1>5. ASSUME NEW c \in Calls
      PROVE  Released[c] \in TunnelRecord /\ PipeOK(Released[c]) /\ StreamOK(Released[c])
  BY <1>1, <1>2, <1>4, Zenon
<1>6. Released = [c \in Calls |-> Released[c]]
  BY DEF Released
<1>7. QED BY <1>5, <1>6

\* A connect begins.
LEMMA ConnectBegins ==
  ASSUME GuestInv, ConnectPlain \/ ConnectHandle
  PROVE  GuestInv'
<1> USE DEF GuestInv
<1>1. PICK p \in Stands : /\ calls' = Append(calls, p)
                          /\ \/ state' = state /\ p # "plain" /\ p # "cancelled"
                             \/ state = "host" /\ state' = "busy" /\ p = "plain"
                          /\ UNCHANGED <<tunnel, native, tun>>
  <2>1. CASE ConnectPlain
    BY <2>1 DEF ConnectPlain, Stands
  <2>2. CASE ConnectHandle
    BY <2>2 DEF ConnectHandle, Stands, sock
  <2>3. QED BY <2>1, <2>2
<1>2. calls \in Seq(Stands) /\ DOMAIN calls = 1..Len(calls) /\ Len(calls) \in Nat
  BY LenProperties DEF TypeOK
<1>3. /\ calls' \in Seq(Stands) /\ Len(calls') = Len(calls) + 1
      /\ \A i \in 1..Len(calls) : calls'[i] = calls[i]
      /\ calls'[Len(calls) + 1] = p
  BY <1>1, <1>2, AppendProperties
<1>4. DOMAIN calls' = 1..(Len(calls) + 1)
  BY <1>3, LenProperties
<1>5. /\ Len(calls) + 1 \in DOMAIN calls'
      /\ \A c \in DOMAIN calls : c \in DOMAIN calls' /\ calls'[c] = calls[c]
  BY <1>2, <1>3, <1>4
<1>6. TypeOK' /\ TunnelsInv'
  BY <1>1, <1>3 DEF TypeOK, TunnelsInv
<1>7. SocketInv'
  <2>1. \A c \in DOMAIN calls' : c \in DOMAIN calls \/ c = Len(calls) + 1
    BY <1>2, <1>4
  <2>2. CASE state' = state /\ p # "plain" /\ p # "cancelled"
    BY <1>1, <1>3, <1>5, <2>1, <2>2 DEF SocketInv
  <2>3. CASE state = "host" /\ state' = "busy" /\ p = "plain"
    BY <1>1, <1>3, <1>5, <2>1, <2>3 DEF SocketInv
  <2>4. QED BY <1>1, <2>2, <2>3
<1>8. QED BY <1>6, <1>7

\* A connect in flight goes on or returns: other calls are where they were.
LEMMA CallMoves ==
  ASSUME GuestInv, NEW c, InFlight(c), NEW p \in Stands, calls' = [calls EXCEPT ![c] = p]
  PROVE  /\ calls' \in Seq(Stands) /\ DOMAIN calls' = DOMAIN calls /\ c \in DOMAIN calls
         /\ calls'[c] = p /\ calls[c] # "ok"
         /\ \A d \in DOMAIN calls : d # c => calls'[d] = calls[d]
<1>1. calls \in Seq(Stands) /\ DOMAIN calls = 1..Len(calls) /\ c \in DOMAIN calls
      /\ calls[c] # "ok"
  BY LenProperties DEF GuestInv, TypeOK, InFlight
<1>2. calls' \in Seq(Stands) /\ DOMAIN calls' = DOMAIN calls
  BY <1>1, ExceptSeq
<1>3. QED BY <1>1, <1>2

\* The steps of connect.
LEMMA ConnectMovesStep ==
  ASSUME GuestInv, NEW c \in Calls, ConnectMoves(c)
  PROVE  GuestInv'
<1> USE DEF GuestInv
<1> DEFINE R == Released
<1>1. R \in [Calls -> TunnelRecord] /\ \A d \in Calls : PipeOK(R[d]) /\ StreamOK(R[d])
  BY ReleasedKeeps
<1> HIDE DEF R
<1>2. ASSUME NEW up \in BOOLEAN, PlainDone(c, up)
      PROVE  GuestInv'
  <2> DEFINE p == IF up THEN "ok" ELSE "err"
  <2>1. /\ InFlight(c) /\ calls' = [calls EXCEPT ![c] = p] /\ p \in Stands
        /\ state' = "host" /\ tunnel' = 0 /\ tun' = R
    BY <1>2 DEF PlainDone, Stands, R
  <2> HIDE DEF p
  <2>2. /\ calls' \in Seq(Stands) /\ DOMAIN calls' = DOMAIN calls /\ c \in DOMAIN calls
        /\ calls'[c] = p /\ \A d \in DOMAIN calls : d # c => calls'[d] = calls[d]
    BY <2>1, CallMoves
  <2>3. native' \in {"fresh", "connected", "closed"} /\ p # "plain" /\ calls[c] = "plain"
    BY <1>2, <2>2 DEF PlainDone, TypeOK, SocketInv, p
  <2>4. TypeOK'
    BY <1>1, <2>1, <2>2, <2>3, TunnelAssumption DEF TypeOK
  <2>5. \A d \in DOMAIN calls' : calls'[d] # "plain"
    BY <2>2, <2>3 DEF SocketInv
  <2>6. SocketInv'
    BY <2>1, <2>3, <2>5 DEF SocketInv
  <2>7. TunnelsInv'
    BY <1>1, <2>1 DEF TunnelsInv
  <2>8. QED BY <2>4, <2>6, <2>7
<1>3. ASSUME NEW p \in {"tls", "err"}, InFlight(c), calls[c] # "plain",
             calls' = [calls EXCEPT ![c] = p], UNCHANGED <<sock, tun>>
      PROVE  GuestInv'
  <2>1. /\ calls' \in Seq(Stands) /\ DOMAIN calls' = DOMAIN calls /\ calls[c] # "ok"
        /\ c \in DOMAIN calls /\ calls'[c] = p /\ calls[c] # "cancelled"
        /\ \A d \in DOMAIN calls : d # c => calls'[d] = calls[d]
    <3>1. p \in Stands
      BY DEF Stands
    <3>2. calls[c] # "cancelled"
      BY <1>3 DEF InFlight
    <3>3. QED BY <1>3, <3>1, <3>2, CallMoves
  <2>2. TypeOK' /\ TunnelsInv'
    BY <1>3, <2>1 DEF TypeOK, TunnelsInv, sock
  <2>3. SocketInv'
    BY <1>3, <2>1 DEF SocketInv, sock
  <2>4. QED BY <2>2, <2>3
<1>4. ASSUME NEW up \in BOOLEAN, Dialed(c, up)
      PROVE  GuestInv'
  <2>1. CASE up = TRUE
    BY <1>3, <1>4, <2>1 DEF Dialed
  <2>2. CASE up = FALSE
    BY <1>3, <1>4, <2>2 DEF Dialed
  <2>3. QED BY <2>1, <2>2
<1>5. CASE HandshakeFailed(c)
  BY <1>3, <1>5 DEF HandshakeFailed
<1>6. CASE Tunneled(c)
  <2>1. /\ InFlight(c) /\ calls' = [calls EXCEPT ![c] = "ok"] /\ "ok" \in Stands
        /\ state' = "tunnel" /\ tunnel' = c /\ tun' = [R EXCEPT ![c] = NewTunnel]
        /\ UNCHANGED native
    BY <1>6 DEF Tunneled, Stands, R
  <2>2. /\ calls' \in Seq(Stands) /\ c \in DOMAIN calls' /\ calls'[c] = "ok"
        /\ DOMAIN calls' = DOMAIN calls /\ calls[c] # "cancelled"
        /\ \A d \in DOMAIN calls : d # c => calls'[d] = calls[d]
    BY <1>6, <2>1, CallMoves DEF Tunneled
  <2>3. NewTunnel \in TunnelRecord
    BY EmptySeq DEF NewTunnel, NoTunnel, TunnelRecord
  <2>4. PipeOK(NewTunnel) /\ StreamOK(NewTunnel)
    <3>1. <<>> \o <<>> = <<>>
      BY EmptySeq, ConcatEmptySeq
    <3>2. QED BY <3>1 DEF NewTunnel, NoTunnel, PipeOK, StreamOK
  <2>5. /\ tun' \in [Calls -> TunnelRecord] /\ tun'[c] = NewTunnel
        /\ \A d \in Calls : d # c => tun'[d] = R[d]
    BY <1>1, <2>1, <2>3
  <2>6. c # 0 /\ c \in 0..MaxCalls
    BY TunnelAssumption DEF Calls
  <2>7. TypeOK'
    BY <2>1, <2>2, <2>5, <2>6 DEF TypeOK
  <2>8. SocketInv'
    BY <2>1, <2>2, <2>6 DEF SocketInv
  <2>9. TunnelsInv'
    BY <1>1, <2>4, <2>5, Zenon DEF TunnelsInv
  <2>10. QED BY <2>7, <2>8, <2>9
<1>7. QED BY <1>2, <1>4, <1>5, <1>6 DEF ConnectMoves

\* A connect is cancelled.
LEMMA CancelStep ==
  ASSUME GuestInv, NEW c \in Calls, Cancelled(c)
  PROVE  GuestInv'
<1> USE DEF GuestInv
<1>1. /\ InFlight(c) /\ calls' = [calls EXCEPT ![c] = "cancelled"]
      /\ UNCHANGED <<state, tunnel, tun>>
      /\ native' = IF calls[c] = "plain" THEN "gone" ELSE native
  BY DEF Cancelled
<1>2. /\ calls' \in Seq(Stands) /\ DOMAIN calls' = DOMAIN calls /\ c \in DOMAIN calls
      /\ calls'[c] = "cancelled" /\ calls[c] # "ok"
      /\ \A d \in DOMAIN calls : d # c => calls'[d] = calls[d]
  <2>1. "cancelled" \in Stands
    BY DEF Stands
  <2>2. QED BY <1>1, <2>1, CallMoves
<1>3. TypeOK' /\ TunnelsInv'
  BY <1>1, <1>2 DEF TypeOK, TunnelsInv
<1>4. SocketInv'
  <2>1. CASE calls[c] = "plain"
    BY <1>1, <1>2, <2>1 DEF SocketInv
  <2>2. CASE calls[c] # "plain"
    BY <1>1, <1>2, <2>2 DEF SocketInv
  <2>3. QED BY <2>1, <2>2
<1>5. QED BY <1>3, <1>4

\* The socket is dropped.
LEMMA DropStep ==
  ASSUME GuestInv, DropSocket
  PROVE  GuestInv'
<1> USE DEF GuestInv
<1> DEFINE R == Released
<1>1. R \in [Calls -> TunnelRecord] /\ \A d \in Calls : PipeOK(R[d]) /\ StreamOK(R[d])
  BY ReleasedKeeps
<1>2. state' = "dropped" /\ tunnel' = 0 /\ tun' = R /\ UNCHANGED <<native, calls>>
  BY DEF DropSocket
<1> HIDE DEF R
<1>3. TypeOK'
  BY <1>1, <1>2, TunnelAssumption DEF TypeOK
<1>4. SocketInv' /\ TunnelsInv'
  BY <1>1, <1>2 DEF SocketInv, TunnelsInv
<1>5. QED BY <1>3, <1>4

-----------------------------------------------------------------------------
(* Theorems *)

\* The virtualizer's socket keeps its inductive invariant
\* (rust/tls-virt-guest/src/lib.rs).
THEOREM GuestInvCorrect == Spec => []GuestInv
<1>1. Init => GuestInv
  <2> SUFFICES ASSUME Init PROVE GuestInv
    OBVIOUS
  <2>1. NoTunnel \in TunnelRecord
    BY EmptySeq DEF NoTunnel, TunnelRecord
  <2>2. PipeOK(NoTunnel) /\ StreamOK(NoTunnel)
    <3>1. <<>> \o <<>> = <<>>
      BY EmptySeq, ConcatEmptySeq
    <3>2. QED BY <3>1 DEF NoTunnel, PipeOK, StreamOK
  <2>3. TypeOK
    BY <2>1, EmptySeq, TunnelAssumption DEF Init, TypeOK
  <2>4. SocketInv /\ TunnelsInv
    BY <2>2 DEF Init, SocketInv, TunnelsInv
  <2>5. QED BY <2>3, <2>4 DEF GuestInv
<1>2. GuestInv /\ [Next]_vars => GuestInv'
  <2> SUFFICES ASSUME GuestInv, [Next]_vars PROVE GuestInv'
    OBVIOUS
  <2>1. CASE ConnectPlain \/ ConnectHandle
    BY <2>1, ConnectBegins
  <2>2. CASE Send \/ Receive
    BY <2>2, TakeStep
  <2>3. CASE DropSocket
    BY <2>3, DropStep
  <2>4. ASSUME NEW c \in Calls, ConnectMoves(c) \/ Cancelled(c) PROVE GuestInv'
    BY <2>4, ConnectMovesStep, CancelStep
  <2>5. ASSUME NEW c \in Calls, AppWrite(c) \/ AppClose(c) PROVE GuestInv'
    BY <2>5, AppStep
  <2>6. ASSUME NEW c \in Calls, Splice(c) PROVE GuestInv'
    BY <2>6, SpliceStep
  <2>7. ASSUME NEW c \in Calls, PumpRead(c) \/ PumpEof(c) \/ PumpFails(c) PROVE GuestInv'
    BY <2>7, PumpStep
  <2>8. CASE UNCHANGED vars
    BY <2>8 DEF vars, sock, GuestInv, TypeOK, SocketInv, TunnelsInv
  <2>9. QED BY <2>1, <2>2, <2>3, <2>4, <2>5, <2>6, <2>7, <2>8 DEF Next
<1>3. QED BY <1>1, <1>2, PTL DEF Spec

\* The exported socket is busy only under a connect to an ordinary address or
\* after one that was cancelled at its await and took the host socket with it,
\* and a tunnel in it is one whose connect returned ok (VTcp in
\* rust/tls-virt-guest/src/lib.rs).
THEOREM SocketAlwaysAnswers == Spec => []SocketAnswers
<1>1. GuestInv => SocketAnswers
  BY DEF GuestInv, SocketInv, SocketAnswers
<1>2. QED BY <1>1, GuestInvCorrect, PTL

\* What the application wrote is spliced once and in order, and a send verdict
\* ok means that the connector read all of it and the end the application put
\* there (connect's splice task in rust/tls-virt-guest/src/lib.rs).
THEOREM SendVerdictIsEarned == Spec => []SendVerdictEarned
<1>1. GuestInv => SendVerdictEarned
  BY DEF GuestInv, TunnelsInv, PipeOK, SendVerdictEarned
<1>2. QED BY <1>1, GuestInvCorrect, PTL

=============================================================================
