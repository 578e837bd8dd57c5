--------------------------- MODULE P3TunnelProofs ---------------------------
(***************************************************************************)
(* Theorems about P3Tunnel, for any names, addresses and answers, and any  *)
(* number of connects, buffered units and units sent.                      *)
(***************************************************************************)
EXTENDS P3Tunnel, SequenceTheorems, WellFoundedInduction, TLAPS

-----------------------------------------------------------------------------
(* The inductive invariant *)

CallRecord ==
  [pc : {"check", "dial", "tls", "ok", "err"}, remote : HandleSpace, name : Names,
   addr : RealAddrs]

SendRecord ==
  [half : {"none", "map", "consumer", "shutdown", "gone"}, open : BOOLEAN,
   src : Seq(Nat), took : Seq(Nat), unsent : Seq(Nat), wire : Seq(Nat),
   result : {"none", "held", "taken"}, verdict : {"pending", "ok", "err"}]

ReceiveRecord ==
  [half : {"none", "map", "producer", "gone"}, inq : Seq(Nat), sent : Nat,
   ending : {"none", "notify", "cut"}, got : Seq(Nat),
   verdict : {"pending", "ok", "connection-reset", "never"}]

TypeOK ==
  /\ alive \in BOOLEAN /\ entry \in Nat
  /\ calls \in Seq(CallRecord) /\ Len(calls) <= MaxCalls
  /\ snd \in [Calls -> SendRecord]
  /\ rcv \in [Calls -> ReceiveRecord]

\* A handle stands for a name and at least one address.
TableInv ==
  /\ DOMAIN table \subseteq HandleSpace
  /\ \A h \in DOMAIN table : table[h] \in Entry /\ table[h].addrs # <<>>

\* A call dials what its handle stands for, once it was allowed, and the socket
\* is not dropped under it.
CallInv ==
  \A c \in DOMAIN calls :
    /\ calls[c].remote \in DOMAIN table
    /\ calls[c].name = table[calls[c].remote].hostname
    /\ calls[c].addr = PickAddr(table[calls[c].remote].addrs)
    /\ calls[c].pc \in {"dial", "tls", "ok"} => c \in approved
    /\ calls[c].pc \in {"check", "dial", "tls"} => alive = TRUE

\* The side map's entry is a connection of a live socket, and a call that has
\* not connected has no halves.
EntryInv ==
  /\ entry # 0 => alive = TRUE /\ Pc(entry, "ok")
  /\ \A c \in Calls : ~Pc(c, "ok") => snd[c].half = "none" /\ rcv[c].half = "none"

\* A send half: nothing has moved before send, the consumer holds the verdict's
\* sender, what was taken is on the wire or with rustls, and a half that is
\* gone after send has left its verdict.
SendOK(s) ==
  /\ s.half \in {"none", "map"} =>
       /\ s.result = "none" /\ s.open = FALSE /\ s.src = <<>>
       /\ s.took = <<>> /\ s.unsent = <<>> /\ s.wire = <<>>
  /\ s.half = "consumer" <=> s.result = "held"
  /\ s.half # "gone" => s.verdict = "pending" /\ s.wire \o s.unsent = s.took
  /\ s.half = "gone" /\ s.result # "none" => s.verdict # "pending"
  /\ s.verdict = "ok" => s.wire = Append(s.took, Close)

\* A receive half: what was given and what waits is what the peer sent, and a
\* producer that is gone has left its verdict.
ReceiveOK(r) ==
  /\ r.half \in {"none", "map"} => r.got = <<>>
  /\ r.half # "gone" => r.verdict = "pending"
  /\ r.half = "gone" /\ r.got # <<>> => r.verdict # "pending"
  /\ r.got \o r.inq = [i \in 1..r.sent |-> i]
  /\ r.verdict = "ok" => r.ending = "notify" /\ r.inq = <<>>

HalvesInv == \A c \in Calls : SendOK(snd[c]) /\ ReceiveOK(rcv[c])

TunnelInv == TypeOK /\ TableInv /\ CallInv /\ EntryInv /\ HalvesInv

-----------------------------------------------------------------------------
(* Operators *)

\* A non-empty set of natural numbers has a least member.
LEMMA LeastIndex ==
  ASSUME NEW S \in SUBSET Nat, S # {}
  PROVE  \E i \in S : \A j \in S : i <= j
<1>1. IsWellFoundedOn(OpToRel(<, Nat), Nat)
  BY NatLessThanWellFounded
<1>2. PICK x \in S : \A y \in S : ~(<<y, x>> \in OpToRel(<, Nat))
  BY <1>1, WFMin, Zenon
<1>3. ASSUME NEW y \in S PROVE x <= y
  <2>1. ~(y < x)
    BY <1>2 DEF OpToRel
  <2>2. QED BY <2>1
<1>4. QED BY <1>3

\* pick_addr answers with one of the addresses, an IPv6 one if there is one
\* (rust/tls-virt-common/src/lib.rs).
LEMMA PickAddrBest ==
  ASSUME NEW addrs \in Seq(RealAddrs), addrs # <<>>
  PROVE  /\ PickAddr(addrs) \in RealAddrs
         /\ PickAddr(addrs) \in {addrs[i] : i \in DOMAIN addrs}
         /\ {addrs[i] : i \in DOMAIN addrs} \cap V6Addrs # {} => PickAddr(addrs) \in V6Addrs
<1> DEFINE six == {i \in DOMAIN addrs : addrs[i] \in V6Addrs}
           first == CHOOSE i \in six : \A j \in six : i <= j
<1>1. DOMAIN addrs = 1..Len(addrs) /\ Len(addrs) \in Nat \ {0}
  BY EmptySeq, LenProperties
<1>2. \A i \in DOMAIN addrs : addrs[i] \in RealAddrs
  BY <1>1, ElementOfSeq
<1>3. CASE six = {}
  <2>1. PickAddr(addrs) = addrs[1]
    BY <1>3, Zenon DEF PickAddr
  <2>2. QED BY <1>1, <1>2, <1>3, <2>1
<1>4. CASE six # {}
  <2>1. six \in SUBSET Nat
    BY <1>1
  <2>2. \E i \in six : \A j \in six : i <= j
    BY <1>4, <2>1, LeastIndex
  <2>3. first \in six
    BY <2>2
  <2>4. PickAddr(addrs) = addrs[first]
    BY <1>4, Zenon DEF PickAddr
  <2>5. QED BY <1>2, <2>3, <2>4
<1>5. QED BY <1>3, <1>4

\* Concatenation of units is associative.
LEMMA UnitsAssoc ==
  ASSUME NEW s \in Seq(Nat), NEW t \in Seq(Nat), NEW u \in Seq(Nat)
  PROVE  (s \o t) \o u = s \o (t \o u)
BY ConcatAssociative

\* Taking a prefix of one sequence to the end of another leaves their
\* concatenation as it was (a partial write, a partial read).
LEMMA MovePrefix ==
  ASSUME NEW s \in Seq(Nat), NEW t \in Seq(Nat), NEW k \in 0..Len(t)
  PROVE  /\ s \o SubSeq(t, 1, k) \in Seq(Nat) /\ SubSeq(t, k + 1, Len(t)) \in Seq(Nat)
         /\ (s \o SubSeq(t, 1, k)) \o SubSeq(t, k + 1, Len(t)) = s \o t
<1> DEFINE p == SubSeq(t, 1, k)
           q == SubSeq(t, k + 1, Len(t))
<1>1. Len(t) \in Nat /\ \A i \in 1..Len(t) : t[i] \in Nat
  BY LenProperties, ElementOfSeq
<1>2. p \in Seq(Nat) /\ q \in Seq(Nat)
  BY <1>1, SubSeqProperties
<1>3. p \o q = t
  <2>1. 1 \in 1..(Len(t) + 1) /\ k \in (1 - 1)..Len(t) /\ Len(t) \in k..Len(t)
    BY <1>1
  <2>2. p \o q = SubSeq(t, 1, Len(t))
    BY <2>1, ConcatAdjacentSubSeq
  <2>3. QED BY <2>2, SubSeqFull
<1> HIDE DEF p, q
<1>4. s \o p \in Seq(Nat) /\ (s \o p) \o q = s \o (p \o q)
  <2>1. s \o p \in Seq(Nat)
    BY <1>2, ConcatProperties
  <2>2. (s \o p) \o q = s \o (p \o q)
    BY <1>2, UnitsAssoc
  <2>3. QED BY <2>1, <2>2
<1>5. QED BY <1>2, <1>3, <1>4 DEF p, q

\* The units 1 to n, with the next one.
LEMMA NextUnit ==
  ASSUME NEW n \in Nat, NEW s \in Seq(Nat), NEW t \in Seq(Nat), s \o t = [i \in 1..n |-> i]
  PROVE  s \o Append(t, n + 1) = [i \in 1..(n + 1) |-> i]
<1> DEFINE all == s \o t
<1>1. n + 1 \in Nat /\ <<n + 1>> \in Seq(Nat)
  OBVIOUS
<1>2. Append(t, n + 1) = t \o <<n + 1>> /\ Append(all, n + 1) = all \o <<n + 1>>
      /\ all \in Seq(Nat)
  BY <1>1, AppendIsConcat, ConcatProperties
<1>3. s \o (t \o <<n + 1>>) = (s \o t) \o <<n + 1>>
  <2> DEFINE e == <<n + 1>>
  <2>1. e \in Seq(Nat)
    BY <1>1
  <2> HIDE DEF e
  <2>2. (s \o t) \o e = s \o (t \o e)
    BY <2>1, UnitsAssoc
  <2>3. QED BY <2>2 DEF e
<1>4. s \o Append(t, n + 1) = Append(all, n + 1)
  BY <1>2, <1>3
<1>5. Append([i \in 1..n |-> i], n + 1) = [i \in 1..(n + 1) |-> i]
  <2> DEFINE u == [i \in 1..n |-> i]
             v == [i \in 1..(n + 1) |-> i]
  <2>1. u \in Seq(Nat) /\ Len(u) = n /\ v \in Seq(Nat) /\ Len(v) = n + 1
    OBVIOUS
  <2>2. \A i \in 1..n : u[i] = i
    OBVIOUS
  <2>3. \A i \in 1..(n + 1) : v[i] = i
    OBVIOUS
  <2> HIDE DEF u, v
  <2>4. /\ Append(u, n + 1) \in Seq(Nat) /\ Len(Append(u, n + 1)) = n + 1
        /\ \A i \in 1..n : Append(u, n + 1)[i] = u[i]
        /\ Append(u, n + 1)[n + 1] = n + 1
    BY <1>1, <2>1, AppendProperties
  <2>5. \A i \in 1..(n + 1) : Append(u, n + 1)[i] = v[i]
    BY <2>2, <2>3, <2>4
  <2>6. Append(u, n + 1) = v
    BY <2>1, <2>4, <2>5, SeqEqual
  <2>7. QED BY <2>6 DEF u, v
<1>6. QED BY <1>4, <1>5

\* A poll passes on what was taken, and loses or repeats nothing.
LEMMA PassKeeps ==
  ASSUME NEW s \in SendRecord, NEW n \in Nat, NEW k \in Nat,
         n <= Len(s.src), k <= Len(s.unsent) + n, s.wire \o s.unsent = s.took
  PROVE  /\ Pass(s, n, k) \in SendRecord
         /\ Pass(s, n, k).half = s.half /\ Pass(s, n, k).result = s.result
         /\ Pass(s, n, k).verdict = s.verdict
         /\ Pass(s, n, k).wire \o Pass(s, n, k).unsent = Pass(s, n, k).took
<1> DEFINE x == SubSeq(s.src, 1, n)
           rest == SubSeq(s.src, n + 1, Len(s.src))
           out == s.unsent \o x
           w == s.wire \o SubSeq(out, 1, k)
           u == SubSeq(out, k + 1, Len(out))
           t == s.took \o x
           p == [s EXCEPT !.src = rest, !.took = t, !.wire = w, !.unsent = u]
<1>1. /\ s.src \in Seq(Nat) /\ s.took \in Seq(Nat) /\ s.unsent \in Seq(Nat) /\ s.wire \in Seq(Nat)
  BY DEF SendRecord
<1>2. n \in 0..Len(s.src) /\ Len(s.src) \in Nat /\ Len(s.unsent) \in Nat
  BY <1>1, LenProperties
<1>3. x \in Seq(Nat) /\ Len(x) = n /\ rest \in Seq(Nat)
  <2>1. \A i \in 1..Len(s.src) : s.src[i] \in Nat
    BY <1>1, ElementOfSeq
  <2>2. QED BY <1>2, <2>1, SubSeqProperties
<1> HIDE DEF x, rest
<1>4. out \in Seq(Nat) /\ Len(out) = Len(s.unsent) + n /\ t \in Seq(Nat)
  BY <1>1, <1>3, ConcatProperties
<1>5. k \in 0..Len(out)
  BY <1>2, <1>4
<1> HIDE DEF out
<1>6. w \in Seq(Nat) /\ u \in Seq(Nat) /\ w \o u = s.wire \o out
  <2> DEFINE wire == s.wire
  <2>1. wire \in Seq(Nat)
    BY <1>1
  <2> HIDE DEF wire
  <2>2. /\ wire \o SubSeq(out, 1, k) \in Seq(Nat) /\ u \in Seq(Nat)
        /\ (wire \o SubSeq(out, 1, k)) \o u = wire \o out
    BY <1>4, <1>5, <2>1, MovePrefix
  <2>3. QED BY <2>2 DEF wire
<1>7. s.wire \o out = t
  <2> DEFINE wire == s.wire
             unsent == s.unsent
  <2>1. wire \in Seq(Nat) /\ unsent \in Seq(Nat)
    BY <1>1
  <2> HIDE DEF wire, unsent
  <2>2. (wire \o unsent) \o x = wire \o (unsent \o x)
    BY <1>3, <2>1, ConcatAssociative
  <2>3. s.wire \o (s.unsent \o x) = (s.wire \o s.unsent) \o x
    BY <2>2 DEF wire, unsent
  <2>4. QED BY <2>3 DEF out
<1>8. Pass(s, n, k) = p
  BY DEF Pass, x, rest, out
<1> HIDE DEF w, u, t
<1>9. /\ p \in SendRecord /\ p.half = s.half /\ p.result = s.result /\ p.verdict = s.verdict
      /\ p.wire = w /\ p.unsent = u /\ p.took = t
  BY <1>3, <1>4, <1>6 DEF SendRecord
<1>10. QED BY <1>6, <1>7, <1>8, <1>9

-----------------------------------------------------------------------------
(* The steps of the send direction *)

\* A step of one connected send half that leaves it in order keeps the whole
\* invariant.
LEMMA SendMoves ==
  ASSUME TunnelInv, NEW c \in Calls, NEW s \in SendRecord, SendOK(s),
         snd[c].half # "none", snd' = [snd EXCEPT ![c] = s], UNCHANGED <<provider, rcv>>
  PROVE  TunnelInv'
<1> USE DEF TunnelInv
<1>1. /\ snd \in [Calls -> SendRecord] /\ snd' \in [Calls -> SendRecord]
      /\ snd'[c] = s /\ \A d \in Calls : d # c => snd'[d] = snd[d]
  BY DEF TypeOK
<1>2. TypeOK' /\ TableInv' /\ CallInv'
  BY <1>1 DEF TypeOK, TableInv, CallInv, provider
<1>3. EntryInv'
  BY <1>1 DEF EntryInv, Pc, provider
<1>4. HalvesInv'
  <2>1. \A d \in Calls : SendOK(snd'[d])
    BY <1>1, Zenon DEF HalvesInv
  <2>2. \A d \in Calls : ReceiveOK(rcv'[d])
    BY DEF HalvesInv
  <2>3. QED BY <2>1, <2>2 DEF HalvesInv
<1>5. QED BY <1>2, <1>3, <1>4

\* send takes the half out of the side map.
LEMMA SendStep ==
  ASSUME TunnelInv, Send
  PROVE  TunnelInv'
<1> DEFINE s == [snd[entry] EXCEPT !.half = "consumer", !.open = TRUE, !.result = "held"]
<1>1. entry \in Calls
  <2>1. entry \in DOMAIN calls /\ calls \in Seq(CallRecord) /\ Len(calls) <= MaxCalls
    BY DEF Send, TunnelInv, TypeOK, EntryInv, Pc
  <2>2. entry \in 1..Len(calls) /\ Len(calls) \in Nat
    BY <2>1, LenProperties
  <2>3. QED BY <2>1, <2>2, ProviderAssumption DEF Calls
<1>2. snd[entry] \in SendRecord /\ SendOK(snd[entry]) /\ snd[entry].half = "map"
  BY <1>1 DEF Send, TunnelInv, TypeOK, HalvesInv
<1>3. s \in SendRecord
  BY <1>2 DEF SendRecord
<1>4. SendOK(s)
  BY <1>2 DEF SendOK, SendRecord
<1>5. snd' = [snd EXCEPT ![entry] = s] /\ UNCHANGED <<provider, rcv>>
  BY <1>1 DEF Send, TunnelInv, TypeOK
<1> HIDE DEF s
<1>6. QED BY <1>1, <1>2, <1>3, <1>4, <1>5, SendMoves

\* The guest writes, or closes its end.
LEMMA GuestSends ==
  ASSUME TunnelInv, NEW c \in Calls, GuestWrite(c) \/ GuestClose(c)
  PROVE  TunnelInv'
<1>1. snd[c] \in SendRecord /\ SendOK(snd[c]) /\ snd[c].open = TRUE
  BY DEF GuestWrite, GuestClose, TunnelInv, TypeOK, HalvesInv, SendRecord
<1>2. snd[c].half \notin {"none", "map"}
  BY <1>1 DEF SendOK
<1>3. CASE GuestWrite(c)
  <2> DEFINE s == [snd[c] EXCEPT !.src = Append(@, Len(snd[c].took \o @) + 1)]
  <2>1. s \in SendRecord
    <3>1. snd[c].took \in Seq(Nat) /\ snd[c].src \in Seq(Nat)
      BY <1>1 DEF SendRecord
    <3> DEFINE n == Len(snd[c].took \o snd[c].src) + 1
    <3>2. snd[c].took \o snd[c].src \in Seq(Nat)
      BY <3>1, ConcatProperties
    <3>3. n \in Nat
      <4> DEFINE all == snd[c].took \o snd[c].src
      <4>1. all \in Seq(Nat)
        BY <3>2
      <4> HIDE DEF all
      <4>2. Len(all) + 1 \in Nat
        BY <4>1, LenProperties
      <4>3. QED BY <4>2 DEF all
    <3>4. s = [snd[c] EXCEPT !.src = Append(snd[c].src, n)]
      BY <1>1 DEF SendRecord
    <3> HIDE DEF n
    <3>5. Append(snd[c].src, n) \in Seq(Nat)
      BY <3>1, <3>3, AppendProperties
    <3>6. QED BY <1>1, <3>4, <3>5 DEF SendRecord
  <2>2. SendOK(s)
    BY <1>1, <1>2 DEF SendOK, SendRecord
  <2>3. snd' = [snd EXCEPT ![c] = s] /\ UNCHANGED <<provider, rcv>>
    BY <1>3 DEF GuestWrite, TunnelInv, TypeOK
  <2> HIDE DEF s
  <2>4. QED BY <1>2, <2>1, <2>2, <2>3, SendMoves
<1>4. CASE GuestClose(c)
  <2> DEFINE s == [snd[c] EXCEPT !.open = FALSE, !.src = <<>>]
  <2>1. s \in SendRecord
    BY <1>1, EmptySeq DEF SendRecord
  <2>2. SendOK(s)
    BY <1>1, <1>2 DEF SendOK, SendRecord
  <2>3. snd' = [snd EXCEPT ![c] = s] /\ UNCHANGED <<provider, rcv>>
    BY <1>4 DEF GuestClose, TunnelInv, TypeOK
  <2> HIDE DEF s
  <2>4. QED BY <1>2, <2>1, <2>2, <2>3, SendMoves
<1>5. QED BY <1>3, <1>4

\* poll_consume takes part of a write, or closes with its error.
LEMMA ConsumeStep ==
  ASSUME TunnelInv, NEW c \in Calls, Consume(c)
  PROVE  TunnelInv'
<1>1. snd[c] \in SendRecord /\ SendOK(snd[c])
  BY DEF TunnelInv, TypeOK, HalvesInv
<1>2. MaxSend \in Nat
  BY ProviderAssumption
<1>3. ASSUME NEW n \in 0..MaxSend, NEW k \in 0..MaxSend, PollConsume(c, n, k)
      PROVE  TunnelInv'
  <2> DEFINE s == Pass(snd[c], n, k)
  <2>1. /\ n \in Nat /\ k \in Nat /\ n <= Len(snd[c].src) /\ k <= Len(snd[c].unsent) + n
        /\ snd[c].half = "consumer"
    BY <1>2, <1>3 DEF PollConsume
  <2>2. snd[c].wire \o snd[c].unsent = snd[c].took
    BY <1>1, <2>1 DEF SendOK
  <2>3. /\ s \in SendRecord /\ s.half = snd[c].half /\ s.result = snd[c].result
        /\ s.verdict = snd[c].verdict /\ s.wire \o s.unsent = s.took
    BY <1>1, <2>1, <2>2, PassKeeps
  <2>4. snd' = [snd EXCEPT ![c] = s] /\ UNCHANGED <<provider, rcv>>
    BY <1>3 DEF PollConsume, TunnelInv, TypeOK
  <2> HIDE DEF s
  <2>5. SendOK(s)
    BY <1>1, <2>1, <2>3 DEF SendOK
  <2>6. QED BY <2>1, <2>3, <2>4, <2>5, SendMoves
<1>4. CASE PollConsumeFails(c)
  <2> DEFINE s == [snd[c] EXCEPT !.half = "gone", !.result = "taken", !.verdict = "err",
                                 !.src = <<>>]
  <2>1. s \in SendRecord
    BY <1>1, EmptySeq DEF SendRecord
  <2>2. SendOK(s)
    BY <1>1 DEF SendOK, SendRecord
  <2>3. snd' = [snd EXCEPT ![c] = s] /\ UNCHANGED <<provider, rcv>> /\ snd[c].half # "none"
    BY <1>4 DEF PollConsumeFails, TunnelInv, TypeOK
  <2> HIDE DEF s
  <2>4. QED BY <2>1, <2>2, <2>3, SendMoves
<1>5. QED BY <1>3, <1>4 DEF Consume

\* The consumer is dropped when the guest's stream has ended, and the shutdown
\* runs on without it.
LEMMA ClosingStep ==
  ASSUME TunnelInv, NEW c \in Calls, ConsumerDrop(c) \/ Shutdown(c)
  PROVE  TunnelInv'
<1>1. snd[c] \in SendRecord /\ SendOK(snd[c])
  BY DEF TunnelInv, TypeOK, HalvesInv
<1>2. CASE ConsumerDrop(c)
  <2> DEFINE s == [snd[c] EXCEPT !.half = "shutdown", !.result = "taken"]
  <2>1. s \in SendRecord
    BY <1>1 DEF SendRecord
  <2>2. snd[c].half = "consumer"
    BY <1>1, <1>2 DEF ConsumerDrop, SendOK
  <2>3. SendOK(s)
    BY <1>1, <2>2 DEF SendOK, SendRecord
  <2>4. snd' = [snd EXCEPT ![c] = s] /\ UNCHANGED <<provider, rcv>>
    BY <1>2 DEF ConsumerDrop, TunnelInv, TypeOK
  <2> HIDE DEF s
  <2>5. QED BY <2>1, <2>2, <2>3, <2>4, SendMoves
<1>3. ASSUME NEW k \in 1..MaxSend, ShutdownDrains(c, k)
      PROVE  TunnelInv'
  <2> DEFINE s == Pass(snd[c], 0, k)
  <2>1. 0 \in Nat /\ k \in Nat /\ snd[c].half = "shutdown"
    BY <1>3, ProviderAssumption DEF ShutdownDrains
  <2>2. snd[c].src \in Seq(Nat) /\ snd[c].unsent \in Seq(Nat)
    BY <1>1 DEF SendRecord
  <2>3. 0 <= Len(snd[c].src) /\ k <= Len(snd[c].unsent) + 0
    BY <1>3, <2>2, LenProperties DEF ShutdownDrains
  <2>4. snd[c].wire \o snd[c].unsent = snd[c].took
    BY <1>1, <2>1 DEF SendOK
  <2>5. /\ s \in SendRecord /\ s.half = snd[c].half /\ s.result = snd[c].result
        /\ s.verdict = snd[c].verdict /\ s.wire \o s.unsent = s.took
    BY <1>1, <2>1, <2>3, <2>4, PassKeeps
  <2>6. snd' = [snd EXCEPT ![c] = s] /\ UNCHANGED <<provider, rcv>>
    BY <1>3 DEF ShutdownDrains, TunnelInv, TypeOK
  <2> HIDE DEF s
  <2>7. SendOK(s)
    BY <1>1, <2>1, <2>5 DEF SendOK
  <2>8. QED BY <2>1, <2>5, <2>6, <2>7, SendMoves
<1>4. CASE ShutdownDone(c)
  <2> DEFINE s == [snd[c] EXCEPT !.half = "gone", !.wire = Append(@, Close), !.verdict = "ok"]
  <2>1. snd[c].wire \in Seq(Nat) /\ snd[c].took \in Seq(Nat) /\ Close \in Nat
    BY <1>1 DEF SendRecord, Close
  <2>2. s \in SendRecord
    <3>1. Append(snd[c].wire, Close) \in Seq(Nat)
      BY <2>1, AppendProperties
    <3>2. QED BY <1>1, <3>1 DEF SendRecord
  <2>3. snd[c].wire = snd[c].took
    <3>1. snd[c].wire \o <<>> = snd[c].took
      BY <1>1, <1>4 DEF ShutdownDone, SendOK
    <3>2. snd[c].wire \o <<>> = snd[c].wire
      BY <2>1, ConcatEmptySeq
    <3>3. QED BY <3>1, <3>2
  <2>4. SendOK(s)
    BY <1>1, <1>4, <2>3 DEF ShutdownDone, SendOK, SendRecord
  <2>5. snd' = [snd EXCEPT ![c] = s] /\ UNCHANGED <<provider, rcv>> /\ snd[c].half # "none"
    BY <1>4 DEF ShutdownDone, TunnelInv, TypeOK
  <2> HIDE DEF s
  <2>6. QED BY <2>2, <2>4, <2>5, SendMoves
<1>5. CASE ShutdownFails(c)
  <2> DEFINE s == [snd[c] EXCEPT !.half = "gone", !.verdict = "err"]
  <2>1. s \in SendRecord
    BY <1>1 DEF SendRecord
  <2>2. SendOK(s)
    BY <1>1, <1>5 DEF ShutdownFails, SendOK, SendRecord
  <2>3. snd' = [snd EXCEPT ![c] = s] /\ UNCHANGED <<provider, rcv>> /\ snd[c].half # "none"
    BY <1>5 DEF ShutdownFails, TunnelInv, TypeOK
  <2> HIDE DEF s
  <2>4. QED BY <2>1, <2>2, <2>3, SendMoves
<1>6. QED BY <1>2, <1>3, <1>4, <1>5 DEF Shutdown

-----------------------------------------------------------------------------
(* The steps of the receive direction *)

\* A step of one connected receive half that leaves it in order keeps the whole
\* invariant.
LEMMA ReceiveMoves ==
  ASSUME TunnelInv, NEW c \in Calls, NEW r \in ReceiveRecord, ReceiveOK(r),
         rcv[c].half # "none", rcv' = [rcv EXCEPT ![c] = r], UNCHANGED <<provider, snd>>
  PROVE  TunnelInv'
<1> USE DEF TunnelInv
<1>1. /\ rcv \in [Calls -> ReceiveRecord] /\ rcv' \in [Calls -> ReceiveRecord]
      /\ rcv'[c] = r /\ \A d \in Calls : d # c => rcv'[d] = rcv[d]
  BY DEF TypeOK
<1>2. TypeOK' /\ TableInv' /\ CallInv'
  BY <1>1 DEF TypeOK, TableInv, CallInv, provider
<1>3. EntryInv'
  BY <1>1 DEF EntryInv, Pc, provider
<1>4. HalvesInv'
  <2>1. \A d \in Calls : ReceiveOK(rcv'[d])
    BY <1>1, Zenon DEF HalvesInv
  <2>2. \A d \in Calls : SendOK(snd'[d])
    BY DEF HalvesInv
  <2>3. QED BY <2>1, <2>2 DEF HalvesInv
<1>5. QED BY <1>2, <1>3, <1>4

\* receive takes the half out of the side map.
LEMMA ReceiveStep ==
  ASSUME TunnelInv, Receive
  PROVE  TunnelInv'
<1> DEFINE r == [rcv[entry] EXCEPT !.half = "producer"]
<1>1. entry \in Calls
  <2>1. entry \in DOMAIN calls /\ calls \in Seq(CallRecord) /\ Len(calls) <= MaxCalls
    BY DEF Receive, TunnelInv, TypeOK, EntryInv, Pc
  <2>2. entry \in 1..Len(calls) /\ Len(calls) \in Nat
    BY <2>1, LenProperties
  <2>3. QED BY <2>1, <2>2, ProviderAssumption DEF Calls
<1>2. rcv[entry] \in ReceiveRecord /\ ReceiveOK(rcv[entry]) /\ rcv[entry].half = "map"
  BY <1>1 DEF Receive, TunnelInv, TypeOK, HalvesInv
<1>3. r \in ReceiveRecord
  BY <1>2 DEF ReceiveRecord
<1>4. ReceiveOK(r)
  BY <1>2 DEF ReceiveOK, ReceiveRecord
<1>5. rcv' = [rcv EXCEPT ![entry] = r] /\ UNCHANGED <<provider, snd>>
  BY <1>1 DEF Receive, TunnelInv, TypeOK
<1> HIDE DEF r
<1>6. QED BY <1>1, <1>2, <1>3, <1>4, <1>5, ReceiveMoves

\* The guest drops its stream, or the peer sends or ends.
LEMMA EndsStep ==
  ASSUME TunnelInv, NEW c \in Calls,
         \/ GuestDropsReceive(c) \/ PeerSends(c)
         \/ \E how \in {"notify", "cut"} : PeerEnds(c, how)
  PROVE  TunnelInv'
<1>1. rcv[c] \in ReceiveRecord /\ ReceiveOK(rcv[c])
  BY DEF TunnelInv, TypeOK, HalvesInv
<1>2. CASE GuestDropsReceive(c)
  <2> DEFINE r == [rcv[c] EXCEPT !.half = "gone", !.verdict = "never"]
  <2>1. r \in ReceiveRecord
    BY <1>1 DEF ReceiveRecord
  <2>2. ReceiveOK(r)
    BY <1>1 DEF ReceiveOK, ReceiveRecord
  <2>3. rcv' = [rcv EXCEPT ![c] = r] /\ UNCHANGED <<provider, snd>> /\ rcv[c].half # "none"
    BY <1>2 DEF GuestDropsReceive, TunnelInv, TypeOK
  <2> HIDE DEF r
  <2>4. QED BY <2>1, <2>2, <2>3, ReceiveMoves
<1>3. CASE PeerSends(c)
  <2> DEFINE n == rcv[c].sent
             got == rcv[c].got
             inq == rcv[c].inq
             r == [rcv[c] EXCEPT !.sent = n + 1, !.inq = Append(inq, n + 1)]
  <2>1. /\ n \in Nat /\ got \in Seq(Nat) /\ inq \in Seq(Nat) /\ got \o inq = [i \in 1..n |-> i]
        /\ rcv[c].half \notin {"none", "gone"}
    BY <1>1, <1>3 DEF ReceiveRecord, ReceiveOK, PeerSends
  <2>2. rcv' = [rcv EXCEPT ![c] = r] /\ UNCHANGED <<provider, snd>>
    BY <1>3 DEF PeerSends, TunnelInv, TypeOK
  <2> HIDE DEF n, got, inq
  <2>3. n + 1 \in Nat /\ Append(inq, n + 1) \in Seq(Nat)
    BY <2>1, AppendProperties
  <2>4. got \o Append(inq, n + 1) = [i \in 1..(n + 1) |-> i]
    BY <2>1, NextUnit
  <2>5. r \in ReceiveRecord
    BY <1>1, <2>3 DEF ReceiveRecord
  <2>6. /\ r.half = rcv[c].half /\ r.got = got /\ r.inq = Append(inq, n + 1) /\ r.sent = n + 1
        /\ r.verdict = rcv[c].verdict
    BY <1>1 DEF ReceiveRecord, got
  <2> HIDE DEF r
  <2>7. ReceiveOK(r)
    BY <1>1, <2>1, <2>4, <2>6 DEF ReceiveOK, got
  <2>8. QED BY <2>1, <2>2, <2>5, <2>7, ReceiveMoves
<1>4. ASSUME NEW how \in {"notify", "cut"}, PeerEnds(c, how)
      PROVE  TunnelInv'
  <2> DEFINE r == [rcv[c] EXCEPT !.ending = how]
  <2>1. r \in ReceiveRecord
    BY <1>1 DEF ReceiveRecord
  <2>2. ReceiveOK(r)
    BY <1>1, <1>4 DEF ReceiveOK, ReceiveRecord, PeerEnds
  <2>3. rcv' = [rcv EXCEPT ![c] = r] /\ UNCHANGED <<provider, snd>> /\ rcv[c].half # "none"
    BY <1>4 DEF PeerEnds, TunnelInv, TypeOK
  <2> HIDE DEF r
  <2>4. QED BY <2>1, <2>2, <2>3, ReceiveMoves
<1>5. QED BY <1>2, <1>3, <1>4

\* poll_produce gives the guest what a read returned, or the verdict.
LEMMA ProduceStep ==
  ASSUME TunnelInv, NEW c \in Calls, Produce(c)
  PROVE  TunnelInv'
<1>1. rcv[c] \in ReceiveRecord /\ ReceiveOK(rcv[c])
  BY DEF TunnelInv, TypeOK, HalvesInv
<1>2. ASSUME NEW n \in 1..MaxRecv, PollProduce(c, n)
      PROVE  TunnelInv'
  <2> DEFINE got == rcv[c].got
             inq == rcv[c].inq
             more == got \o SubSeq(inq, 1, n)
             rest == SubSeq(inq, n + 1, Len(inq))
             r == [rcv[c] EXCEPT !.got = more, !.inq = rest]
  <2>1. /\ got \in Seq(Nat) /\ inq \in Seq(Nat) /\ rcv[c].half = "producer"
        /\ n <= Len(inq) /\ n \in Nat
    BY <1>1, <1>2, ProviderAssumption DEF ReceiveRecord, PollProduce
  <2>2. rcv' = [rcv EXCEPT ![c] = r] /\ UNCHANGED <<provider, snd>>
    BY <1>2 DEF PollProduce, TunnelInv, TypeOK
  <2> HIDE DEF got, inq
  <2>3. n \in 0..Len(inq)
    BY <2>1, LenProperties
  <2>4. more \in Seq(Nat) /\ rest \in Seq(Nat) /\ more \o rest = got \o inq
    BY <2>1, <2>3, MovePrefix
  <2> HIDE DEF more, rest
  <2>5. r \in ReceiveRecord
    BY <1>1, <2>4 DEF ReceiveRecord
  <2>6. /\ r.half = rcv[c].half /\ r.got = more /\ r.inq = rest /\ r.sent = rcv[c].sent
        /\ r.verdict = rcv[c].verdict
    BY <1>1 DEF ReceiveRecord
  <2> HIDE DEF r
  <2>7. ReceiveOK(r)
    BY <1>1, <2>1, <2>4, <2>6 DEF ReceiveOK, got, inq
  <2>8. QED BY <2>1, <2>2, <2>5, <2>7, ReceiveMoves
<1>3. CASE ProduceEnd(c)
  <2> DEFINE v == IF rcv[c].ending = "notify" THEN "ok" ELSE "connection-reset"
             r == [rcv[c] EXCEPT !.half = "gone", !.verdict = v]
  <2>1. /\ rcv' = [rcv EXCEPT ![c] = r] /\ UNCHANGED <<provider, snd>>
        /\ rcv[c].half = "producer" /\ rcv[c].inq = <<>>
    BY <1>3 DEF ProduceEnd, TunnelInv, TypeOK
  <2>2. v \in {"ok", "connection-reset"} /\ (v = "ok" => rcv[c].ending = "notify")
    OBVIOUS
  <2> HIDE DEF v
  <2>3. r \in ReceiveRecord
    BY <1>1, <2>2 DEF ReceiveRecord
  <2>4. ReceiveOK(r)
    BY <1>1, <2>1, <2>2 DEF ReceiveOK, ReceiveRecord
  <2> HIDE DEF r
  <2>5. QED BY <2>1, <2>3, <2>4, ReceiveMoves
<1>4. QED BY <1>2, <1>3 DEF Produce

-----------------------------------------------------------------------------
(* The steps of the provider *)

\* A lookup mints a new handle and changes none (rust/tls-virt-common/src/lib.rs).
LEMMA ResolveStep ==
  ASSUME TunnelInv, NEW name \in Names, NEW addrs \in Answers, NEW h \in HandleSpace,
         ResolveAddresses(name, addrs, h)
  PROVE  TunnelInv'
<1> USE DEF TunnelInv
<1> DEFINE e == [hostname |-> name, addrs |-> addrs]
<1>1. e \in Entry /\ e.addrs # <<>>
  BY ProviderAssumption DEF Entry, ResolveAddresses
<1>2. /\ DOMAIN table' = DOMAIN table \cup {h} /\ table'[h] = e /\ h \notin DOMAIN table
      /\ \A x \in DOMAIN table : table'[x] = table[x]
  BY DEF ResolveAddresses, Mint, Fresh
<1> HIDE DEF e
<1>3. TableInv'
  BY <1>1, <1>2 DEF TableInv
<1>4. UNCHANGED <<alive, entry, calls, approved, snd, rcv>>
  BY DEF ResolveAddresses
<1>5. TypeOK' /\ EntryInv' /\ HalvesInv'
  BY <1>4 DEF TypeOK, EntryInv, Pc, HalvesInv
<1>6. CallInv'
  <2>1. \A c \in DOMAIN calls : calls[c].remote \in DOMAIN table'
                                /\ table'[calls[c].remote] = table[calls[c].remote]
    BY <1>2 DEF CallInv
  <2>2. QED BY <1>4, <2>1 DEF CallInv
<1>7. QED BY <1>3, <1>5, <1>6

\* connect dials what the handle stands for.
LEMMA ConnectStep ==
  ASSUME TunnelInv, NEW h \in HandleSpace, Connect(h)
  PROVE  TunnelInv'
<1> USE DEF TunnelInv
<1> DEFINE k == [pc |-> "check", remote |-> h, name |-> table[h].hostname,
                 addr |-> PickAddr(table[h].addrs)]
<1>1. h \in DOMAIN table /\ table[h] \in Entry /\ table[h].addrs # <<>>
  BY DEF Connect, IsHandle, TableInv
<1>2. PickAddr(table[h].addrs) \in RealAddrs
  <2>1. table[h].addrs \in Seq(RealAddrs)
    BY <1>1 DEF Entry
  <2>2. QED BY <1>1, <2>1, PickAddrBest
<1>3. k \in CallRecord
  BY <1>1, <1>2 DEF CallRecord, Entry
<1>4. /\ k.pc = "check" /\ k.remote = h /\ k.name = table[h].hostname
      /\ k.addr = PickAddr(table[h].addrs)
  OBVIOUS
<1>5. /\ calls' = Append(calls, k) /\ Len(calls) < MaxCalls /\ alive = TRUE
      /\ UNCHANGED <<table, alive, entry, approved, snd, rcv>>
  BY DEF Connect, TypeOK
<1> HIDE DEF k
<1>6. calls \in Seq(CallRecord)
  BY DEF TypeOK
<1>7. /\ calls' \in Seq(CallRecord) /\ Len(calls') = Len(calls) + 1
      /\ \A i \in 1..Len(calls) : calls'[i] = calls[i]
      /\ calls'[Len(calls) + 1] = k
  BY <1>3, <1>5, <1>6, AppendProperties
<1>8. /\ Len(calls) \in Nat /\ DOMAIN calls = 1..Len(calls) /\ DOMAIN calls' = 1..(Len(calls) + 1)
  BY <1>6, <1>7, LenProperties
<1>9. TypeOK'
  BY <1>5, <1>7, <1>8, ProviderAssumption DEF TypeOK
<1>10. TableInv' /\ HalvesInv'
  BY <1>5 DEF TableInv, HalvesInv
<1>11. CallInv'
  <2>1. ASSUME NEW c \in DOMAIN calls' PROVE c \in DOMAIN calls \/ c = Len(calls) + 1
    BY <1>8
  <2>2. \A c \in DOMAIN calls : calls'[c] = calls[c]
    BY <1>7, <1>8
  <2>3. QED BY <1>1, <1>4, <1>5, <1>7, <2>1, <2>2 DEF CallInv
<1>12. EntryInv'
  <2>1. ASSUME NEW c, Pc(c, "ok") PROVE Pc(c, "ok")'
    BY <1>7, <1>8, <2>1 DEF Pc
  <2>2. QED BY <1>5, <2>1 DEF EntryInv
<1>13. QED BY <1>9, <1>10, <1>11, <1>12

\* A connect that goes on, where it may go on to, changes only its own state.
LEMMA CallMoves ==
  ASSUME TunnelInv, NEW c, NEW pc \in {"dial", "tls", "ok", "err"},
         c \in DOMAIN calls, calls[c].pc \in {"check", "dial", "tls"}, Goes(c, pc),
         approved \subseteq approved', pc \in {"dial", "tls", "ok"} => c \in approved',
         UNCHANGED <<table, alive>>
  PROVE  /\ calls' \in Seq(CallRecord) /\ Len(calls') = Len(calls)
         /\ DOMAIN calls' = DOMAIN calls /\ calls'[c].pc = pc
         /\ \A d \in DOMAIN calls : d # c => calls'[d] = calls[d]
         /\ TableInv' /\ CallInv'
<1> USE DEF TunnelInv
<1> DEFINE k == [calls[c] EXCEPT !.pc = pc]
<1>1. calls \in Seq(CallRecord) /\ DOMAIN calls = 1..Len(calls) /\ Len(calls) \in Nat
  BY LenProperties DEF TypeOK
<1>2. calls[c] \in CallRecord
  BY <1>1, ElementOfSeq
<1>3. /\ k \in CallRecord /\ k.pc = pc /\ k.remote = calls[c].remote
      /\ k.name = calls[c].name /\ k.addr = calls[c].addr
  BY <1>2 DEF CallRecord
<1>4. calls' = [calls EXCEPT ![c] = k]
  BY DEF Goes
<1> HIDE DEF k
<1>5. calls' \in Seq(CallRecord) /\ Len(calls') = Len(calls) /\ DOMAIN calls' = DOMAIN calls
  BY <1>1, <1>3, <1>4, ExceptSeq
<1>6. calls'[c] = k /\ \A d \in DOMAIN calls : d # c => calls'[d] = calls[d]
  BY <1>4
<1>7. TableInv'
  BY DEF TableInv
<1>8. CallInv'
  <2>1. ASSUME NEW d \in DOMAIN calls, d # c
        PROVE  /\ calls'[d].remote \in DOMAIN table'
               /\ calls'[d].name = table'[calls'[d].remote].hostname
               /\ calls'[d].addr = PickAddr(table'[calls'[d].remote].addrs)
               /\ calls'[d].pc \in {"dial", "tls", "ok"} => d \in approved'
               /\ calls'[d].pc \in {"check", "dial", "tls"} => alive' = TRUE
    BY <1>6, <2>1 DEF CallInv
  <2>2. /\ k.remote \in DOMAIN table' /\ k.name = table'[k.remote].hostname
        /\ k.addr = PickAddr(table'[k.remote].addrs)
        /\ k.pc \in {"dial", "tls", "ok"} => c \in approved'
        /\ k.pc \in {"check", "dial", "tls"} => alive' = TRUE
    BY <1>3 DEF CallInv
  <2>3. QED BY <1>5, <1>6, <2>1, <2>2 DEF CallInv
<1>9. QED BY <1>3, <1>5, <1>6, <1>7, <1>8

\* A connect that fails or goes on before it has connected.
LEMMA CallGoesOn ==
  ASSUME TunnelInv, NEW c \in Calls, NEW pc \in {"dial", "tls", "err"},
         Pc(c, "check") \/ Pc(c, "dial") \/ Pc(c, "tls"), Goes(c, pc),
         approved \subseteq approved', pc \in {"dial", "tls"} => c \in approved',
         UNCHANGED <<table, alive, entry, snd, rcv>>
  PROVE  TunnelInv'
<1> USE DEF TunnelInv
<1>1. c \in DOMAIN calls /\ calls[c].pc \in {"check", "dial", "tls"}
  BY DEF Pc
<1>2. /\ calls' \in Seq(CallRecord) /\ Len(calls') = Len(calls)
      /\ DOMAIN calls' = DOMAIN calls /\ calls'[c].pc = pc
      /\ \A d \in DOMAIN calls : d # c => calls'[d] = calls[d]
      /\ TableInv' /\ CallInv'
  BY <1>1, CallMoves
<1>3. TypeOK' /\ HalvesInv'
  BY <1>2 DEF TypeOK, HalvesInv
<1>4. EntryInv'
  <2>1. ASSUME NEW d, Pc(d, "ok") PROVE Pc(d, "ok")'
    BY <1>1, <1>2, <2>1 DEF Pc
  <2>2. QED BY <2>1 DEF EntryInv
<1>5. QED BY <1>2, <1>3, <1>4

\* A half that goes with its side-map entry is still in order, and other halves
\* are as they were.
LEMMA ReleasedKeeps ==
  ASSUME TunnelInv
  PROVE  /\ Released(snd) \in [Calls -> SendRecord] /\ Released(rcv) \in [Calls -> ReceiveRecord]
         /\ \A c \in Calls : SendOK(Released(snd)[c]) /\ ReceiveOK(Released(rcv)[c])
         /\ \A c \in Calls : c # entry => /\ Released(snd)[c] = snd[c]
                                          /\ Released(rcv)[c] = rcv[c]
<1> USE DEF TunnelInv
<1> DEFINE s(c) == [snd[c] EXCEPT !.half = "gone"]
           r(c) == [rcv[c] EXCEPT !.half = "gone"]
<1>1. ASSUME NEW c \in Calls
      PROVE  /\ Released(snd)[c] = IF c = entry /\ snd[c].half = "map" THEN s(c) ELSE snd[c]
             /\ Released(rcv)[c] = IF c = entry /\ rcv[c].half = "map" THEN r(c) ELSE rcv[c]
  BY DEF Released
<1>2. ASSUME NEW c \in Calls
      PROVE  /\ snd[c] \in SendRecord /\ SendOK(snd[c])
             /\ rcv[c] \in ReceiveRecord /\ ReceiveOK(rcv[c])
  BY DEF TypeOK, HalvesInv
<1>3. ASSUME NEW c \in Calls, snd[c].half = "map"
      PROVE  s(c) \in SendRecord /\ SendOK(s(c))
  <2>1. s(c) \in SendRecord
    BY <1>2 DEF SendRecord
  <2>2. SendOK(s(c))
    BY <1>2, <1>3 DEF SendRecord, SendOK
  <2>3. QED BY <2>1, <2>2
<1>4. ASSUME NEW c \in Calls, rcv[c].half = "map"
      PROVE  r(c) \in ReceiveRecord /\ ReceiveOK(r(c))
  <2>1. r(c) \in ReceiveRecord
    BY <1>2 DEF ReceiveRecord
  <2>2. ReceiveOK(r(c))
    BY <1>2, <1>4 DEF ReceiveRecord, ReceiveOK
  <2>3. QED BY <2>1, <2>2
<1> HIDE DEF s, r
<1>5. ASSUME NEW c \in Calls
      PROVE  /\ Released(snd)[c] \in SendRecord /\ SendOK(Released(snd)[c])
             /\ Released(rcv)[c] \in ReceiveRecord /\ ReceiveOK(Released(rcv)[c])
             /\ c # entry => Released(snd)[c] = snd[c] /\ Released(rcv)[c] = rcv[c]
  <2>1. Released(snd)[c] \in SendRecord /\ SendOK(Released(snd)[c])
    BY <1>1, <1>2, <1>3, Zenon
  <2>2. Released(rcv)[c] \in ReceiveRecord /\ ReceiveOK(Released(rcv)[c])
    BY <1>1, <1>2, <1>4, Zenon
  <2>3. c # entry => Released(snd)[c] = snd[c] /\ Released(rcv)[c] = rcv[c]
    BY <1>1
  <2>4. QED BY <2>1, <2>2, <2>3
<1>6. /\ \E f : Released(snd) = [c \in Calls |-> f[c]]
      /\ \E f : Released(rcv) = [c \in Calls |-> f[c]]
  <2>1. Released(snd) = [c \in Calls |-> Released(snd)[c]]
    BY DEF Released
  <2>2. Released(rcv) = [c \in Calls |-> Released(rcv)[c]]
    BY DEF Released
  <2>3. QED BY <2>1, <2>2
<1>7. Released(snd) \in [Calls -> SendRecord] /\ Released(rcv) \in [Calls -> ReceiveRecord]
  BY <1>5, <1>6
<1>8. QED BY <1>5, <1>7

\* The connection takes the side map's entry, and what it replaces goes.
LEMMA ConnectedStep ==
  ASSUME TunnelInv, NEW c \in Calls, Connected(c)
  PROVE  TunnelInv'
<1> USE DEF TunnelInv
<1> DEFINE S == Released(snd)
           R == Released(rcv)
           s == [snd[c] EXCEPT !.half = "map"]
           r == [rcv[c] EXCEPT !.half = "map"]
<1>1. c \in DOMAIN calls /\ calls[c].pc = "tls" /\ c # 0 /\ alive = TRUE /\ c \in approved
  <2>1. c \in DOMAIN calls /\ calls[c].pc = "tls"
    BY DEF Connected, Pc
  <2>2. c # 0
    BY ProviderAssumption DEF Calls
  <2>3. QED BY <2>1, <2>2 DEF CallInv
<1>2. c # entry /\ snd[c].half = "none" /\ rcv[c].half = "none"
  BY <1>1 DEF EntryInv, Pc
<1>3. Goes(c, "ok") /\ entry' = c /\ UNCHANGED <<table, alive, approved>>
  BY DEF Connected
<1>4. /\ calls' \in Seq(CallRecord) /\ Len(calls') = Len(calls)
      /\ DOMAIN calls' = DOMAIN calls /\ calls'[c].pc = "ok"
      /\ \A d \in DOMAIN calls : d # c => calls'[d] = calls[d]
      /\ TableInv' /\ CallInv'
  BY <1>1, <1>3, CallMoves
<1>5. /\ S \in [Calls -> SendRecord] /\ R \in [Calls -> ReceiveRecord]
      /\ \A d \in Calls : SendOK(S[d]) /\ ReceiveOK(R[d])
      /\ \A d \in Calls : d # entry => S[d] = snd[d] /\ R[d] = rcv[d]
  BY ReleasedKeeps
<1>6. snd' = [S EXCEPT ![c].half = "map"] /\ rcv' = [R EXCEPT ![c].half = "map"]
  BY DEF Connected
<1> HIDE DEF S, R
<1>7. snd' = [S EXCEPT ![c] = s] /\ rcv' = [R EXCEPT ![c] = r]
  BY <1>2, <1>5, <1>6
<1>8. s \in SendRecord /\ r \in ReceiveRecord
  <2>1. s \in SendRecord
    BY DEF TypeOK, SendRecord
  <2>2. r \in ReceiveRecord
    BY DEF TypeOK, ReceiveRecord
  <2>3. QED BY <2>1, <2>2
<1>9. SendOK(s)
  BY <1>2 DEF TypeOK, HalvesInv, SendRecord, SendOK
<1>10. ReceiveOK(r)
  BY <1>2 DEF TypeOK, HalvesInv, ReceiveRecord, ReceiveOK
<1> HIDE DEF s, r
<1>11. /\ snd' \in [Calls -> SendRecord] /\ rcv' \in [Calls -> ReceiveRecord]
       /\ snd'[c] = s /\ rcv'[c] = r
       /\ \A d \in Calls : d # c => snd'[d] = S[d] /\ rcv'[d] = R[d]
  BY <1>5, <1>7, <1>8
<1>12. TypeOK'
  <2>1. c \in Nat
    BY ProviderAssumption DEF Calls
  <2>2. QED BY <1>3, <1>4, <1>11, <2>1 DEF TypeOK
<1>13. HalvesInv'
  BY <1>5, <1>9, <1>10, <1>11, Zenon DEF HalvesInv
<1>14. EntryInv'
  <2>1. Pc(entry, "ok")'
    BY <1>1, <1>3, <1>4 DEF Pc
  <2>2. ASSUME NEW d \in Calls, ~Pc(d, "ok")'
        PROVE  snd'[d].half = "none" /\ rcv'[d].half = "none"
    <3>1. d # c
      BY <1>3, <2>1, <2>2
    <3>2. ~Pc(d, "ok")
      BY <1>4, <2>2, <3>1 DEF Pc
    <3>3. d # entry
      <4>1. entry # 0 => Pc(entry, "ok")
        BY DEF EntryInv
      <4>2. d # 0
        BY ProviderAssumption DEF Calls
      <4>3. QED BY <3>2, <4>1, <4>2
    <3>4. QED BY <1>5, <1>11, <3>1, <3>2, <3>3 DEF EntryInv
  <2>3. alive' = TRUE
    BY <1>1, <1>3
  <2>4. QED BY <2>1, <2>2, <2>3 DEF EntryInv
<1>15. QED BY <1>4, <1>12, <1>13, <1>14

\* The socket is dropped, and what is still in the side map goes with it.
LEMMA DropStep ==
  ASSUME TunnelInv, DropSocket
  PROVE  TunnelInv'
<1> USE DEF TunnelInv
<1> DEFINE S == Released(snd)
           R == Released(rcv)
<1>1. /\ S \in [Calls -> SendRecord] /\ R \in [Calls -> ReceiveRecord]
      /\ \A d \in Calls : SendOK(S[d]) /\ ReceiveOK(R[d])
      /\ \A d \in Calls : d # entry => S[d] = snd[d] /\ R[d] = rcv[d]
  BY ReleasedKeeps
<1>2. /\ snd' = S /\ rcv' = R /\ alive' = FALSE /\ entry' = 0
      /\ UNCHANGED <<table, calls, approved>>
  BY DEF DropSocket
<1> HIDE DEF S, R
<1>3. TypeOK' /\ TableInv'
  BY <1>1, <1>2 DEF TypeOK, TableInv
<1>4. HalvesInv'
  BY <1>1, <1>2 DEF HalvesInv
<1>5. CallInv'
  <2>1. ASSUME NEW c \in DOMAIN calls PROVE calls[c].pc \notin {"check", "dial", "tls"}
    <3>1. c \in Calls
      <4>1. calls \in Seq(CallRecord) /\ Len(calls) <= MaxCalls
        BY DEF TypeOK
      <4>2. c \in 1..Len(calls) /\ Len(calls) \in Nat
        BY <4>1, LenProperties
      <4>3. QED BY <4>1, <4>2, ProviderAssumption DEF Calls
    <3>2. QED BY <3>1 DEF DropSocket, InFlight, Pc
  <2>2. QED BY <1>2, <2>1 DEF CallInv
<1>6. EntryInv'
  <2>1. ASSUME NEW d \in Calls, ~Pc(d, "ok")
        PROVE  S[d].half = "none" /\ R[d].half = "none"
    <3>1. d # entry
      <4>1. entry # 0 => Pc(entry, "ok")
        BY DEF EntryInv
      <4>2. d # 0
        BY ProviderAssumption DEF Calls
      <4>3. QED BY <2>1, <4>1, <4>2
    <3>2. QED BY <1>1, <2>1, <3>1 DEF EntryInv
  <2>2. QED BY <1>2, <2>1 DEF EntryInv, Pc
<1>7. QED BY <1>3, <1>4, <1>5, <1>6

\* The steps of connect.
LEMMA ConnectMovesStep ==
  ASSUME TunnelInv, NEW c \in Calls, ConnectMoves(c)
  PROVE  TunnelInv'
<1>1. ASSUME NEW b \in BOOLEAN, Checked(c, b)
      PROVE  TunnelInv'
  <2>1. CASE b = TRUE
    BY <1>1, <2>1, CallGoesOn DEF Checked
  <2>2. CASE b = FALSE
    BY <1>1, <2>2, CallGoesOn DEF Checked
  <2>3. QED BY <2>1, <2>2
<1>2. ASSUME NEW b \in BOOLEAN, Dialed(c, b)
      PROVE  TunnelInv'
  <2>1. Pc(c, "dial") /\ c \in approved
    BY <1>2 DEF Dialed, Pc, TunnelInv, CallInv
  <2>2. CASE b = TRUE
    BY <1>2, <2>1, <2>2, CallGoesOn DEF Dialed
  <2>3. CASE b = FALSE
    BY <1>2, <2>1, <2>3, CallGoesOn DEF Dialed
  <2>4. QED BY <2>2, <2>3
<1>3. CASE HandshakeFailed(c)
  BY <1>3, CallGoesOn DEF HandshakeFailed
<1>4. CASE Connected(c)
  BY <1>4, ConnectedStep
<1>5. QED BY <1>1, <1>2, <1>3, <1>4 DEF ConnectMoves

-----------------------------------------------------------------------------
(* Theorems *)

\* The provider keeps its inductive invariant: calls dial what their handles
\* stand for, the side map's entry is the connection of a live socket, and
\* every half is in one place and in order
\* (rust/tls-virt-wasmtime/src/main.rs).
THEOREM TunnelInvCorrect == Spec => []TunnelInv
<1>1. Init => TunnelInv
  <2> SUFFICES ASSUME Init PROVE TunnelInv
    OBVIOUS
  <2>1. NoSend \in SendRecord /\ NoReceive \in ReceiveRecord
    BY EmptySeq DEF NoSend, NoReceive, SendRecord, ReceiveRecord
  <2>2. calls \in Seq(CallRecord) /\ Len(calls) = 0 /\ DOMAIN calls = {}
    BY EmptySeq DEF Init
  <2>3. TypeOK /\ TableInv /\ CallInv
    BY <2>1, <2>2, ProviderAssumption DEF Init, TypeOK, TableInv, CallInv, EmptyTable
  <2>4. EntryInv
    BY DEF Init, EntryInv, NoSend, NoReceive
  <2>5. SendOK(NoSend)
    BY ConcatEmptySeq, EmptySeq DEF NoSend, SendOK
  <2>6. ReceiveOK(NoReceive)
    <3>1. <<>> \o <<>> = <<>>
      BY ConcatEmptySeq, EmptySeq
    <3>2. <<>> = [i \in 1..0 |-> i]
      OBVIOUS
    <3>3. QED BY <3>1, <3>2 DEF NoReceive, ReceiveOK
  <2>7. HalvesInv
    BY <2>5, <2>6 DEF Init, HalvesInv
  <2>8. QED BY <2>3, <2>4, <2>7 DEF TunnelInv
<1>2. TunnelInv /\ [Next]_vars => TunnelInv'
  <2> SUFFICES ASSUME TunnelInv, [Next]_vars PROVE TunnelInv'
    OBVIOUS
  <2>1. ASSUME NEW name \in Names, NEW addrs \in Answers, NEW h \in HandleSpace,
               ResolveAddresses(name, addrs, h)
        PROVE  TunnelInv'
    BY <2>1, ResolveStep
  <2>2. ASSUME NEW h \in HandleSpace, Connect(h) PROVE TunnelInv'
    BY <2>2, ConnectStep
  <2>3. CASE DropSocket
    BY <2>3, DropStep
  <2>4. CASE Send
    BY <2>4, SendStep
  <2>5. CASE Receive
    BY <2>5, ReceiveStep
  <2>6. ASSUME NEW c \in Calls, ConnectMoves(c) PROVE TunnelInv'
    BY <2>6, ConnectMovesStep
  <2>7. ASSUME NEW c \in Calls, GuestWrite(c) \/ GuestClose(c) PROVE TunnelInv'
    BY <2>7, GuestSends
  <2>8. ASSUME NEW c \in Calls, Consume(c) PROVE TunnelInv'
    BY <2>8, ConsumeStep
  <2>9. ASSUME NEW c \in Calls, ConsumerDrop(c) \/ Shutdown(c) PROVE TunnelInv'
    BY <2>9, ClosingStep
  <2>10. ASSUME NEW c \in Calls,
                \/ GuestDropsReceive(c) \/ PeerSends(c)
                \/ \E how \in {"notify", "cut"} : PeerEnds(c, how)
         PROVE  TunnelInv'
    BY <2>10, EndsStep
  <2>11. ASSUME NEW c \in Calls, Produce(c) PROVE TunnelInv'
    BY <2>11, ProduceStep
  <2>12. CASE UNCHANGED vars
    BY <2>12 DEF vars, provider, TunnelInv, TypeOK, TableInv, CallInv, EntryInv, HalvesInv, Pc
  <2>13. QED
    BY <2>1, <2>2, <2>3, <2>4, <2>5, <2>6, <2>7, <2>8, <2>9, <2>10, <2>11, <2>12 DEF Next
<1>3. QED BY <1>1, <1>2, PTL DEF Spec

\* The socket's tunnel is a connection made with the name behind the handle the
\* guest dialed, at one of that name's addresses (an IPv6 one if there is one),
\* after the sandbox check (connect in rust/tls-virt-wasmtime/src/main.rs).
THEOREM TunnelsAreAsResolved == Spec => []TunnelAsResolved
<1>1. TunnelInv => TunnelAsResolved
  <2> SUFFICES ASSUME TunnelInv, entry # 0 PROVE TunnelAsResolved
    BY DEF TunnelAsResolved
  <2> DEFINE h == calls[entry].remote
             addrs == {table[h].addrs[i] : i \in DOMAIN table[h].addrs}
  <2>1. alive = TRUE /\ entry \in DOMAIN calls /\ calls[entry].pc = "ok"
    BY DEF TunnelInv, EntryInv, Pc
  <2>2. /\ h \in DOMAIN table /\ calls[entry].name = table[h].hostname
        /\ calls[entry].addr = PickAddr(table[h].addrs) /\ entry \in approved
    BY <2>1 DEF TunnelInv, CallInv
  <2>3. table[h].addrs \in Seq(RealAddrs) /\ table[h].addrs # <<>>
    BY <2>2 DEF TunnelInv, TableInv, Entry
  <2>4. /\ PickAddr(table[h].addrs) \in addrs
        /\ addrs \cap V6Addrs # {} => PickAddr(table[h].addrs) \in V6Addrs
    BY <2>3, PickAddrBest
  <2>5. QED BY <2>1, <2>2, <2>4 DEF TunnelAsResolved
<1>2. QED BY <1>1, TunnelInvCorrect, PTL

\* What the guest's stream gave up is on its way to the wire once and in order,
\* a send verdict ok follows all of it and close_notify, and a receive verdict
\* ok the peer's close_notify and all it sent (TlsSendConsumer and
\* TlsReceiveProducer in rust/tls-virt-wasmtime/src/main.rs).
THEOREM VerdictsAreEarned == Spec => []VerdictsEarned
<1>1. TunnelInv => VerdictsEarned
  <2>1. TunnelInv => SendVerdictEarned
    BY DEF TunnelInv, HalvesInv, SendOK, SendVerdictEarned
  <2>2. TunnelInv => ReceiveVerdictEarned
    BY DEF TunnelInv, HalvesInv, ReceiveOK, ReceiveVerdictEarned
  <2>3. QED BY <2>1, <2>2 DEF VerdictsEarned
<1>2. QED BY <1>1, TunnelInvCorrect, PTL

\* As long as a verdict is owed somebody is left to send it: the consumer holds
\* its sender or the shutdown task runs, and a producer that is gone has sent
\* it or was dropped by the guest (rust/tls-virt-wasmtime/src/main.rs).
THEOREM VerdictsStayOwed == Spec => []VerdictsOwed
<1>1. TunnelInv => VerdictsOwed
  <2> SUFFICES ASSUME TunnelInv, NEW c \in Calls
               PROVE  /\ snd[c].result # "none" /\ snd[c].verdict = "pending" =>
                           \/ snd[c].half = "consumer" /\ snd[c].result = "held"
                           \/ snd[c].half = "shutdown"
                      /\ rcv[c].ending # "none" /\ rcv[c].inq = <<>> /\ rcv[c].got # <<>> =>
                           rcv[c].half = "producer" \/ rcv[c].verdict # "pending"
    BY DEF VerdictsOwed
  <2>1. snd[c].half \in {"none", "map", "consumer", "shutdown", "gone"} /\ SendOK(snd[c])
    BY DEF TunnelInv, TypeOK, SendRecord, HalvesInv
  <2>2. rcv[c].half \in {"none", "map", "producer", "gone"} /\ ReceiveOK(rcv[c])
    BY DEF TunnelInv, TypeOK, ReceiveRecord, HalvesInv
  <2>3. QED BY <2>1, <2>2 DEF SendOK, ReceiveOK
<1>2. QED BY <1>1, TunnelInvCorrect, PTL

=============================================================================
