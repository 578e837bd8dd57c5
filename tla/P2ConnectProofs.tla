-------------------------- MODULE P2ConnectProofs --------------------------
(***************************************************************************)
(* Theorems about P2Resolve and P2Connect, for any names, addresses,       *)
(* answers and table indices, and any number of lookups, sockets and       *)
(* connect tasks.                                                          *)
(***************************************************************************)
EXTENDS P2Connect, SequenceTheorems, WellFoundedInduction, TLAPS

-----------------------------------------------------------------------------
(* Lookups *)

ResolveRecord ==
  [st : {"none", "draining", "yielded"}, hostname : Names \union {NoName},
   addrs : Seq(RealAddrs)]
InnerRecord ==
  [st : {"absent", "waiting", "answered", "failed"}, rest : Seq(RealAddrs)]

LookupTypeOK ==
  /\ resolves \in [Lookups -> ResolveRecord]
  /\ inner \in [Lookups -> InnerRecord]
  /\ opted \in [Lookups -> BOOLEAN]
  /\ name \in [Lookups -> Names \union {NoName}]
  /\ answer \in [Lookups -> Seq(RealAddrs)]
  /\ given \in [Lookups -> Seq(RealAddrs \union HandleSpace)]

\* A handle stands for a name and at least one address.
TableInv ==
  /\ DOMAIN table \subseteq HandleSpace
  /\ \A h \in DOMAIN table : table[h] \in Entry /\ table[h].addrs # <<>>

\* The side map has no entry for an index without a stream.
AbsentClean(r) == inner[r].st = "absent" => resolves[r] = NoResolve

\* Before the resolver has answered nothing has been drained or given.
UnansweredEmpty(r) ==
  inner[r].st \in {"waiting", "failed"} =>
    /\ inner[r].rest = <<>> /\ answer[r] = <<>> /\ given[r] = <<>>
    /\ resolves[r].addrs = <<>> /\ resolves[r].st # "yielded"

\* A stream that is not in the side map passes the answer on.
PlainPasses(r) ==
  ~opted[r] /\ Open(r) =>
    resolves[r].st = "none" /\ given[r] \o inner[r].rest = answer[r]

\* What was drained and what is left to drain is the answer, until one handle
\* has been given for it.
OptedDrains(r) ==
  opted[r] /\ Open(r) =>
    \/ /\ resolves[r].st = "draining"
       /\ resolves[r].hostname = name[r] /\ name[r] \in Names
       /\ resolves[r].addrs \o inner[r].rest = answer[r] /\ given[r] = <<>>
    \/ /\ resolves[r].st = "yielded" /\ inner[r].rest = <<>>
       /\ OnlyFaithfulHandle(r)

StreamOK(r) == AbsentClean(r) /\ UnansweredEmpty(r) /\ PlainPasses(r) /\ OptedDrains(r)

LookupInv == \A r \in Lookups : StreamOK(r)

-----------------------------------------------------------------------------
(* Sockets and tasks *)

Outcomes ==
  {"none", "ok", "access-denied", "refused", "invalid-argument", "connection-reset"}

TaskRecord ==
  [pc : {"check", "dial", "tls", "store", "signal", "end"}, owner : Reps \X Nat,
   name : Names, addr : RealAddrs, outcome : Outcomes, slot : Outcomes, done : BOOLEAN]

TunnelRecord ==
  [st : {"none", "connecting", "connected", "failed"},
   remote : HandleSpace \union {"none"}, task : Nat]

ConnectTypeOK ==
  /\ gen \in [Reps -> Nat]
  /\ alive \in [Reps -> BOOLEAN]
  /\ tunnels \in [Reps -> TunnelRecord]
  /\ tasks \in Seq(TaskRecord)

\* A task has an outcome when it stores one, has signalled only at its end, and
\* has passed the check before it dials.
TaskOK(k, t, allowed) ==
  /\ k.pc \in {"check", "dial", "tls"} <=> k.outcome = "none"
  /\ k.pc \in {"check", "dial", "tls", "store"} => k.slot = "none"
  /\ k.pc # "end" => k.done = FALSE
  /\ k.slot \in {"none", k.outcome}
  /\ k.pc \in {"dial", "tls"} \/ k.outcome = "ok" => <<t, k.addr>> \in allowed
  /\ k.outcome = "ok" => k.name \notin BadNames

TaskInv == \A t \in DOMAIN tasks : TaskOK(tasks[t], t, approved)

\* The tunnel e at index r belongs to the task k, which was started for the
\* socket there and for the handle dialed; the outcome stays in the slot until
\* finish_connect takes it.
TunnelOK(e, k, r) ==
  /\ alive[r]
  /\ k.owner = <<r, gen[r]>>
  /\ e.remote \in DOMAIN table
  /\ k.name = table[e.remote].hostname
  /\ k.addr = PickAddr(table[e.remote].addrs)
  /\ e.st = "connecting" /\ k.pc \in {"signal", "end"} => k.slot # "none"
  /\ e.st = "connected" => k.outcome = "ok"

TunnelInv ==
  \A r \in Reps : tunnels[r].st # "none" =>
    tunnels[r].task \in DOMAIN tasks /\ TunnelOK(tunnels[r], tasks[tunnels[r].task], r)

ConnectInv ==
  /\ LookupTypeOK /\ TableInv /\ LookupInv
  /\ ConnectTypeOK /\ TaskInv /\ TunnelInv

-----------------------------------------------------------------------------
(* Operators *)

\* A non-empty set of natural numbers has a least member.
LEMMA LeastIndex ==
  ASSUME NEW S \in SUBSET Nat, S # {}
  PROVE  \E i \in S : \A j \in S : i <= j
<1>1. IsWellFoundedOn(OpToRel(<, Nat), Nat)
  BY NatLessThanWellFounded
<1>2. PICK x \in S : \A y \in S : ~(<<y, x>> \in OpToRel(<, Nat))
  BY <1>1, WFMin, Zenon
<1>3. ASSUME NEW y \in S PROVE x <= y
  <2>1. ~(y < x)
    BY <1>2 DEF OpToRel
  <2>2. QED BY <2>1
<1>4. QED BY <1>3

\* pick_addr answers with one of the addresses, an IPv6 one if there is one
\* (rust/tls-virt-common/src/lib.rs).
LEMMA PickAddrBest ==
  ASSUME NEW addrs \in Seq(RealAddrs), addrs # <<>>
  PROVE  /\ PickAddr(addrs) \in RealAddrs
         /\ PickAddr(addrs) \in {addrs[i] : i \in DOMAIN addrs}
         /\ {addrs[i] : i \in DOMAIN addrs} \cap V6Addrs # {} => PickAddr(addrs) \in V6Addrs
<1> DEFINE six == {i \in DOMAIN addrs : addrs[i] \in V6Addrs}
           first == CHOOSE i \in six : \A j \in six : i <= j
<1>1. DOMAIN addrs = 1..Len(addrs) /\ Len(addrs) \in Nat \ {0}
  BY EmptySeq, LenProperties
<1>2. \A i \in DOMAIN addrs : addrs[i] \in RealAddrs
  BY <1>1, ElementOfSeq
<1>3. CASE six = {}
  <2>1. PickAddr(addrs) = addrs[1]
    BY <1>3, Zenon DEF PickAddr
  <2>2. QED BY <1>1, <1>2, <1>3, <2>1
<1>4. CASE six # {}
  <2>1. six \in SUBSET Nat
    BY <1>1
  <2>2. \E i \in six : \A j \in six : i <= j
    BY <1>4, <2>1, LeastIndex
  <2>3. first \in six
    BY <2>2
  <2>4. PickAddr(addrs) = addrs[first]
    BY <1>4, Zenon DEF PickAddr
  <2>5. QED BY <1>2, <2>3, <2>4
<1>5. QED BY <1>3, <1>4

\* Taking the head of one sequence to the end of another leaves their
\* concatenation as it was (the delegated stream's addresses, one at a time).
LEMMA MoveHead ==
  ASSUME NEW S, NEW s \in Seq(S), NEW t \in Seq(S), t # <<>>
  PROVE  /\ Append(s, Head(t)) \in Seq(S) /\ Tail(t) \in Seq(S)
         /\ Append(s, Head(t)) \o Tail(t) = s \o t
<1> DEFINE h == <<Head(t)>>
<1>1. Head(t) \in S /\ Tail(t) \in Seq(S) /\ Head(t) = t[1] /\ Len(t) \in Nat \ {0}
  BY HeadTailProperties, EmptySeq, LenProperties
<1>2. h \in Seq(S) /\ h = <<t[1]>>
  BY <1>1
<1>3. h \o Tail(t) = t
  <2>1. 1 \in 1..Len(t) /\ Len(t) \in 1..Len(t)
    BY <1>1
  <2>2. SubSeq(t, 1, Len(t)) = <<t[1]>> \o SubSeq(t, 1 + 1, Len(t))
    BY <2>1, SubSeqRecursiveFirst
  <2>3. 1 + 1 = 2
    OBVIOUS
  <2>4. Tail(t) = SubSeq(t, 2, Len(t)) /\ SubSeq(t, 1, Len(t)) = t
    BY TailIsSubSeq, SubSeqFull
  <2> HIDE DEF h
  <2>5. QED BY <1>2, <2>2, <2>3, <2>4
<1>4. Append(s, Head(t)) = s \o h /\ Append(s, Head(t)) \in Seq(S)
  BY <1>1, AppendIsConcat, AppendProperties
<1> HIDE DEF h
<1>5. (s \o h) \o Tail(t) = s \o (h \o Tail(t))
  BY <1>1, <1>2, ConcatAssociative
<1>6. QED BY <1>1, <1>3, <1>4, <1>5

\* So does taking any prefix (a drain loop that stops at would-block).
LEMMA MovePrefix ==
  ASSUME NEW S, NEW s \in Seq(S), NEW t \in Seq(S), NEW k \in 0..Len(t)
  PROVE  /\ s \o SubSeq(t, 1, k) \in Seq(S) /\ SubSeq(t, k + 1, Len(t)) \in Seq(S)
         /\ (s \o SubSeq(t, 1, k)) \o SubSeq(t, k + 1, Len(t)) = s \o t
<1> DEFINE p == SubSeq(t, 1, k)
           q == SubSeq(t, k + 1, Len(t))
<1>1. Len(t) \in Nat /\ \A i \in 1..Len(t) : t[i] \in S
  BY LenProperties, ElementOfSeq
<1>2. p \in Seq(S) /\ q \in Seq(S)
  BY <1>1, SubSeqProperties
<1>3. p \o q = t
  <2>1. 1 \in 1..(Len(t) + 1) /\ k \in (1 - 1)..Len(t) /\ Len(t) \in k..Len(t)
    BY <1>1
  <2>2. p \o q = SubSeq(t, 1, Len(t))
    BY <2>1, ConcatAdjacentSubSeq
  <2>3. QED BY <2>2, SubSeqFull
<1> HIDE DEF p, q
<1>4. s \o p \in Seq(S) /\ (s \o p) \o q = s \o (p \o q)
  BY <1>2, ConcatProperties, ConcatAssociative
<1>5. QED BY <1>2, <1>3, <1>4 DEF p, q


-----------------------------------------------------------------------------
(* Steps of a lookup *)

\* Minted handles keep their meaning: HandleTable::mint only adds.
Grows ==
  /\ DOMAIN table \subseteq DOMAIN table'
  /\ \A h \in DOMAIN table : table'[h] = table[h]

StreamUnchanged(r) ==
  /\ resolves'[r] = resolves[r] /\ inner'[r] = inner[r] /\ opted'[r] = opted[r]
  /\ name'[r] = name[r] /\ answer'[r] = answer[r] /\ given'[r] = given[r]

\* What is true of a stream stays true while other streams are used.
LEMMA StreamKept ==
  ASSUME NEW r \in Lookups, StreamOK(r), StreamUnchanged(r), Grows
  PROVE  StreamOK(r)'
<1> USE DEF StreamUnchanged
<1>1. AbsentClean(r)' /\ UnansweredEmpty(r)' /\ PlainPasses(r)'
  BY Zenon DEF StreamOK, AbsentClean, UnansweredEmpty, PlainPasses, Open
<1>2. OnlyFaithfulHandle(r) => OnlyFaithfulHandle(r)'
  BY Zenon DEF OnlyFaithfulHandle, IsHandle, Grows
<1>3. OptedDrains(r)'
  BY <1>2, Zenon DEF StreamOK, OptedDrains, Open
<1>4. QED BY <1>1, <1>3 DEF StreamOK

\* A call that uses one stream keeps the invariant when it keeps it there.
LEMMA OneStream ==
  ASSUME LookupInv, NEW rep \in Lookups, StreamOK(rep)', Grows,
         \A r \in Lookups \ {rep} : StreamUnchanged(r)
  PROVE  LookupInv'
<1> SUFFICES ASSUME NEW r \in Lookups PROVE StreamOK(r)'
  BY DEF LookupInv
<1>1. CASE r = rep
  BY <1>1
<1>2. CASE r # rep
  BY <1>2, StreamKept DEF LookupInv
<1>3. QED BY <1>1, <1>2

\* The parts of a stream have their types.
LEMMA StreamTypes ==
  ASSUME LookupTypeOK, NEW r \in Lookups
  PROVE  /\ resolves[r] \in ResolveRecord /\ inner[r] \in InnerRecord
         /\ resolves[r].addrs \in Seq(RealAddrs) /\ inner[r].rest \in Seq(RealAddrs)
         /\ inner[r].rest \in Seq(RealAddrs \union HandleSpace)
         /\ answer[r] \in Seq(RealAddrs)
         /\ given[r] \in Seq(RealAddrs \union HandleSpace)
<1>1. /\ resolves[r] \in ResolveRecord /\ inner[r] \in InnerRecord
      /\ answer[r] \in Seq(RealAddrs) /\ given[r] \in Seq(RealAddrs \union HandleSpace)
  BY DEF LookupTypeOK
<1>2. resolves[r].addrs \in Seq(RealAddrs) /\ inner[r].rest \in Seq(RealAddrs)
  BY <1>1 DEF ResolveRecord, InnerRecord
<1>3. RealAddrs \subseteq RealAddrs \union HandleSpace
  OBVIOUS
<1>4. inner[r].rest \in Seq(RealAddrs \union HandleSpace)
  BY <1>2, <1>3, SeqMonotonic
<1>5. QED BY <1>1, <1>2, <1>4

ResolveInv == LookupTypeOK /\ TableInv /\ LookupInv

\* The resolver answers or fails.
LEMMA ResolverKeeps ==
  ASSUME ResolveInv, NEW rep \in Lookups, Resolver(rep)
  PROVE  ResolveInv' /\ Grows
<1> USE DEF ResolveInv
<1>1. table' = table /\ TableInv' /\ Grows
  BY DEF Resolver, ResolverFails, ResolverAnswers, TableInv, Grows
<1>2. /\ inner[rep].st = "waiting" /\ inner[rep] \in InnerRecord
      /\ StreamOK(rep) /\ <<>> \in Seq(RealAddrs)
  BY StreamTypes DEF LookupInv, Resolver, ResolverFails, ResolverAnswers
<1>3. /\ inner[rep].rest = <<>> /\ answer[rep] = <<>> /\ given[rep] = <<>>
      /\ resolves[rep].addrs = <<>> /\ resolves[rep].st # "yielded"
  BY <1>2 DEF StreamOK, UnansweredEmpty
<1>4. CASE ResolverFails(rep)
  <2>1. /\ inner' = [inner EXCEPT ![rep].st = "failed"]
        /\ UNCHANGED <<resolves, opted, name, answer, given>>
    BY <1>4 DEF ResolverFails, streamVars
  <2>2. LookupTypeOK'
    BY <2>1 DEF LookupTypeOK, InnerRecord
  <2>3. inner'[rep].st = "failed" /\ inner'[rep].rest = inner[rep].rest
    BY <1>2, <2>1 DEF LookupTypeOK, InnerRecord
  <2>4. \A r \in Lookups \ {rep} : StreamUnchanged(r)
    BY <2>1 DEF StreamUnchanged, LookupTypeOK
  <2>5. StreamOK(rep)'
    <3>1. AbsentClean(rep)' /\ UnansweredEmpty(rep)'
      BY <1>3, <2>1, <2>3 DEF AbsentClean, UnansweredEmpty
    <3>2. PlainPasses(rep)'
      BY <1>2, <2>1, <2>3 DEF StreamOK, PlainPasses, Open
    <3>3. OptedDrains(rep)'
      BY <1>2, <1>3, <2>1, <2>3 DEF StreamOK, OptedDrains, Open
    <3>4. QED BY <3>1, <3>2, <3>3 DEF StreamOK
  <2>6. QED BY <1>1, <2>2, <2>4, <2>5, OneStream
<1>5. ASSUME NEW a \in Answers, ResolverAnswers(rep, a) PROVE ResolveInv'
  <2>1. /\ inner' = [inner EXCEPT ![rep] = Inner("answered", a)]
        /\ answer' = [answer EXCEPT ![rep] = a]
        /\ UNCHANGED <<resolves, opted, name, given>>
    BY <1>5 DEF ResolverAnswers
  <2>2. a \in Seq(RealAddrs)
    BY ResolveAssumption
  <2>3. LookupTypeOK'
    BY <2>1, <2>2 DEF LookupTypeOK, InnerRecord, Inner
  <2>4. inner'[rep].st = "answered" /\ inner'[rep].rest = a /\ answer'[rep] = a
    BY <2>1 DEF LookupTypeOK, Inner
  <2>5. \A r \in Lookups \ {rep} : StreamUnchanged(r)
    BY <2>1 DEF StreamUnchanged, LookupTypeOK
  <2>6. <<>> \o a = a
    BY <2>2, ConcatEmptySeq
  <2>7. StreamOK(rep)'
    <3>1. AbsentClean(rep)' /\ UnansweredEmpty(rep)'
      BY <2>4 DEF AbsentClean, UnansweredEmpty
    <3>2. PlainPasses(rep)'
      BY <1>2, <1>3, <2>1, <2>4, <2>6 DEF StreamOK, PlainPasses, Open
    <3>3. OptedDrains(rep)'
      BY <1>2, <1>3, <2>1, <2>4, <2>6 DEF StreamOK, OptedDrains, Open
    <3>4. QED BY <3>1, <3>2, <3>3 DEF StreamOK
  <2>8. QED BY <1>1, <2>3, <2>5, <2>7, OneStream
<1>6. QED BY <1>1, <1>4, <1>5 DEF Resolver

\* A stream is opened, at an index that is free.
LEMMA OpenKeeps ==
  ASSUME ResolveInv, NEW rep \in Lookups, NEW n \in Names, NEW suffixed \in BOOLEAN,
         ResolveAddresses(rep, n, suffixed)
  PROVE  ResolveInv' /\ Grows
<1> USE DEF ResolveInv
<1>1. table' = table /\ TableInv' /\ Grows
  BY DEF ResolveAddresses, TableInv, Grows
<1>2. <<>> \in Seq(RealAddrs) /\ <<>> \in Seq(RealAddrs \union HandleSpace) /\ <<>> \o <<>> = <<>>
  BY ConcatEmptySeq
<1>3. resolves[rep] = NoResolve
  BY DEF ResolveAddresses, LookupInv, StreamOK, AbsentClean
<1>4. /\ inner' = [inner EXCEPT ![rep] = Inner("waiting", <<>>)]
      /\ resolves' = IF suffixed THEN [resolves EXCEPT ![rep] = Draining(n, <<>>)] ELSE resolves
      /\ opted' = [opted EXCEPT ![rep] = suffixed]
      /\ name' = [name EXCEPT ![rep] = n]
      /\ answer' = [answer EXCEPT ![rep] = <<>>]
      /\ given' = [given EXCEPT ![rep] = <<>>]
  BY DEF ResolveAddresses
<1>5. LookupTypeOK'
  <2>1. inner' \in [Lookups -> InnerRecord] /\ name' \in [Lookups -> Names \union {NoName}]
    BY <1>2, <1>4 DEF LookupTypeOK, InnerRecord, Inner
  <2>2. /\ opted' \in [Lookups -> BOOLEAN] /\ answer' \in [Lookups -> Seq(RealAddrs)]
        /\ given' \in [Lookups -> Seq(RealAddrs \union HandleSpace)]
    BY <1>2, <1>4 DEF LookupTypeOK
  <2>3. Draining(n, <<>>) \in ResolveRecord
    BY <1>2 DEF Draining, ResolveRecord
  <2>4. resolves' \in [Lookups -> ResolveRecord]
    BY <1>4, <2>3 DEF LookupTypeOK
  <2>5. QED BY <2>1, <2>2, <2>4 DEF LookupTypeOK
<1>6. \A r \in Lookups \ {rep} : StreamUnchanged(r)
  BY <1>4 DEF StreamUnchanged, LookupTypeOK
<1>7. /\ inner'[rep].st = "waiting" /\ inner'[rep].rest = <<>> /\ name'[rep] = n
      /\ answer'[rep] = <<>> /\ given'[rep] = <<>>
  BY <1>4 DEF LookupTypeOK, Inner
<1>8. opted'[rep] = suffixed
  BY <1>4 DEF LookupTypeOK
<1>9. resolves'[rep] = IF suffixed THEN Draining(n, <<>>) ELSE NoResolve
  BY <1>3, <1>4 DEF LookupTypeOK
<1>10. /\ suffixed => /\ resolves'[rep].st = "draining" /\ resolves'[rep].hostname = n
                      /\ resolves'[rep].addrs = <<>>
       /\ ~suffixed => resolves'[rep].st = "none" /\ resolves'[rep].addrs = <<>>
  BY <1>9 DEF Draining, NoResolve
<1>11. StreamOK(rep)'
  <2>1. AbsentClean(rep)'
    BY <1>7 DEF AbsentClean
  <2>2. UnansweredEmpty(rep)'
    BY <1>7, <1>10 DEF UnansweredEmpty
  <2>3. PlainPasses(rep)'
    BY <1>2, <1>7, <1>8, <1>10 DEF PlainPasses
  <2>4. OptedDrains(rep)'
    BY <1>2, <1>7, <1>8, <1>10 DEF OptedDrains
  <2>5. QED BY <2>1, <2>2, <2>3, <2>4 DEF StreamOK
<1>12. QED BY <1>1, <1>5, <1>6, <1>11, OneStream

\* An address of a name that was not opted in is passed on.
LEMMA PlainKeeps ==
  ASSUME ResolveInv, NEW rep \in Lookups, NextPlain(rep)
  PROVE  ResolveInv' /\ Grows
<1> USE DEF ResolveInv
<1>1. table' = table /\ TableInv' /\ Grows
  BY DEF NextPlain, TableInv, Grows
<1> DEFINE rest == inner[rep].rest
<1>2. /\ resolves[rep].st = "none" /\ inner[rep].st = "answered" /\ rest # <<>>
      /\ given' = [given EXCEPT ![rep] = Append(@, Head(rest))]
      /\ inner' = [inner EXCEPT ![rep].rest = Tail(@)]
      /\ UNCHANGED <<resolves, opted, name, answer>>
  BY DEF NextPlain, Answered, streamVars
<1>3. /\ rest \in Seq(RealAddrs) /\ rest \in Seq(RealAddrs \union HandleSpace)
      /\ given[rep] \in Seq(RealAddrs \union HandleSpace) /\ inner[rep] \in InnerRecord
  BY StreamTypes
<1>4. /\ Append(given[rep], Head(rest)) \in Seq(RealAddrs \union HandleSpace)
      /\ Append(given[rep], Head(rest)) \o Tail(rest) = given[rep] \o rest
  <2> DEFINE S == RealAddrs \union HandleSpace
             g == given[rep]
  <2>1. g \in Seq(S) /\ rest \in Seq(S) /\ rest # <<>>
    BY <1>2, <1>3
  <2> HIDE DEF S, g, rest
  <2>2. Append(g, Head(rest)) \in Seq(S) /\ Append(g, Head(rest)) \o Tail(rest) = g \o rest
    BY <2>1, MoveHead
  <2>3. QED BY <2>2 DEF S, g, rest
<1>5. Tail(rest) \in Seq(RealAddrs)
  BY <1>2, <1>3, HeadTailProperties
<1>6. /\ given'[rep] = Append(given[rep], Head(rest))
      /\ inner'[rep].rest = Tail(rest) /\ inner'[rep].st = "answered"
  BY <1>2, <1>3 DEF LookupTypeOK, InnerRecord
<1>7. LookupTypeOK'
  <2>1. given' \in [Lookups -> Seq(RealAddrs \union HandleSpace)]
    BY <1>2, <1>4 DEF LookupTypeOK
  <2>2. inner' \in [Lookups -> InnerRecord]
    BY <1>2, <1>5 DEF LookupTypeOK, InnerRecord
  <2>3. QED BY <1>2, <2>1, <2>2 DEF LookupTypeOK
<1>8. \A r \in Lookups \ {rep} : StreamUnchanged(r)
  BY <1>2 DEF StreamUnchanged, LookupTypeOK
<1>9. StreamOK(rep)
  BY DEF LookupInv
<1>10. StreamOK(rep)'
  <2>1. AbsentClean(rep)' /\ UnansweredEmpty(rep)'
    BY <1>6 DEF AbsentClean, UnansweredEmpty
  <2>2. PlainPasses(rep)'
    BY <1>2, <1>4, <1>6, <1>9 DEF StreamOK, PlainPasses, Open
  <2>3. OptedDrains(rep)'
    BY <1>2, <1>9 DEF StreamOK, OptedDrains, Open
  <2>4. QED BY <2>1, <2>2, <2>3 DEF StreamOK
<1>11. QED BY <1>1, <1>7, <1>8, <1>10, OneStream

\* A failed resolution is reported, after which nothing is left.
LEMMA FailsKeeps ==
  ASSUME ResolveInv, NEW rep \in Lookups, NextFails(rep)
  PROVE  ResolveInv' /\ Grows
<1> USE DEF ResolveInv
<1>1. table' = table /\ TableInv' /\ Grows
  BY DEF NextFails, TableInv, Grows
<1>2. /\ inner[rep].st = "failed" /\ inner' = [inner EXCEPT ![rep].st = "answered"]
      /\ UNCHANGED <<resolves, opted, name, answer, given>>
  BY DEF NextFails, streamVars
<1>3. inner[rep] \in InnerRecord /\ StreamOK(rep)
  BY StreamTypes DEF LookupInv
<1>4. LookupTypeOK'
  BY <1>2 DEF LookupTypeOK, InnerRecord
<1>5. inner'[rep].st = "answered" /\ inner'[rep].rest = inner[rep].rest
  BY <1>2, <1>3 DEF LookupTypeOK, InnerRecord
<1>6. \A r \in Lookups \ {rep} : StreamUnchanged(r)
  BY <1>2 DEF StreamUnchanged, LookupTypeOK
<1>7. StreamOK(rep)'
  <2>1. AbsentClean(rep)' /\ UnansweredEmpty(rep)'
    BY <1>5 DEF AbsentClean, UnansweredEmpty
  <2>2. PlainPasses(rep)'
    BY <1>2, <1>3, <1>5 DEF StreamOK, PlainPasses, Open
  <2>3. resolves[rep].st # "yielded"
    BY <1>2, <1>3 DEF StreamOK, UnansweredEmpty
  <2>4. OptedDrains(rep)'
    BY <1>2, <1>3, <1>5, <2>3 DEF StreamOK, OptedDrains, Open
  <2>5. QED BY <2>1, <2>2, <2>4 DEF StreamOK
<1>8. QED BY <1>1, <1>4, <1>6, <1>7, OneStream

\* The drain loop stops at would-block: what it drained is kept.
LEMMA BlocksKeeps ==
  ASSUME ResolveInv, NEW rep \in Lookups, NEW k \in Nat, NextBlocks(rep, k)
  PROVE  ResolveInv' /\ Grows
<1> USE DEF ResolveInv
<1>1. table' = table /\ TableInv' /\ Grows
  BY DEF NextBlocks, TableInv, Grows
<1> DEFINE rest == inner[rep].rest
           had == resolves[rep].addrs
<1>2. /\ resolves[rep].st = "draining" /\ inner[rep].st = "answered" /\ k <= Len(rest)
      /\ resolves' = [resolves EXCEPT ![rep].addrs = @ \o SubSeq(rest, 1, k)]
      /\ inner' = [inner EXCEPT ![rep].rest = SubSeq(@, k + 1, Len(@))]
      /\ UNCHANGED <<given, opted, name, answer>>
  BY DEF NextBlocks, IsDraining, Answered, streamVars
<1>3. /\ rest \in Seq(RealAddrs) /\ had \in Seq(RealAddrs)
      /\ resolves[rep] \in ResolveRecord /\ inner[rep] \in InnerRecord
  BY StreamTypes
<1>4. k \in 0..Len(rest)
  BY <1>2, <1>3, LenProperties
<1>5. /\ had \o SubSeq(rest, 1, k) \in Seq(RealAddrs)
      /\ SubSeq(rest, k + 1, Len(rest)) \in Seq(RealAddrs)
      /\ (had \o SubSeq(rest, 1, k)) \o SubSeq(rest, k + 1, Len(rest)) = had \o rest
  BY <1>3, <1>4, MovePrefix
<1> DEFINE p == had \o SubSeq(rest, 1, k)
           q == SubSeq(rest, k + 1, Len(rest))
<1>6. /\ resolves' = [resolves EXCEPT ![rep].addrs = p]
      /\ inner' = [inner EXCEPT ![rep].rest = q]
  BY <1>2, <1>3 DEF LookupTypeOK
<1> HIDE DEF p, q
<1>7. p \in Seq(RealAddrs) /\ q \in Seq(RealAddrs) /\ p \o q = had \o rest
  BY <1>5 DEF p, q
<1>8. /\ resolves'[rep].st = "draining" /\ resolves'[rep].hostname = resolves[rep].hostname
      /\ resolves'[rep].addrs = p /\ inner'[rep].rest = q /\ inner'[rep].st = "answered"
  BY <1>2, <1>3, <1>6 DEF LookupTypeOK, InnerRecord, ResolveRecord
<1>9. LookupTypeOK'
  <2>1. resolves' \in [Lookups -> ResolveRecord]
    BY <1>6, <1>7 DEF LookupTypeOK, ResolveRecord
  <2>2. inner' \in [Lookups -> InnerRecord]
    BY <1>6, <1>7 DEF LookupTypeOK, InnerRecord
  <2>3. QED BY <1>2, <2>1, <2>2 DEF LookupTypeOK
<1>10. \A r \in Lookups \ {rep} : StreamUnchanged(r)
  BY <1>2, <1>6 DEF StreamUnchanged, LookupTypeOK
<1>11. StreamOK(rep)
  BY DEF LookupInv
<1>12. StreamOK(rep)'
  <2>1. AbsentClean(rep)' /\ UnansweredEmpty(rep)'
    BY <1>8 DEF AbsentClean, UnansweredEmpty
  <2>2. PlainPasses(rep)'
    BY <1>2, <1>11 DEF StreamOK, PlainPasses, Open
  <2>3. OptedDrains(rep)'
    BY <1>2, <1>7, <1>8, <1>11 DEF StreamOK, OptedDrains, Open
  <2>4. QED BY <2>1, <2>2, <2>3 DEF StreamOK
<1>13. QED BY <1>1, <1>9, <1>10, <1>12, OneStream

\* The one handle is minted for the whole answer.
LEMMA HandleKeeps ==
  ASSUME ResolveInv, NEW rep \in Lookups, NEW h \in Fresh(table), NextHandle(rep, h)
  PROVE  ResolveInv' /\ Grows
<1> USE DEF ResolveInv
<1> DEFINE all == resolves[rep].addrs \o inner[rep].rest
           e == [hostname |-> resolves[rep].hostname, addrs |-> all]
<1>1. /\ resolves[rep].st = "draining" /\ inner[rep].st = "answered" /\ all # <<>>
      /\ table' = Mint(table, h, e)
      /\ given' = [given EXCEPT ![rep] = Append(@, h)]
      /\ resolves' = [resolves EXCEPT ![rep] = Yielded]
      /\ inner' = [inner EXCEPT ![rep].rest = <<>>]
      /\ UNCHANGED <<opted, name, answer>>
  BY DEF NextHandle, IsDraining, Answered, streamVars
<1>2. h \in HandleSpace /\ h \notin DOMAIN table
  BY DEF Fresh
<1>3. /\ resolves[rep] \in ResolveRecord /\ inner[rep] \in InnerRecord /\ StreamOK(rep)
      /\ resolves[rep].addrs \in Seq(RealAddrs) /\ inner[rep].rest \in Seq(RealAddrs)
  BY StreamTypes DEF LookupInv
<1>4. opted[rep] /\ resolves[rep].hostname = name[rep] /\ all = answer[rep] /\ given[rep] = <<>>
  <2>1. Open(rep)
    BY <1>1 DEF Open
  <2>2. opted[rep]
    BY <1>1, <1>3, <2>1 DEF StreamOK, PlainPasses
  <2>3. QED BY <1>1, <1>3, <2>1, <2>2 DEF StreamOK, OptedDrains
<1>5. all \in Seq(RealAddrs)
  BY <1>3, ConcatProperties
<1>6. name[rep] \in Names
  BY <1>1, <1>3, <1>4 DEF StreamOK, OptedDrains, Open
<1> HIDE DEF all
<1>7. e \in Entry /\ e.addrs = all /\ e.hostname = name[rep]
  BY <1>4, <1>5, <1>6 DEF Entry
<1>8. e = [hostname |-> name[rep], addrs |-> answer[rep]]
  BY <1>4
<1> HIDE DEF e
<1>9. /\ DOMAIN table' = DOMAIN table \union {h} /\ table'[h] = e
      /\ \A x \in DOMAIN table : table'[x] = table[x]
  BY <1>1, <1>2 DEF Mint
<1>10. Grows /\ TableInv'
  BY <1>1, <1>2, <1>7, <1>9 DEF Grows, TableInv
<1>11. <<>> \in Seq(RealAddrs) /\ Yielded \in ResolveRecord
  BY DEF Yielded, ResolveRecord
<1>12. given'[rep] = <<h>>
  <2>1. given'[rep] = Append(<<>>, h)
    BY <1>1, <1>4 DEF LookupTypeOK
  <2>2. QED BY <2>1
<1>13. LookupTypeOK'
  <2>1. <<h>> \in Seq(RealAddrs \union HandleSpace)
    BY <1>2
  <2>2. given' = [given EXCEPT ![rep] = <<h>>]
    BY <1>1, <1>4 DEF LookupTypeOK
  <2>3. given' \in [Lookups -> Seq(RealAddrs \union HandleSpace)]
    BY <2>1, <2>2 DEF LookupTypeOK
  <2>4. inner' \in [Lookups -> InnerRecord]
    BY <1>1, <1>11 DEF LookupTypeOK, InnerRecord
  <2>5. resolves' \in [Lookups -> ResolveRecord]
    BY <1>1, <1>11 DEF LookupTypeOK
  <2>6. QED BY <1>1, <2>3, <2>4, <2>5 DEF LookupTypeOK
<1>14. \A r \in Lookups \ {rep} : StreamUnchanged(r)
  BY <1>1 DEF StreamUnchanged, LookupTypeOK
<1>15. /\ resolves'[rep].st = "yielded" /\ inner'[rep].rest = <<>> /\ inner'[rep].st = "answered"
  BY <1>1, <1>3 DEF LookupTypeOK, InnerRecord, Yielded
<1>16. OnlyFaithfulHandle(rep)'
  <2>1. Len(<<h>>) = 1 /\ DOMAIN <<h>> = {1} /\ <<h>>[1] = h
    OBVIOUS
  <2>2. IsHandle(table', h) /\ table'[h].addrs # <<>>
    BY <1>1, <1>7, <1>9 DEF IsHandle
  <2>3. table'[h] = [hostname |-> name'[rep], addrs |-> answer'[rep]]
    BY <1>1, <1>8, <1>9
  <2>4. Len(given'[rep]) <= 1 /\ DOMAIN given'[rep] = {1} /\ given'[rep][1] = h
    BY <1>12, <2>1
  <2>5. QED BY <2>2, <2>3, <2>4 DEF OnlyFaithfulHandle
<1>17. StreamOK(rep)'
  <2>1. AbsentClean(rep)' /\ UnansweredEmpty(rep)'
    BY <1>15 DEF AbsentClean, UnansweredEmpty
  <2>2. PlainPasses(rep)'
    BY <1>1, <1>4 DEF PlainPasses
  <2>3. OptedDrains(rep)'
    BY <1>15, <1>16 DEF OptedDrains
  <2>4. QED BY <2>1, <2>2, <2>3 DEF StreamOK
<1>18. QED BY <1>10, <1>13, <1>14, <1>17, OneStream

\* Nothing was answered: the guest is told so and gets no handle.
LEMMA UnresolvableKeeps ==
  ASSUME ResolveInv, NEW rep \in Lookups, NextUnresolvable(rep)
  PROVE  ResolveInv' /\ Grows
<1> USE DEF ResolveInv
<1>1. table' = table /\ TableInv' /\ Grows
  BY DEF NextUnresolvable, TableInv, Grows
<1>2. /\ resolves[rep].st = "draining" /\ inner[rep].st = "answered" /\ inner[rep].rest = <<>>
      /\ resolves' = [resolves EXCEPT ![rep] = Yielded]
      /\ UNCHANGED <<inner, given, opted, name, answer>>
  BY DEF NextUnresolvable, IsDraining, Answered, streamVars
<1>3. StreamOK(rep) /\ Open(rep)
  BY <1>2 DEF LookupInv, Open
<1>4. opted[rep] /\ given[rep] = <<>>
  <2>1. opted[rep]
    BY <1>2, <1>3 DEF StreamOK, PlainPasses
  <2>2. QED BY <1>2, <1>3, <2>1 DEF StreamOK, OptedDrains
<1>5. resolves'[rep].st = "yielded"
  BY <1>2 DEF LookupTypeOK, Yielded
<1>6. LookupTypeOK'
  <2>1. Yielded \in ResolveRecord
    BY DEF Yielded, ResolveRecord
  <2>2. QED BY <1>2, <2>1 DEF LookupTypeOK
<1>7. \A r \in Lookups \ {rep} : StreamUnchanged(r)
  BY <1>2 DEF StreamUnchanged, LookupTypeOK
<1>8. OnlyFaithfulHandle(rep)'
  <2>1. Len(<<>>) = 0 /\ DOMAIN <<>> = {} /\ given'[rep] = <<>>
    BY <1>2, <1>4
  <2>2. QED BY <2>1 DEF OnlyFaithfulHandle
<1>9. StreamOK(rep)'
  <2>1. AbsentClean(rep)' /\ UnansweredEmpty(rep)'
    BY <1>2 DEF AbsentClean, UnansweredEmpty
  <2>2. PlainPasses(rep)'
    BY <1>2, <1>4 DEF PlainPasses
  <2>3. OptedDrains(rep)'
    BY <1>2, <1>5, <1>8 DEF OptedDrains
  <2>4. QED BY <2>1, <2>2, <2>3 DEF StreamOK
<1>10. QED BY <1>1, <1>6, <1>7, <1>9, OneStream

\* A dropped stream leaves nothing behind for the next one at its index.
LEMMA DropStreamKeeps ==
  ASSUME ResolveInv, NEW rep \in Lookups, DropStream(rep)
  PROVE  ResolveInv' /\ Grows
<1> USE DEF ResolveInv
<1>1. table' = table /\ TableInv' /\ Grows
  BY DEF DropStream, TableInv, Grows
<1>2. /\ resolves' = [resolves EXCEPT ![rep] = NoResolve]
      /\ inner' = [inner EXCEPT ![rep] = Inner("absent", <<>>)]
      /\ opted' = [opted EXCEPT ![rep] = FALSE] /\ name' = [name EXCEPT ![rep] = NoName]
      /\ answer' = [answer EXCEPT ![rep] = <<>>] /\ given' = [given EXCEPT ![rep] = <<>>]
  BY DEF DropStream, Forget
<1>3. /\ <<>> \in Seq(RealAddrs) /\ <<>> \in Seq(RealAddrs \union HandleSpace)
      /\ NoResolve \in ResolveRecord /\ Inner("absent", <<>>) \in InnerRecord
  BY DEF NoResolve, ResolveRecord, Inner, InnerRecord
<1>4. LookupTypeOK'
  BY <1>2, <1>3 DEF LookupTypeOK
<1>5. \A r \in Lookups \ {rep} : StreamUnchanged(r)
  BY <1>2 DEF StreamUnchanged, LookupTypeOK
<1>6. resolves'[rep] = NoResolve /\ inner'[rep].st = "absent"
  BY <1>2 DEF LookupTypeOK, Inner
<1>7. StreamOK(rep)'
  BY <1>6 DEF StreamOK, AbsentClean, UnansweredEmpty, PlainPasses, OptedDrains, Open
<1>8. QED BY <1>1, <1>4, <1>5, <1>7, OneStream

\* Every step of a lookup keeps its stream's promise and every handle's
\* meaning.
LEMMA ResolveStep ==
  ASSUME ResolveInv, ResolveNext
  PROVE  ResolveInv' /\ Grows
<1>1. PICK rep \in Lookups :
        \/ Resolver(rep)
        \/ \E n \in Names, suffixed \in BOOLEAN : ResolveAddresses(rep, n, suffixed)
        \/ NextAddress(rep)
        \/ \E k \in 0..Len(answer[rep]) : NextBlocks(rep, k)
        \/ DropStream(rep)
  BY DEF ResolveNext
<1>2. CASE Resolver(rep)
  BY <1>2, ResolverKeeps
<1>3. CASE \E n \in Names, suffixed \in BOOLEAN : ResolveAddresses(rep, n, suffixed)
  BY <1>3, OpenKeeps
<1>4. CASE NextAddress(rep)
  <2>1. CASE NextPlain(rep)
    BY <2>1, PlainKeeps
  <2>2. CASE NextFails(rep)
    BY <2>2, FailsKeeps
  <2>3. CASE NextUnresolvable(rep)
    BY <2>3, UnresolvableKeeps
  <2>4. CASE \E h \in Fresh(table) : NextHandle(rep, h)
    BY <2>4, HandleKeeps
  <2>5. QED BY <1>4, <2>1, <2>2, <2>3, <2>4 DEF NextAddress
<1>5. CASE \E k \in 0..Len(answer[rep]) : NextBlocks(rep, k)
  <2>1. PICK k \in 0..Len(answer[rep]) : NextBlocks(rep, k)
    BY <1>5
  <2>2. k \in Nat
    BY StreamTypes, LenProperties DEF ResolveInv
  <2>3. QED BY <2>1, <2>2, BlocksKeeps
<1>6. CASE DropStream(rep)
  BY <1>6, DropStreamKeeps
<1>7. QED BY <1>1, <1>2, <1>3, <1>4, <1>5, <1>6

-----------------------------------------------------------------------------
(* Steps of a connect *)

\* What dials a handle stays bound to it while the table grows.
LEMMA TunnelsKept ==
  ASSUME TunnelInv, Grows, UNCHANGED connectVars
  PROVE  TunnelInv'
<1>1. /\ tunnels' = tunnels /\ tasks' = tasks /\ alive' = alive /\ gen' = gen
  BY DEF connectVars, sockVars
<1> SUFFICES ASSUME NEW r \in Reps, tunnels'[r].st # "none"
             PROVE  /\ tunnels'[r].task \in DOMAIN tasks'
                    /\ TunnelOK(tunnels[r], tasks[tunnels[r].task], r)'
  BY DEF TunnelInv
<1>2. /\ tunnels[r].task \in DOMAIN tasks
      /\ TunnelOK(tunnels[r], tasks[tunnels[r].task], r)
  BY <1>1 DEF TunnelInv
<1>3. table'[tunnels[r].remote] = table[tunnels[r].remote] /\ tunnels[r].remote \in DOMAIN table'
  BY <1>2 DEF TunnelOK, Grows
<1>4. QED BY <1>1, <1>2, <1>3, Zenon DEF TunnelOK

\* Two sockets never share a task.
LEMMA OneTunnelPerTask ==
  ASSUME TunnelInv, NEW r \in Reps, NEW q \in Reps,
         tunnels[r].st # "none", tunnels[q].st # "none", tunnels[r].task = tunnels[q].task
  PROVE  r = q
<1> DEFINE o == tasks[tunnels[r].task].owner
<1>1. o = <<r, gen[r]>> /\ o = <<q, gen[q]>>
  BY DEF TunnelInv, TunnelOK
<1>2. QED BY <1>1

SocketInv == ConnectTypeOK /\ TaskInv /\ TunnelInv

\* A task moves: its record changes, and nothing of what it was started for.
LEMMA TaskMoves ==
  ASSUME SocketInv, NEW t \in DOMAIN tasks, NEW k \in TaskRecord,
         tasks' = [tasks EXCEPT ![t] = k],
         k.owner = tasks[t].owner, k.name = tasks[t].name, k.addr = tasks[t].addr,
         tasks[t].outcome = "ok" => k.outcome = "ok",
         k.pc \in {"signal", "end"} =>
           k.slot # "none" \/ (tasks[t].pc \in {"signal", "end"} /\ k.slot = tasks[t].slot),
         approved \subseteq approved',
         TaskOK(k, t, approved'),
         UNCHANGED <<sockVars, tunnels, table>>
  PROVE  SocketInv'
<1> USE DEF SocketInv
<1>1. tunnels' = tunnels /\ alive' = alive /\ gen' = gen /\ table' = table
  BY DEF sockVars
<1>2. /\ tasks \in Seq(TaskRecord) /\ DOMAIN tasks = 1..Len(tasks)
      /\ tasks' \in Seq(TaskRecord) /\ Len(tasks') = Len(tasks) /\ DOMAIN tasks' = DOMAIN tasks
      /\ tasks'[t] = k /\ \A u \in DOMAIN tasks \ {t} : tasks'[u] = tasks[u]
  BY ExceptSeq, LenProperties DEF ConnectTypeOK
<1>3. ConnectTypeOK'
  BY <1>1, <1>2 DEF ConnectTypeOK
<1>4. ASSUME NEW u \in DOMAIN tasks, u # t PROVE TaskOK(tasks[u], u, approved')
  BY <1>4 DEF TaskInv, TaskOK
<1>5. TaskInv'
  BY <1>2, <1>4 DEF TaskInv
<1>6. ASSUME NEW r \in Reps, tunnels[r].st # "none"
      PROVE  tunnels[r].task \in DOMAIN tasks /\ TunnelOK(tunnels[r], tasks[tunnels[r].task], r)'
  <2>1. tunnels[r].task \in DOMAIN tasks /\ TunnelOK(tunnels[r], tasks[tunnels[r].task], r)
    BY <1>6 DEF TunnelInv
  <2>2. CASE tunnels[r].task # t
    <3>1. tasks'[tunnels'[r].task] = tasks[tunnels[r].task]
      BY <1>1, <1>2, <2>1, <2>2
    <3>2. QED BY <1>1, <2>1, <3>1, Zenon DEF TunnelOK
  <2>3. CASE tunnels[r].task = t
    <3>1. tasks'[tunnels'[r].task] = k
      BY <1>1, <1>2, <2>3
    <3>2. /\ alive[r] /\ k.owner = <<r, gen[r]>>
          /\ tunnels[r].remote \in DOMAIN table
          /\ k.name = table[tunnels[r].remote].hostname
          /\ k.addr = PickAddr(table[tunnels[r].remote].addrs)
          /\ tunnels[r].st = "connected" => k.outcome = "ok"
      BY <2>1, <2>3, Zenon DEF TunnelOK
    <3>3. tunnels[r].st = "connecting" /\ k.pc \in {"signal", "end"} => k.slot # "none"
      BY <2>1, <2>3 DEF TunnelOK
    <3>4. QED BY <1>1, <2>1, <3>1, <3>2, <3>3, Zenon DEF TunnelOK
  <2>4. QED BY <2>1, <2>2, <2>3
<1>7. TunnelInv'
  BY <1>1, <1>2, <1>6 DEF TunnelInv
<1>8. QED BY <1>3, <1>5, <1>7

\* The steps of a connect task: check, dial, handshake, store, signal.
LEMMA TaskKeeps ==
  ASSUME SocketInv, NEW t, TaskRuns(t), table' = table
  PROVE  SocketInv'
<1> USE DEF SocketInv
<1>1. t \in DOMAIN tasks /\ UNCHANGED <<sockVars, tunnels, table>>
  BY DEF TaskRuns, TaskCheck, TaskDial, TaskTls, TaskStore, TaskSignal, Pc
<1>2. tasks \in Seq(TaskRecord) /\ tasks[t] \in TaskRecord
  BY <1>1, LenProperties, ElementOfSeq DEF ConnectTypeOK
<1>3. TaskOK(tasks[t], t, approved)
  BY <1>1 DEF TaskInv
<1>5. ASSUME NEW o \in Outcomes, o # "none", tasks[t].pc \in {"check", "dial", "tls"},
             Ends(t, o), approved' = approved,
             o = "ok" => tasks[t].pc = "tls" /\ tasks[t].name \notin BadNames
      PROVE  SocketInv'
  <2> DEFINE k == [tasks[t] EXCEPT !.outcome = o, !.pc = "store"]
  <2>1. tasks' = [tasks EXCEPT ![t] = k]
    BY <1>1, <1>2, <1>5 DEF Ends
  <2>2. /\ k \in TaskRecord /\ k.pc = "store" /\ k.outcome = o
        /\ k.owner = tasks[t].owner /\ k.name = tasks[t].name /\ k.addr = tasks[t].addr
        /\ k.slot = tasks[t].slot
    BY <1>2, <1>5 DEF TaskRecord
  <2>3. k.done = tasks[t].done
    BY <1>2 DEF TaskRecord
  <2> HIDE DEF k
  <2>4. TaskOK(k, t, approved)
    BY <1>3, <1>5, <2>2, <2>3 DEF TaskOK
  <2>5. tasks[t].outcome = "none"
    BY <1>3, <1>5 DEF TaskOK
  <2>6. QED BY <1>1, <1>5, <2>1, <2>2, <2>4, <2>5, TaskMoves
<1>6. ASSUME NEW pc \in {"dial", "tls"}, Goes(t, pc), tasks[t].pc \in {"check", "dial", "tls"},
             approved \subseteq approved', <<t, tasks[t].addr>> \in approved'
      PROVE  SocketInv'
  <2> DEFINE k == [tasks[t] EXCEPT !.pc = pc]
  <2>1. tasks' = [tasks EXCEPT ![t] = k]
    BY <1>1, <1>2, <1>6 DEF Goes
  <2>2. /\ k \in TaskRecord /\ k.pc = pc /\ k.outcome = tasks[t].outcome
        /\ k.owner = tasks[t].owner /\ k.name = tasks[t].name /\ k.addr = tasks[t].addr
        /\ k.slot = tasks[t].slot
    BY <1>2, <1>6 DEF TaskRecord
  <2>3. k.done = tasks[t].done
    BY <1>2 DEF TaskRecord
  <2> HIDE DEF k
  <2>4. TaskOK(k, t, approved')
    BY <1>3, <1>6, <2>2, <2>3 DEF TaskOK
  <2>5. QED BY <1>1, <1>6, <2>1, <2>2, <2>4, TaskMoves
<1>7. ASSUME NEW b \in BOOLEAN, TaskCheck(t, b) PROVE SocketInv'
  <2>1. tasks[t].pc = "check"
    BY <1>7 DEF TaskCheck, Pc
  <2>2. CASE b = TRUE
    <3>1. Goes(t, "dial") /\ approved' = approved \union {<<t, tasks[t].addr>>}
      BY <1>7, <2>2 DEF TaskCheck
    <3>2. QED BY <1>6, <2>1, <3>1
  <2>3. CASE b = FALSE
    <3>1. Ends(t, "access-denied") /\ approved' = approved
      BY <1>7, <2>3 DEF TaskCheck
    <3>2. "access-denied" \in Outcomes
      BY DEF Outcomes
    <3>3. QED BY <1>5, <2>1, <3>1, <3>2
  <2>4. QED BY <2>2, <2>3
<1>8. ASSUME NEW b \in BOOLEAN, TaskDial(t, b) PROVE SocketInv'
  <2>1. tasks[t].pc = "dial" /\ approved' = approved
    BY <1>8 DEF TaskDial, Pc
  <2>2. Goes(t, "tls") \/ Ends(t, "refused")
    BY <1>8 DEF TaskDial
  <2>3. "refused" \in Outcomes /\ <<t, tasks[t].addr>> \in approved
    BY <1>3, <2>1 DEF Outcomes, TaskOK
  <2>4. QED BY <1>5, <1>6, <2>1, <2>2, <2>3
<1>9. ASSUME NEW b \in BOOLEAN, TaskTls(t, b) PROVE SocketInv'
  <2>1. tasks[t].pc = "tls" /\ approved' = approved
    BY <1>9 DEF TaskTls, Pc
  <2>2. {"invalid-argument", "ok", "connection-reset"} \subseteq Outcomes
    BY DEF Outcomes
  <2>3. CASE tasks[t].name \in BadNames
    <3>1. Ends(t, "invalid-argument")
      BY <1>9, <2>3, Zenon DEF TaskTls
    <3>2. QED BY <1>5, <2>1, <2>2, <3>1
  <2>4. CASE tasks[t].name \notin BadNames
    <3>1. Ends(t, IF b THEN "ok" ELSE "connection-reset")
      BY <1>9, <2>4, Zenon DEF TaskTls
    <3>2. Ends(t, "ok") \/ Ends(t, "connection-reset")
      BY <3>1
    <3>3. QED BY <1>5, <2>1, <2>2, <2>4, <3>2
  <2>5. QED BY <2>3, <2>4
<1>10. CASE TaskStore(t)
  <2> DEFINE k == [tasks[t] EXCEPT !.slot = tasks[t].outcome, !.pc = "signal"]
  <2>1. tasks[t].pc = "store" /\ approved' = approved /\ tasks' = [tasks EXCEPT ![t] = k]
    BY <1>1, <1>2, <1>10 DEF TaskStore, Pc
  <2>2. /\ k \in TaskRecord /\ k.pc = "signal" /\ k.outcome = tasks[t].outcome
        /\ k.owner = tasks[t].owner /\ k.name = tasks[t].name /\ k.addr = tasks[t].addr
        /\ k.slot = tasks[t].outcome
    BY <1>2 DEF TaskRecord
  <2>3. k.done = tasks[t].done
    BY <1>2 DEF TaskRecord
  <2> HIDE DEF k
  <2>4. TaskOK(k, t, approved) /\ k.slot # "none"
    BY <1>3, <2>1, <2>2, <2>3 DEF TaskOK
  <2>5. QED BY <1>1, <2>1, <2>2, <2>4, TaskMoves
<1>11. CASE TaskSignal(t)
  <2> DEFINE k == [tasks[t] EXCEPT !.done = TRUE, !.pc = "end"]
  <2>1. tasks[t].pc = "signal" /\ approved' = approved /\ tasks' = [tasks EXCEPT ![t] = k]
    BY <1>1, <1>2, <1>11 DEF TaskSignal, Pc
  <2>2. TRUE \in BOOLEAN
    OBVIOUS
  <2>3. /\ k \in TaskRecord /\ k.pc = "end" /\ k.outcome = tasks[t].outcome
        /\ k.owner = tasks[t].owner /\ k.name = tasks[t].name /\ k.addr = tasks[t].addr
        /\ k.slot = tasks[t].slot
    BY <1>2, <2>2 DEF TaskRecord
  <2> HIDE DEF k
  <2>4. TaskOK(k, t, approved)
    BY <1>3, <2>1, <2>3 DEF TaskOK
  <2>5. QED BY <1>1, <2>1, <2>3, <2>4, TaskMoves
<1>12. QED BY <1>7, <1>8, <1>9, <1>10, <1>11 DEF TaskRuns

\* A connect is started for the socket at its index, with the name behind the
\* handle and the address picked for it.
LEMMA StartKeeps ==
  ASSUME SocketInv, TableInv, NEW rep \in Reps, NEW h \in DOMAIN table, StartConnect(rep, h),
         table' = table
  PROVE  SocketInv'
<1> USE DEF SocketInv
<1> DEFINE n == NewTask(rep, h)
           N == Len(tasks)
           e == [st |-> "connecting", remote |-> h, task |-> N + 1]
<1>1. /\ alive[rep] /\ tunnels[rep].st = "none"
      /\ tasks' = Append(tasks, n)
      /\ tunnels' = [tunnels EXCEPT ![rep] = e]
      /\ UNCHANGED <<gen, alive, approved, table>>
  BY DEF StartConnect, sockVars
<1>2. tasks \in Seq(TaskRecord) /\ N \in Nat /\ DOMAIN tasks = 1..N
  BY LenProperties DEF ConnectTypeOK
<1>3. h \in HandleSpace /\ table[h].hostname \in Names /\ PickAddr(table[h].addrs) \in RealAddrs
  <2>1. h \in HandleSpace /\ table[h] \in Entry /\ table[h].addrs # <<>>
    BY DEF TableInv
  <2>2. table[h].addrs \in Seq(RealAddrs) /\ table[h].hostname \in Names
    BY <2>1 DEF Entry
  <2>3. QED BY <2>1, <2>2, PickAddrBest
<1>4. /\ n \in TaskRecord /\ n.pc = "check" /\ n.owner = <<rep, gen[rep]>>
      /\ n.name = table[h].hostname /\ n.addr = PickAddr(table[h].addrs)
      /\ n.outcome = "none" /\ n.slot = "none"
  <2>1. <<rep, gen[rep]>> \in Reps \X Nat /\ FALSE \in BOOLEAN
    BY DEF ConnectTypeOK
  <2>2. QED BY <1>3, <2>1 DEF NewTask, TaskRecord, Outcomes
<1>5. n.done = FALSE
  BY DEF NewTask
<1>6. e \in TunnelRecord /\ e.st = "connecting" /\ e.remote = h /\ e.task = N + 1
  BY <1>2, <1>3 DEF TunnelRecord
<1> HIDE DEF n, e
<1>7. /\ tasks' \in Seq(TaskRecord) /\ DOMAIN tasks' = 1..(N + 1)
      /\ tasks'[N + 1] = n /\ \A u \in 1..N : tasks'[u] = tasks[u]
  <2>1. /\ Append(tasks, n) \in Seq(TaskRecord) /\ Len(Append(tasks, n)) = N + 1
        /\ Append(tasks, n)[N + 1] = n /\ \A u \in 1..N : Append(tasks, n)[u] = tasks[u]
    BY <1>2, <1>4, AppendProperties
  <2>2. QED BY <1>1, <2>1, LenProperties
<1> HIDE DEF N
<1>8. tunnels'[rep] = e /\ \A r \in Reps \ {rep} : tunnels'[r] = tunnels[r]
  BY <1>1 DEF ConnectTypeOK
<1>9. ConnectTypeOK'
  BY <1>1, <1>6, <1>7 DEF ConnectTypeOK
<1>10. \A u \in 1..(N + 1) : u \in 1..N \/ u = N + 1
  BY <1>2
<1>11. TaskInv'
  <2>1. TaskOK(n, N + 1, approved)
    BY <1>4, <1>5 DEF TaskOK
  <2>2. \A u \in 1..N : TaskOK(tasks[u], u, approved)
    BY <1>2 DEF TaskInv
  <2>3. \A u \in 1..(N + 1) : TaskOK(tasks'[u], u, approved)
    BY <1>7, <1>10, <2>1, <2>2
  <2>4. QED BY <1>1, <1>7, <2>3 DEF TaskInv
<1>12. ASSUME NEW r \in Reps, tunnels'[r].st # "none"
       PROVE  /\ tunnels'[r].task \in 1..(N + 1)
              /\ TunnelOK(tunnels[r], tasks[tunnels[r].task], r)'
  <2>1. CASE r = rep
    <3>1. tunnels'[r] = e /\ tasks'[tunnels'[r].task] = n /\ tunnels'[r].task \in 1..(N + 1)
      BY <1>2, <1>6, <1>7, <1>8, <2>1
    <3>2. /\ alive'[r] /\ n.owner = <<r, gen'[r]>> /\ e.remote \in DOMAIN table'
          /\ n.name = table'[e.remote].hostname /\ n.addr = PickAddr(table'[e.remote].addrs)
      BY <1>1, <1>4, <1>6, <2>1
    <3>3. n.pc \notin {"signal", "end"} /\ e.st # "connected"
      BY <1>4, <1>6
    <3>4. QED BY <3>1, <3>2, <3>3, Zenon DEF TunnelOK
  <2>2. CASE r # rep
    <3>1. tunnels'[r] = tunnels[r]
      BY <1>8, <2>2
    <3>2. tunnels[r].task \in 1..N /\ TunnelOK(tunnels[r], tasks[tunnels[r].task], r)
      BY <1>2, <1>12, <3>1 DEF TunnelInv
    <3>3. tasks'[tunnels'[r].task] = tasks[tunnels[r].task] /\ tunnels'[r].task \in 1..(N + 1)
      BY <1>2, <1>7, <3>1, <3>2
    <3>4. QED BY <1>1, <3>1, <3>2, <3>3, Zenon DEF TunnelOK
  <2>3. QED BY <2>1, <2>2
<1>13. TunnelInv'
  BY <1>7, <1>12 DEF TunnelInv
<1>14. QED BY <1>9, <1>11, <1>13

\* finish_connect takes the outcome of the socket's own task.
LEMMA FinishKeeps ==
  ASSUME SocketInv, NEW rep \in Reps, FinishConnect(rep), table' = table
  PROVE  SocketInv'
<1> USE DEF SocketInv
<1> DEFINE t == tunnels[rep].task
           k == [tasks[t] EXCEPT !.slot = "none"]
           st == IF tasks[t].slot = "ok" THEN "connected" ELSE "failed"
           e == [tunnels[rep] EXCEPT !.st = st]
<1>1. /\ alive[rep] /\ tunnels[rep].st = "connecting" /\ tasks[t].slot # "none"
      /\ tasks' = [tasks EXCEPT ![t].slot = "none"]
      /\ tunnels' = [tunnels EXCEPT ![rep].st = st]
      /\ UNCHANGED <<gen, alive, approved, table>>
  BY DEF FinishConnect, sockVars
<1>2. t \in DOMAIN tasks /\ TunnelOK(tunnels[rep], tasks[t], rep)
  BY <1>1 DEF TunnelInv
<1>3. /\ tasks \in Seq(TaskRecord) /\ DOMAIN tasks = 1..Len(tasks) /\ tasks[t] \in TaskRecord
      /\ tunnels[rep] \in TunnelRecord
  BY <1>2, LenProperties, ElementOfSeq DEF ConnectTypeOK
<1>4. TaskOK(tasks[t], t, approved)
  BY <1>2 DEF TaskInv
<1>5. /\ k \in TaskRecord /\ k.pc = tasks[t].pc /\ k.outcome = tasks[t].outcome
      /\ k.owner = tasks[t].owner /\ k.name = tasks[t].name /\ k.addr = tasks[t].addr
      /\ k.slot = "none"
  BY <1>3 DEF TaskRecord, Outcomes
<1>6. k.done = tasks[t].done
  BY <1>3 DEF TaskRecord
<1>7. st \in {"connected", "failed"} /\ (st = "connected" => tasks[t].outcome = "ok")
  BY <1>4 DEF TaskOK
<1> HIDE DEF st
<1>8. e \in TunnelRecord /\ e.st = st /\ e.remote = tunnels[rep].remote /\ e.task = t
  BY <1>3, <1>7 DEF TunnelRecord
<1>9. tasks' = [tasks EXCEPT ![t] = k] /\ tunnels' = [tunnels EXCEPT ![rep] = e]
  BY <1>1, <1>2, <1>3 DEF ConnectTypeOK
<1> HIDE DEF k, e
<1>10. /\ tasks' \in Seq(TaskRecord) /\ DOMAIN tasks' = DOMAIN tasks
       /\ tasks'[t] = k /\ \A u \in DOMAIN tasks \ {t} : tasks'[u] = tasks[u]
  BY <1>2, <1>3, <1>5, <1>9, ExceptSeq, LenProperties
<1>11. tunnels'[rep] = e /\ \A r \in Reps \ {rep} : tunnels'[r] = tunnels[r]
  BY <1>9 DEF ConnectTypeOK
<1>12. ConnectTypeOK'
  <2>1. gen' \in [Reps -> Nat] /\ alive' \in [Reps -> BOOLEAN]
    BY <1>1 DEF ConnectTypeOK
  <2>2. tunnels' \in [Reps -> TunnelRecord]
    BY <1>8, <1>9 DEF ConnectTypeOK
  <2>3. QED BY <1>10, <2>1, <2>2 DEF ConnectTypeOK
<1>13. TaskInv'
  <2>1. TaskOK(k, t, approved)
    BY <1>4, <1>5, <1>6 DEF TaskOK
  <2>2. QED BY <1>1, <1>10, <2>1 DEF TaskInv
<1>14. ASSUME NEW r \in Reps, tunnels'[r].st # "none"
       PROVE  /\ tunnels'[r].task \in DOMAIN tasks
              /\ TunnelOK(tunnels[r], tasks[tunnels[r].task], r)'
  <2>1. CASE r = rep
    <3>1. tunnels'[r] = e /\ tunnels'[r].task = t /\ tasks'[tunnels'[r].task] = k
      BY <1>8, <1>10, <1>11, <2>1
    <3>2. /\ alive'[r] /\ k.owner = <<r, gen'[r]>> /\ e.remote \in DOMAIN table'
          /\ k.name = table'[e.remote].hostname /\ k.addr = PickAddr(table'[e.remote].addrs)
      BY <1>1, <1>2, <1>5, <1>8, <2>1, Zenon DEF TunnelOK
    <3>3. e.st # "connecting" /\ (e.st = "connected" => k.outcome = "ok")
      BY <1>5, <1>7, <1>8
    <3>4. QED BY <1>2, <3>1, <3>2, <3>3, Zenon DEF TunnelOK
  <2>2. CASE r # rep
    <3>1. tunnels'[r] = tunnels[r]
      BY <1>11, <2>2
    <3>2. /\ tunnels[r].task \in DOMAIN tasks /\ tunnels[r].st # "none"
          /\ TunnelOK(tunnels[r], tasks[tunnels[r].task], r)
      BY <1>14, <3>1 DEF TunnelInv
    <3>3. tunnels[r].task # t
      BY <1>1, <2>2, <3>2, OneTunnelPerTask
    <3>4. tasks'[tunnels'[r].task] = tasks[tunnels[r].task] /\ tunnels'[r].task \in DOMAIN tasks
      BY <1>10, <3>1, <3>2, <3>3
    <3>5. QED BY <1>1, <3>1, <3>2, <3>4, Zenon DEF TunnelOK
  <2>3. QED BY <2>1, <2>2
<1>15. TunnelInv'
  BY <1>10, <1>14 DEF TunnelInv
<1>16. QED BY <1>12, <1>13, <1>15

\* A socket comes or goes at an index without a tunnel, or takes its tunnel
\* with it; tunnels elsewhere stay.
LEMMA SocketKeeps ==
  ASSUME SocketInv, NEW rep \in Reps, UNCHANGED <<tasks, approved, table>>,
         gen' \in [Reps -> Nat], alive' \in [Reps -> BOOLEAN],
         tunnels' \in [Reps -> TunnelRecord], tunnels'[rep].st = "none",
         \A r \in Reps \ {rep} :
           alive'[r] = alive[r] /\ gen'[r] = gen[r] /\ tunnels'[r] = tunnels[r]
  PROVE  SocketInv'
<1> USE DEF SocketInv
<1>1. ConnectTypeOK' /\ TaskInv'
  BY DEF ConnectTypeOK, TaskInv
<1>2. ASSUME NEW r \in Reps, tunnels'[r].st # "none"
      PROVE  /\ tunnels'[r].task \in DOMAIN tasks'
             /\ TunnelOK(tunnels[r], tasks[tunnels[r].task], r)'
  <2>1. r # rep
    BY <1>2
  <2>2. tunnels'[r] = tunnels[r] /\ gen'[r] = gen[r]
    BY <2>1
  <2>3. alive'[r] = alive[r]
    BY <2>1
  <2>4. tunnels[r].task \in DOMAIN tasks /\ TunnelOK(tunnels[r], tasks[tunnels[r].task], r)
    BY <1>2, <2>2 DEF TunnelInv
  <2>5. QED BY <2>2, <2>3, <2>4, Zenon DEF TunnelOK
<1>3. TunnelInv'
  BY <1>2 DEF TunnelInv
<1>4. QED BY <1>1, <1>3

\* Every step of the sockets and their tasks.
LEMMA ConnectStep ==
  ASSUME SocketInv, TableInv, ConnectNext, table' = table
  PROVE  SocketInv'
<1> USE DEF SocketInv
<1>1. ASSUME NEW rep \in Reps, NEW how \in {"fresh", "connected"}, Create(rep, how)
      PROVE  SocketInv'
  <2>1. /\ gen' = [gen EXCEPT ![rep] = @ + 1] /\ UNCHANGED <<tunnels, tasks, approved>>
    BY <1>1 DEF Create
  <2>2. alive' = [alive EXCEPT ![rep] = TRUE] /\ ~alive[rep]
    BY <1>1 DEF Create
  <2>3. tunnels[rep].st = "none"
    BY <2>2 DEF TunnelInv, TunnelOK
  <2>4. gen' \in [Reps -> Nat] /\ \A r \in Reps \ {rep} : gen'[r] = gen[r]
    BY <2>1 DEF ConnectTypeOK
  <2>5. alive' \in [Reps -> BOOLEAN] /\ \A r \in Reps \ {rep} : alive'[r] = alive[r]
    BY <2>2 DEF ConnectTypeOK
  <2>6. tunnels' \in [Reps -> TunnelRecord] /\ tunnels'[rep].st = "none" /\ tunnels' = tunnels
    BY <2>1, <2>3 DEF ConnectTypeOK
  <2>7. QED BY <2>1, <2>4, <2>5, <2>6, SocketKeeps
<1>2. ASSUME NEW rep \in Reps, DropSocket(rep) PROVE SocketInv'
  <2>1. /\ tunnels' = [tunnels EXCEPT ![rep] = NoTunnel] /\ gen' = gen
        /\ UNCHANGED <<tasks, approved>>
    BY <1>2 DEF DropSocket
  <2>2. alive' = [alive EXCEPT ![rep] = FALSE]
    BY <1>2 DEF DropSocket
  <2>3. alive' \in [Reps -> BOOLEAN] /\ \A r \in Reps \ {rep} : alive'[r] = alive[r]
    BY <2>2 DEF ConnectTypeOK
  <2>4. NoTunnel \in TunnelRecord /\ NoTunnel.st = "none"
    BY DEF NoTunnel, TunnelRecord
  <2>5. /\ tunnels' \in [Reps -> TunnelRecord] /\ tunnels'[rep].st = "none"
        /\ \A r \in Reps \ {rep} : tunnels'[r] = tunnels[r]
    BY <2>1, <2>4 DEF ConnectTypeOK
  <2>6. gen' \in [Reps -> Nat]
    BY <2>1 DEF ConnectTypeOK
  <2>7. QED BY <2>1, <2>3, <2>5, <2>6, SocketKeeps
<1>3. ASSUME NEW rep \in Reps, StartConnectPlain(rep) \/ FinishPlain(rep) PROVE SocketInv'
  <2>1. UNCHANGED <<gen, alive, tunnels, tasks, approved, table>>
    BY <1>3 DEF StartConnectPlain, FinishPlain
  <2>2. QED BY <2>1, Zenon DEF ConnectTypeOK, TaskInv, TunnelInv, TunnelOK
<1>4. ASSUME NEW rep \in Reps, NEW h \in DOMAIN table, StartConnect(rep, h) PROVE SocketInv'
  BY <1>4, StartKeeps
<1>5. ASSUME NEW rep \in Reps, FinishConnect(rep) PROVE SocketInv'
  BY <1>5, FinishKeeps
<1>6. ASSUME NEW t, TaskRuns(t) PROVE SocketInv'
  BY <1>6, TaskKeeps
<1>7. QED BY <1>1, <1>2, <1>3, <1>4, <1>5, <1>6 DEF ConnectNext

-----------------------------------------------------------------------------
(* Theorems *)

\* The inductive invariant of lookups, sockets and connect tasks: what was
\* drained and what is left is the answer, a tunnel's task was started for the
\* socket at its index, and an outcome waits in its slot until it is taken.
THEOREM ConnectInvCorrect == Spec => []ConnectInv
<1> USE DEF ConnectInv
<1>1. Init => ConnectInv
  <2> SUFFICES ASSUME Init PROVE ConnectInv
    OBVIOUS
  <2>1. /\ <<>> \in Seq(RealAddrs) /\ <<>> \in Seq(RealAddrs \union HandleSpace)
        /\ NoResolve \in ResolveRecord /\ Inner("absent", <<>>) \in InnerRecord
        /\ <<>> \in Seq(TaskRecord) /\ NoTunnel \in TunnelRecord /\ NoTunnel.st = "none"
    BY DEF NoResolve, ResolveRecord, Inner, InnerRecord, NoTunnel, TunnelRecord
  <2>2. LookupTypeOK
    BY <2>1 DEF Init, ResolveInit, LookupTypeOK
  <2>3. TableInv
    BY DEF Init, ResolveInit, TableInv, EmptyTable
  <2>4. \A r \in Lookups : resolves[r] = NoResolve /\ inner[r].st = "absent"
    BY DEF Init, ResolveInit, Inner
  <2>5. LookupInv
    BY <2>4 DEF LookupInv, StreamOK, AbsentClean, UnansweredEmpty, PlainPasses, OptedDrains, Open
  <2>6. gen \in [Reps -> Nat] /\ tunnels \in [Reps -> TunnelRecord] /\ tasks \in Seq(TaskRecord)
    BY <2>1 DEF Init, ConnectInit
  <2>7. alive \in [Reps -> BOOLEAN]
    BY DEF Init, ConnectInit
  <2>8. ConnectTypeOK
    BY <2>6, <2>7 DEF ConnectTypeOK
  <2>9. TaskInv
    BY DEF Init, ConnectInit, TaskInv
  <2>10. TunnelInv
    BY <2>1 DEF Init, ConnectInit, TunnelInv
  <2>11. QED BY <2>2, <2>3, <2>5, <2>8, <2>9, <2>10
<1>2. ConnectInv /\ [Next]_vars => ConnectInv'
  <2> SUFFICES ASSUME ConnectInv, [Next]_vars PROVE ConnectInv'
    OBVIOUS
  <2>1. CASE ResolveNext /\ UNCHANGED connectVars
    <3>1. ResolveInv' /\ Grows
      BY <2>1, ResolveStep DEF ResolveInv
    <3>2. TunnelInv'
      BY <2>1, <3>1, TunnelsKept
    <3>3. ConnectTypeOK' /\ TaskInv'
      BY <2>1 DEF connectVars, sockVars, ConnectTypeOK, TaskInv
    <3>4. QED BY <3>1, <3>2, <3>3 DEF ResolveInv
  <2>2. CASE ConnectNext /\ UNCHANGED lookupVars
    <3>1. SocketInv'
      BY <2>2, ConnectStep DEF SocketInv, lookupVars
    <3>2. LookupTypeOK' /\ TableInv'
      BY <2>2 DEF lookupVars, streamVars, LookupTypeOK, TableInv
    <3>3. Grows /\ \A r \in Lookups : StreamUnchanged(r)
      BY <2>2 DEF lookupVars, streamVars, Grows, StreamUnchanged
    <3>4. LookupInv'
      BY <3>3, StreamKept DEF LookupInv
    <3>5. QED BY <3>1, <3>2, <3>4 DEF SocketInv
  <2>3. CASE UNCHANGED vars
    <3>1. LookupTypeOK' /\ TableInv' /\ ConnectTypeOK' /\ TaskInv'
      BY <2>3 DEF vars, lookupVars, streamVars, connectVars, sockVars,
                  LookupTypeOK, TableInv, ConnectTypeOK, TaskInv
    <3>2. Grows /\ \A r \in Lookups : StreamUnchanged(r)
      BY <2>3 DEF vars, lookupVars, streamVars, Grows, StreamUnchanged
    <3>3. LookupInv'
      BY <3>2, StreamKept DEF LookupInv
    <3>4. TunnelInv'
      BY <2>3, <3>2, TunnelsKept DEF vars
    <3>5. QED BY <3>1, <3>3, <3>4
  <2>4. QED BY <2>1, <2>2, <2>3 DEF Next
<1>3. QED BY <1>1, <1>2, PTL DEF Spec

\* A guest sees of a name what it asked for: of an opted-in one a single handle
\* for the whole answer, of another one the addresses as they are, also when
\* the delegated stream blocks in between or the index was used before
\* (resolve_next_address of rust/tls-virt-wasmtime/src/p2.rs).
THEOREM LookupsResolveAsAsked == Spec => []ResolvedAsAsked
<1>1. ConnectInv => ResolvedAsAsked
  <2> SUFFICES ASSUME ConnectInv, NEW r \in Lookups, Open(r)
               PROVE  IF opted[r] THEN OnlyFaithfulHandle(r) ELSE PlainUnchanged(r)
    BY DEF ResolvedAsAsked
  <2>1. StreamOK(r)
    BY DEF ConnectInv, LookupInv
  <2>2. CASE opted[r]
    <3>1. CASE given[r] = <<>>
      <4>1. Len(<<>>) = 0 /\ DOMAIN <<>> = {}
        OBVIOUS
      <4>2. QED BY <2>2, <3>1, <4>1 DEF OnlyFaithfulHandle
    <3>2. QED BY <2>1, <2>2, <3>1 DEF StreamOK, OptedDrains
  <2>3. CASE ~opted[r]
    BY <2>1, <2>3 DEF StreamOK, PlainPasses, PlainUnchanged
  <2>4. QED BY <2>2, <2>3
<1>2. QED BY <1>1, ConnectInvCorrect, PTL

\* A pollable that is ready means that finish_connect has an answer, however
\* the task's unlock and its signal interleave with the guest's calls.
THEOREM ReadyIsFinished == Spec => []ReadyMeansFinished
<1>1. ConnectInv => ReadyMeansFinished
  <2> SUFFICES ASSUME ConnectInv, NEW r \in Reps, tunnels[r].st = "connecting", Ready(r)
               PROVE  tasks[tunnels[r].task].slot # "none"
    BY DEF ReadyMeansFinished
  <2> DEFINE k == tasks[tunnels[r].task]
  <2>1. tunnels[r].task \in DOMAIN tasks /\ TunnelOK(tunnels[r], k, r)
    BY DEF ConnectInv, TunnelInv
  <2>2. TaskOK(k, tunnels[r].task, approved)
    BY <2>1 DEF ConnectInv, TaskInv
  <2>3. k.pc = "end"
    BY <2>2 DEF Ready, TaskOK
  <2>4. QED BY <2>1, <2>3 DEF TunnelOK
<1>2. QED BY <1>1, ConnectInvCorrect, PTL

\* A tunnel belongs to the socket that is at its index now, also while a task
\* of an earlier socket there still runs, and a connected one was dialed with
\* the name looked up, at an address answered for it and allowed.
THEOREM TunnelsAreAsDialed == Spec => []ConnectedAsDialed
<1>1. ConnectInv => ConnectedAsDialed
  <2> SUFFICES ASSUME ConnectInv, NEW r \in Reps, tunnels[r].st # "none"
               PROVE  TunnelIsOwn(r) /\ (tunnels[r].st = "connected" => AsDialed(r))
    BY DEF ConnectedAsDialed
  <2> DEFINE k == tasks[tunnels[r].task]
             e == table[tunnels[r].remote]
  <2>1. tunnels[r].task \in DOMAIN tasks /\ TunnelOK(tunnels[r], k, r)
    BY DEF ConnectInv, TunnelInv
  <2>2. TaskOK(k, tunnels[r].task, approved)
    BY <2>1 DEF ConnectInv, TaskInv
  <2>3. TunnelIsOwn(r)
    BY <2>1 DEF TunnelOK, TunnelIsOwn
  <2>4. e \in Entry /\ e.addrs # <<>>
    BY <2>1 DEF TunnelOK, ConnectInv, TableInv
  <2>5. e.addrs \in Seq(RealAddrs)
    BY <2>4 DEF Entry
  <2>6. /\ PickAddr(e.addrs) \in {e.addrs[i] : i \in DOMAIN e.addrs}
        /\ {e.addrs[i] : i \in DOMAIN e.addrs} \cap V6Addrs # {} => PickAddr(e.addrs) \in V6Addrs
    BY <2>4, <2>5, PickAddrBest
  <2>7. ASSUME tunnels[r].st = "connected" PROVE AsDialed(r)
    <3>1. k.outcome = "ok" /\ k.name = e.hostname /\ k.addr = PickAddr(e.addrs)
      BY <2>1, <2>7 DEF TunnelOK
    <3>2. k.name \notin BadNames /\ <<tunnels[r].task, k.addr>> \in approved
      BY <2>2, <3>1 DEF TaskOK
    <3>3. QED BY <2>6, <3>1, <3>2, Zenon DEF AsDialed
  <2>8. QED BY <2>3, <2>7
<1>2. QED BY <1>1, ConnectInvCorrect, PTL

\* No call and no late task changes an outcome that finish_connect reported:
\* only dropping the socket does.
THEOREM OutcomesStand == Spec => OutcomeStands
<1> DEFINE A == \A r \in Reps :
                  tunnels[r].st \in {"connected", "failed"} =>
                    tunnels'[r] = tunnels[r] \/ ~alive'[r]
<1>1. ConnectInv /\ [Next]_vars => [A]_vars
  <2> SUFFICES ASSUME ConnectInv, Next, NEW r \in Reps, tunnels[r].st \in {"connected", "failed"}
               PROVE  tunnels'[r] = tunnels[r] \/ ~alive'[r]
    OBVIOUS
  <2>1. ConnectTypeOK
    BY DEF ConnectInv
  <2>2. CASE UNCHANGED connectVars
    BY <2>2 DEF connectVars
  <2>3. ASSUME NEW t, TaskRuns(t) PROVE tunnels' = tunnels
    BY <2>3 DEF TaskRuns, TaskCheck, TaskDial, TaskTls, TaskStore, TaskSignal
  <2>4. ASSUME NEW rep \in Reps, NEW how, Create(rep, how) PROVE tunnels' = tunnels
    BY <2>4 DEF Create
  <2>5. ASSUME NEW rep \in Reps, StartConnectPlain(rep) \/ FinishPlain(rep) PROVE tunnels' = tunnels
    BY <2>5 DEF StartConnectPlain, FinishPlain
  <2>6. ASSUME NEW rep \in Reps, DropSocket(rep) PROVE tunnels'[r] = tunnels[r] \/ ~alive'[r]
    BY <2>1, <2>6 DEF DropSocket, ConnectTypeOK
  <2>7. ASSUME NEW rep \in Reps, NEW h, StartConnect(rep, h) PROVE tunnels'[r] = tunnels[r]
    BY <2>1, <2>7 DEF StartConnect, ConnectTypeOK
  <2>8. ASSUME NEW rep \in Reps, FinishConnect(rep) PROVE tunnels'[r] = tunnels[r]
    <3>1. rep # r
      BY <2>8 DEF FinishConnect
    <3>2. \E st : tunnels' = [tunnels EXCEPT ![rep].st = st]
      BY <2>8, Zenon DEF FinishConnect
    <3>3. QED BY <2>1, <3>1, <3>2 DEF ConnectTypeOK
  <2>9. QED BY <2>2, <2>3, <2>4, <2>5, <2>6, <2>7, <2>8 DEF Next, ConnectNext
<1>2. QED BY <1>1, ConnectInvCorrect, PTL DEF Spec, OutcomeStands

=============================================================================
