-------------------------- MODULE HandshakeProofs --------------------------
(***************************************************************************)
(* Theorems about TlsWiring and Handshake, for any keys, authorities,      *)
(* signers, protocols, and any number of wirings, calls and handshakes.    *)
(***************************************************************************)
EXTENDS Handshake, SequenceTheorems, WellFoundedInduction, TLAPS

-----------------------------------------------------------------------------
(* Types *)

GuestId ==
  [posture : {"in-guest"}, chain : Seq(Certificates), key : Ed25519Keys,
   schemes : {<<"ed25519">>}]
ExternalId ==
  [posture : {"external"}, chain : Seq(Certificates), key : Keys, schemes : Seq(SignerSchemes)]
StrangerId == [NoIdentity EXCEPT !.posture = "stranger"]

\* What the component's identities are: identity::delegated refuses a signer
\* without a scheme.
WebId == GuestId \union {id \in ExternalId : id.schemes # <<>>}

\* What raw-key identities are: a chain of one SPKI.
RawId == {id \in GuestId \union ExternalId : Len(id.chain) = 1}

EndRecord ==
  [role : {"client", "server"}, raw : BOOLEAN, roots : SUBSET Authorities,
   pin : Keys \union {NoKey}, id : GuestId \union ExternalId \union {NoIdentity, StrangerId},
   quic : BOOLEAN, alpn : Alpn \union {None}, early : BOOLEAN, kept : BOOLEAN]

\* The endpoints the configurations build, and strangers.
Ends ==
  {e \in EndRecord :
     ~IsStranger(e) =>
       /\ e.role = "server" => e.id \in IF e.raw THEN RawId ELSE WebId
       /\ e.role = "client" /\ e.raw => e.id \in RawId /\ e.pin \in Ed25519Keys}

Fates == {"wired", "run", "dropped"}

Wiring == [dir : Dirs, fate : Fates]

WiringShape ==
  /\ wirings \in Seq(Wiring)
  /\ wired \in [Dirs -> Nat]
  /\ conns \in Seq([send : Nat, receive : Nat, end : Ends, at : Nat])

WiringTypeOK ==
  /\ signer \in Signers \union {NoSigner}
  /\ identities \subseteq WebId
  /\ identity \in WebId \union {NoIdentity}
  /\ WiringShape

Signatures == [by : Keys \union {NoKey}, scheme : SignerSchemes \union {None}, over : Nat]

Phases == {"idle", "hello", "served", "answered", "done", "failed"}

Tickets ==
  [no : Nat, nth : Nat, root : Nat, client : Ends, server : Ends,
   chain : Seq(Certificates), cchain : Seq(Certificates)]

Handshakes ==
  [no : Nat, phase : Phases, client : Ends, server : Ends, broke : BOOLEAN,
   chain : Seq(Certificates), sig : Signatures,
   cchain : Seq(Certificates), csig : Signatures, cdone : BOOLEAN, sdone : BOOLEAN,
   offer : Tickets, resumed : BOOLEAN, root : Nat]

HandshakeTypeOK ==
  /\ hs \in Handshakes
  /\ hs.client.role = "client" /\ hs.server.role = "server"
  /\ signed \subseteq Signatures

SessionTypeOK ==
  sessions \subseteq Tickets /\ offered \subseteq Tickets /\ taken \in Seq(Tickets)

-----------------------------------------------------------------------------
(* Wirings *)

\* What a direction holds is the last wiring of that direction.
HeldInv ==
  \A d \in Dirs : wired[d] # 0 =>
    /\ wired[d] \in DOMAIN wirings
    /\ wirings[wired[d]].dir = d
    /\ \A w \in DOMAIN wirings : wirings[w].dir = d => w <= wired[d]

\* A connection runs two wirings that existed when it began, one of each
\* direction.
ConnInv ==
  \A i \in DOMAIN conns :
    /\ conns[i].at <= Len(wirings)
    /\ \A d \in Dirs : /\ conns[i][d] \in DOMAIN wirings
                       /\ conns[i][d] <= conns[i].at
                       /\ wirings[conns[i][d]].dir = d


-----------------------------------------------------------------------------
(* Handshakes *)

\* The signature comes from an endpoint of this code, or from a stranger that
\* made it with a key of its own.
Given(sig, end) == sig \in signed \/ (IsStranger(end) /\ sig.by \in StrangerKeys)

\* The signature of the identity, in this handshake, under a scheme of its own.
SignedAs(sig, id) ==
  /\ sig.by = id.key /\ sig.over = hs.no
  /\ \E i \in DOMAIN id.schemes : sig.scheme = id.schemes[i]

\* What the flights carry while they are judged.
FlightInv ==
  /\ hs.phase # "idle" => hs.no > 0
  /\ hs.phase \in {"idle", "hello", "served"} => ~hs.cdone /\ hs.csig = NoSignature
  /\ hs.phase \in {"idle", "hello", "served", "answered"} => ~hs.sdone
  /\ hs.phase = "served" /\ ~hs.resumed =>
       /\ Given(hs.sig, hs.server)
       /\ ~IsStranger(hs.server) => /\ hs.chain = hs.server.id.chain
                                    /\ SignedAs(hs.sig, hs.server.id)
  /\ hs.phase = "answered" /\ ~IsStranger(hs.client) => hs.cdone
  /\ hs.phase = "answered" /\ ~hs.resumed =>
       /\ hs.csig = NoSignature \/ Given(hs.csig, hs.client)
       /\ ~IsStranger(hs.client) =>
            \/ /\ hs.cchain = hs.client.id.chain
               /\ SignedAs(hs.csig, hs.client.id)
            \/ ~hs.client.raw
            \/ choose_scheme(hs.client.id, Offered(TRUE)) = None

\* The holder of the key signed handshake `root`, or is a stranger who takes
\* part: ProvedBy, of any two ends and any set S of signatures.
RestsOn(S, key, root, c, s) ==
  \/ \E g \in S : g.by = key /\ g.over = root
  \/ key \in StrangerKeys /\ (IsStranger(c) \/ IsStranger(s))

\* The key a client trusts in a server that presents the chain.
TrustedKey(c, chain) == IF c.raw THEN c.pin ELSE chain[1].key

\* What a session stores was authenticated in the full handshake it goes back
\* to, by each end of it that is of this code.
TicketOK(S, t) ==
  /\ ~IsStranger(t.client) =>
       /\ RestsOn(S, TrustedKey(t.client, t.chain), t.root, t.client, t.server)
       /\ ~t.client.raw => t.chain[1].issuer \in t.client.roots
  /\ ~IsStranger(t.server) /\ t.server.raw =>
       /\ public_key_from_ed25519_spki(t.cchain[1]) # NoKey
       /\ RestsOn(S, public_key_from_ed25519_spki(t.cchain[1]), t.root, t.client, t.server)

\* A resumed handshake goes on with what its ticket stands for.
FromTicket ==
  /\ hs.offer # NoTicket /\ hs.root = hs.offer.root /\ hs.server = hs.offer.server
  /\ hs.chain = hs.offer.chain /\ hs.cchain = hs.offer.cchain
  /\ hs.phase \in {"answered", "done"} => hs.client = hs.offer.client

OfferInv ==
  /\ hs.offer # NoTicket =>
       /\ TicketOK(signed, hs.offer)
       /\ ~IsStranger(hs.client) => hs.client = hs.offer.client
  /\ hs.phase \in {"idle", "hello"} => ~hs.resumed
  /\ hs.resumed => FromTicket
  /\ ~hs.resumed => hs.root = hs.no

HandshakeInv == HandshakeTypeOK /\ FlightInv /\ OfferInv /\ Authenticated /\ CompatibleMeet

\* A ticket is of an earlier handshake, or of this one when it has ended.
Issued(t) == t.no <= hs.no /\ (t.no = hs.no => hs.phase = "done")

\* What servers and clients keep between handshakes.
StoreInv ==
  /\ SessionTypeOK
  /\ \A t \in sessions \union offered : TicketOK(signed, t)
  /\ \A t \in sessions : Issued(t)
  /\ \A i \in DOMAIN taken : Issued(taken[i]) /\ taken[i] \notin sessions
  /\ EarlyDataOnce

\* Within a handshake its number stays and signatures are only added.
Goes == hs'.no = hs.no /\ signed \subseteq signed'

-----------------------------------------------------------------------------
(* Each wiring once *)

\* Become changes the fate of the wirings it names and nothing else.
LEMMA BecomeFact ==
  ASSUME wirings \in Seq(Wiring), NEW STATE ws, NEW f \in Fates
  PROVE  /\ Become(ws, f) \in Seq(Wiring)
         /\ Len(Become(ws, f)) = Len(wirings)
         /\ \A w \in 1..Len(wirings) :
              /\ Become(ws, f)[w].dir = wirings[w].dir
              /\ Become(ws, f)[w].fate = IF w \in ws THEN f ELSE wirings[w].fate
<1> DEFINE B == Become(ws, f)
<1>1. DOMAIN wirings = 1..Len(wirings) /\ Len(wirings) \in Nat
  BY LenProperties
<1>2. \A w \in 1..Len(wirings) : wirings[w] \in Wiring
  BY ElementOfSeq
<1>3. \A w \in 1..Len(wirings) :
        /\ B[w] \in Wiring /\ B[w].dir = wirings[w].dir
        /\ B[w].fate = IF w \in ws THEN f ELSE wirings[w].fate
  BY <1>1, <1>2 DEF Become, Wiring
<1>4. B = [w \in 1..Len(wirings) |-> B[w]]
  BY <1>1 DEF Become
<1> HIDE DEF B
<1>5. B \in [1..Len(wirings) -> Wiring]
  BY <1>3, <1>4
<1>6. B \in Seq(Wiring) /\ Len(B) = Len(wirings)
  BY <1>1, <1>5
<1>7. QED BY <1>3, <1>6 DEF B

\* The parts of wirings and connections have their types.
LEMMA ShapeFacts ==
  ASSUME WiringShape
  PROVE  /\ Len(wirings) \in Nat /\ DOMAIN wirings = 1..Len(wirings)
         /\ \A w \in 1..Len(wirings) : wirings[w].dir \in Dirs /\ wirings[w].fate \in Fates
         /\ Len(conns) \in Nat /\ DOMAIN conns = 1..Len(conns)
         /\ \A i \in 1..Len(conns) :
              conns[i].at \in Nat /\ \A d \in Dirs : conns[i][d] \in Nat
<1> USE DEF WiringShape
<1>1. \A w \in 1..Len(wirings) : wirings[w] \in Wiring
  BY ElementOfSeq
<1>2. \A i \in 1..Len(conns) : conns[i] \in [send : Nat, receive : Nat, end : Ends, at : Nat]
  BY ElementOfSeq
<1>3. \A i \in 1..Len(conns) : conns[i].at \in Nat /\ \A d \in Dirs : conns[i][d] \in Nat
  BY <1>2 DEF Dirs
<1>4. \A w \in 1..Len(wirings) : wirings[w].dir \in Dirs /\ wirings[w].fate \in Fates
  BY <1>1 DEF Wiring
<1>5. QED BY <1>3, <1>4, LenProperties

\* Some connection runs w in direction d; w is not later than what any
\* connection that began after it runs in direction d.
RunIn(cs, w, d) == \E i \in DOMAIN cs : cs[i][d] = w
NotLater(cs, w, d) == \A i \in DOMAIN cs : w <= cs[i].at => w <= cs[i][d]
Distinct(cs) == \A i, j \in DOMAIN cs : \A d \in Dirs : cs[i][d] = cs[j][d] => i = j

OnceInv ==
  /\ \A w \in DOMAIN wirings :
       /\ wirings[w].fate = "wired" <=> wired[wirings[w].dir] = w
       /\ wirings[w].fate = "run" <=> RunIn(conns, w, wirings[w].dir)
       /\ NotLater(conns, w, wirings[w].dir)
  /\ Distinct(conns)

WiringInv == HeldInv /\ ConnInv /\ OnceInv

\* EachWiringOnce, by its parts.
LEMMA OnceParts == EachWiringOnce <=> OnceInv
BY Zenon DEF EachWiringOnce, OnceInv, RunIn, NotLater, Distinct

\* Releasing what some directions hold keeps every wiring in one place.
LEMMA ReleaseKeeps ==
  ASSUME WiringShape, WiringInv, NEW D \in SUBSET Dirs,
         wirings' = Become({wired[d] : d \in D}, "dropped"),
         wired' = [d \in Dirs |-> IF d \in D THEN 0 ELSE wired[d]],
         conns' = conns
  PROVE  WiringShape' /\ WiringInv'
<1> USE DEF WiringShape, WiringInv
<1> DEFINE ws == {wired[d] : d \in D}
<1>1. "dropped" \in Fates
  BY DEF Fates
<1>2. /\ wirings' \in Seq(Wiring) /\ Len(wirings') = Len(wirings)
      /\ \A w \in 1..Len(wirings) :
           /\ wirings'[w].dir = wirings[w].dir
           /\ wirings'[w].fate = IF w \in ws THEN "dropped" ELSE wirings[w].fate
  BY <1>1, BecomeFact
<1>3. DOMAIN wirings = 1..Len(wirings) /\ DOMAIN wirings' = 1..Len(wirings)
  BY <1>2
<1>4. \A w \in 1..Len(wirings) : wirings[w].dir \in Dirs
  BY ShapeFacts
<1>5. WiringShape'
  BY <1>2
<1>6. HeldInv'
  BY <1>2, <1>3 DEF HeldInv
<1>7. ConnInv'
  BY <1>2, <1>3 DEF ConnInv
<1>8. ASSUME NEW w \in 1..Len(wirings)
      PROVE  w \in ws <=> wired[wirings[w].dir] = w /\ wirings[w].dir \in D
  <2>1. ASSUME NEW d \in D, w = wired[d] PROVE wirings[w].dir = d
    BY <2>1 DEF HeldInv
  <2>2. QED BY <2>1
<1>9. OnceInv'
  <2>1. ASSUME NEW w \in 1..Len(wirings)
        PROVE  /\ wirings'[w].fate = "wired" <=> wired'[wirings'[w].dir] = w
               /\ wirings'[w].fate = "run" <=> RunIn(conns, w, wirings[w].dir)
               /\ NotLater(conns, w, wirings[w].dir)
    <3>1. /\ wirings[w].fate = "wired" <=> wired[wirings[w].dir] = w
          /\ wirings[w].fate = "run" <=> RunIn(conns, w, wirings[w].dir)
          /\ NotLater(conns, w, wirings[w].dir)
      BY <1>3 DEF OnceInv
    <3>2. wired'[wirings'[w].dir] = IF wirings[w].dir \in D THEN 0 ELSE wired[wirings[w].dir]
      BY <1>2, <1>4
    <3>3. wirings'[w].fate = "wired" <=> wired'[wirings'[w].dir] = w
      <4>1. w # 0 /\ (w \in ws => wirings[w].dir \in D)
        BY <1>8
      <4>2. CASE w \in ws
        BY <1>2, <3>2, <4>1, <4>2
      <4>3. CASE w \notin ws
        <5>1. wirings'[w].fate = wirings[w].fate
          BY <1>2, <4>3
        <5>2. wired[wirings[w].dir] = w => wirings[w].dir \notin D
          BY <1>8, <4>3
        <5>3. QED BY <3>1, <3>2, <4>1, <5>1, <5>2
      <4>4. QED BY <4>2, <4>3
    <3>4. wirings'[w].fate = "run" <=> wirings[w].fate = "run"
      BY <1>2, <1>8, <3>1
    <3>5. QED BY <3>1, <3>3, <3>4
  <2>2. Distinct(conns)
    BY DEF OnceInv
  <2>3. \A w \in 1..Len(wirings) : wirings'[w].dir = wirings[w].dir
    BY <1>2
  <2>4. ASSUME NEW w \in 1..Len(wirings)
        PROVE  /\ wirings'[w].fate = "wired" <=> wired'[wirings'[w].dir] = w
               /\ wirings'[w].fate = "run" <=> RunIn(conns, w, wirings'[w].dir)
               /\ NotLater(conns, w, wirings'[w].dir)
    BY <2>1, <2>3
  <2> HIDE DEF WiringShape, WiringInv
  <2>5. QED BY <1>3, <2>2, <2>4 DEF OnceInv
<1>10. QED BY <1>5, <1>6, <1>7, <1>9

\* A new wiring replaces what its direction held.
LEMMA WireKeeps ==
  ASSUME WiringShape, WiringInv, NEW d \in Dirs, Wire(d)
  PROVE  WiringShape' /\ WiringInv'
<1> USE DEF WiringShape, WiringInv
<1> DEFINE L == Len(wirings)
           B == Become({wired[d]}, "dropped")
           new == [dir |-> d, fate |-> "wired"]
<1>1. /\ wirings' = Append(B, new)
      /\ wired' = [wired EXCEPT ![d] = L + 1]
      /\ conns' = conns
  BY DEF Wire
<1>2. "dropped" \in Fates /\ new \in Wiring
  BY DEF Fates, Wiring
<1>3. /\ B \in Seq(Wiring) /\ Len(B) = L
      /\ \A w \in 1..L : /\ B[w].dir = wirings[w].dir
                         /\ B[w].fate = IF w \in {wired[d]} THEN "dropped" ELSE wirings[w].fate
  BY <1>2, BecomeFact
<1> HIDE DEF B
<1>4. L \in Nat /\ DOMAIN wirings = 1..L
  OBVIOUS
<1>5. /\ wirings' \in Seq(Wiring) /\ Len(wirings') = L + 1
      /\ DOMAIN wirings' = 1..(L + 1)
      /\ \A w \in 1..L : wirings'[w] = B[w]
      /\ wirings'[L + 1] = new
  BY <1>1, <1>2, <1>3
<1>6. /\ wirings'[L + 1].dir = d /\ wirings'[L + 1].fate = "wired"
      /\ \A w \in 1..L : /\ wirings'[w].dir = wirings[w].dir
                         /\ wirings'[w].fate = IF w = wired[d] THEN "dropped" ELSE wirings[w].fate
  <2>1. new.dir = d /\ new.fate = "wired"
    OBVIOUS
  <2> HIDE DEF new
  <2>2. \A w \in 1..L : w \in {wired[d]} <=> w = wired[d]
    OBVIOUS
  <2>3. QED BY <1>3, <1>5, <2>1, <2>2, Zenon
<1>7. \A w \in 1..L : wirings[w].dir \in Dirs
  BY ShapeFacts
<1>8. wired'[d] = L + 1 /\ \A e \in Dirs \ {d} : wired'[e] = wired[e]
  BY <1>1
<1> HIDE DEF L, new
<1>9. WiringShape'
  BY <1>1, <1>4, <1>5
<1>10. HeldInv'
  <2>1. ASSUME NEW e \in Dirs, wired'[e] # 0
        PROVE  /\ wired'[e] \in 1..(L + 1)
               /\ wirings'[wired'[e]].dir = e
               /\ \A w \in 1..(L + 1) : wirings'[w].dir = e => w <= wired'[e]
    <3>1. CASE e = d
      BY <1>4, <1>6, <1>8, <3>1
    <3>2. CASE e # d
      <4>1. /\ wired[e] \in 1..L /\ wirings[wired[e]].dir = e
            /\ \A w \in 1..L : wirings[w].dir = e => w <= wired[e]
        BY <1>4, <1>8, <2>1, <3>2 DEF HeldInv
      <4>2. \A w \in 1..(L + 1) : w \in 1..L \/ w = L + 1
        BY <1>4
      <4>3. wired'[e] = wired[e]
        BY <1>8, <3>2
      <4>4. wired'[e] \in 1..(L + 1) /\ wirings'[wired'[e]].dir = e
        BY <1>4, <1>6, <4>1, <4>3
      <4>5. \A w \in 1..L : wirings'[w].dir = e => w <= wired'[e]
        BY <1>6, <4>1, <4>3
      <4>6. wirings'[L + 1].dir # e
        BY <1>6, <3>2
      <4>7. QED BY <4>2, <4>4, <4>5, <4>6
    <3>3. QED BY <3>1, <3>2
  <2>2. QED BY <1>5, <2>1 DEF HeldInv
<1>11. ConnInv'
  <2>1. ASSUME NEW i \in DOMAIN conns
        PROVE  /\ conns[i].at <= L + 1
               /\ \A e \in Dirs : /\ conns[i][e] \in 1..(L + 1)
                                  /\ conns[i][e] <= conns[i].at
                                  /\ wirings'[conns[i][e]].dir = e
    <3>1. /\ conns[i].at <= L
          /\ \A e \in Dirs : /\ conns[i][e] \in 1..L
                             /\ conns[i][e] <= conns[i].at
                             /\ wirings[conns[i][e]].dir = e
      BY <1>4, Zenon DEF ConnInv, L
    <3>2. conns[i].at \in Nat
      BY ShapeFacts
    <3>3. conns[i].at <= L + 1
      BY <1>4, <3>1, <3>2
    <3>4. \A k \in 1..L : k \in 1..(L + 1)
      BY <1>4
    <3>5. QED BY <1>6, <3>1, <3>3, <3>4
  <2>2. QED BY <1>1, <1>5, <2>1 DEF ConnInv
<1>12. OnceInv'
  <2>1. ASSUME NEW w \in 1..L
        PROVE  /\ wirings'[w].fate = "wired" <=> wired'[wirings'[w].dir] = w
               /\ wirings'[w].fate = "run" <=> RunIn(conns, w, wirings[w].dir)
               /\ NotLater(conns, w, wirings[w].dir)
    <3>1. /\ wirings[w].fate = "wired" <=> wired[wirings[w].dir] = w
          /\ wirings[w].fate = "run" <=> RunIn(conns, w, wirings[w].dir)
          /\ NotLater(conns, w, wirings[w].dir)
      BY <1>4 DEF OnceInv
    <3>2. wirings'[w].dir = wirings[w].dir
      BY <1>6
    <3>3. w = wired[d] => wirings[w].dir = d
      BY <1>4 DEF HeldInv
    <3>4. w # L + 1
      BY <1>4
    <3>5. wirings'[w].fate = "wired" <=> wired'[wirings'[w].dir] = w
      BY <1>6, <1>7, <1>8, <3>1, <3>2, <3>3, <3>4
    <3>6. wirings'[w].fate = "run" <=> wirings[w].fate = "run"
      BY <1>6, <3>1, <3>3
    <3>7. QED BY <3>1, <3>5, <3>6
  <2>2. /\ wirings'[L + 1].fate = "wired" <=> wired'[wirings'[L + 1].dir] = L + 1
        /\ wirings'[L + 1].fate = "run" <=> RunIn(conns, L + 1, d)
        /\ NotLater(conns, L + 1, d)
    <3>1. \A i \in DOMAIN conns : conns[i].at <= L /\ conns[i][d] \in 1..L
      BY <1>4, Zenon DEF ConnInv, L
    <3>2. \A i \in DOMAIN conns : conns[i].at \in Nat
      BY ShapeFacts
    <3>3. \A i \in DOMAIN conns : conns[i][d] # L + 1 /\ ~(L + 1 <= conns[i].at)
      BY <1>4, <3>1, <3>2
    <3>4. ~RunIn(conns, L + 1, d) /\ NotLater(conns, L + 1, d)
      BY <3>3, Zenon DEF RunIn, NotLater
    <3>5. QED BY <1>6, <1>8, <3>4
  <2>3. Distinct(conns)
    BY DEF OnceInv
  <2>4. \A w \in 1..(L + 1) : w \in 1..L \/ w = L + 1
    BY <1>4
  <2>5. ASSUME NEW w \in 1..(L + 1)
        PROVE  /\ wirings'[w].fate = "wired" <=> wired'[wirings'[w].dir] = w
               /\ wirings'[w].fate = "run" <=> RunIn(conns, w, wirings'[w].dir)
               /\ NotLater(conns, w, wirings'[w].dir)
    BY <1>6, <2>1, <2>2, <2>4
  <2>6. QED BY <1>1, <1>5, <2>3, <2>5 DEF OnceInv
<1>13. QED BY <1>9, <1>10, <1>11, <1>12

\* A connection takes both directions' wirings, each the last of its kind.
LEMMA TakeKeeps ==
  ASSUME WiringShape, WiringInv, NEW STATE end, end \in Ends,
         wired["send"] # 0, wired["receive"] # 0,
         conns' = Append(conns, Connection(end)),
         wirings' = Become({wired["send"], wired["receive"]}, "run"),
         wired' = NotWired
  PROVE  WiringShape' /\ WiringInv'
<1> DEFINE L == Len(wirings)
           N == Len(conns)
           C == Connection(end)
           ws == {wired["send"], wired["receive"]}
<1>1. /\ L \in Nat /\ DOMAIN wirings = 1..L
      /\ \A w \in 1..L : wirings[w].dir \in Dirs
      /\ N \in Nat /\ DOMAIN conns = 1..N
      /\ \A d \in Dirs : wired[d] \in Nat
  BY ShapeFacts DEF WiringShape
<1>2. /\ wirings' \in Seq(Wiring) /\ Len(wirings') = L
      /\ \A w \in 1..L : /\ wirings'[w].dir = wirings[w].dir
                         /\ wirings'[w].fate = IF w \in ws THEN "run" ELSE wirings[w].fate
  <2>1. "run" \in Fates /\ wirings \in Seq(Wiring)
    BY DEF Fates, WiringShape
  <2>2. QED BY <2>1, BecomeFact
<1>3. C \in [send : Nat, receive : Nat, end : Ends, at : Nat]
  BY <1>1 DEF Connection, Dirs
<1>4. C.at = L /\ \A d \in Dirs : C[d] = wired[d]
  BY DEF Connection, Dirs
<1> HIDE DEF C
<1>5. /\ conns' \in Seq([send : Nat, receive : Nat, end : Ends, at : Nat])
      /\ Len(conns') = N + 1 /\ conns'[N + 1] = C
      /\ \A i \in 1..N : conns'[i] = conns[i]
  BY <1>3 DEF WiringShape, C
<1>6. DOMAIN conns' = 1..(N + 1) /\ DOMAIN wirings' = 1..L
  BY <1>2, <1>5
<1>7. \A d \in Dirs : wired'[d] = 0
  BY DEF NotWired
<1>8. WiringShape'
  BY <1>2, <1>5 DEF WiringShape, NotWired
<1>9. HeldInv'
  BY <1>7 DEF HeldInv
<1>10. \A d \in Dirs : /\ wired[d] # 0 /\ wired[d] \in 1..L /\ wirings[wired[d]].dir = d
                       /\ \A w \in 1..L : wirings[w].dir = d => w <= wired[d]
  BY <1>1 DEF WiringInv, HeldInv, Dirs
<1>11. \A w \in 1..L : w \in ws <=> wired[wirings[w].dir] = w
  BY <1>1, <1>10 DEF Dirs
<1>12. \A i \in 1..(N + 1) : i \in 1..N \/ i = N + 1
  BY <1>1
<1> HIDE DEF L, N, ws
<1>13. ConnInv'
  <2>1. ASSUME NEW i \in 1..(N + 1)
        PROVE  /\ conns'[i].at <= L
               /\ \A d \in Dirs : /\ conns'[i][d] \in 1..L /\ conns'[i][d] <= conns'[i].at
                                  /\ wirings'[conns'[i][d]].dir = d
    <3>1. CASE i \in 1..N
      <4>1. /\ conns[i].at <= L
            /\ \A d \in Dirs : /\ conns[i][d] \in 1..L /\ conns[i][d] <= conns[i].at
                               /\ wirings[conns[i][d]].dir = d
        BY <1>1, <3>1 DEF WiringInv, ConnInv, L
      <4>2. QED BY <1>2, <1>5, <3>1, <4>1
    <3>2. CASE i = N + 1
      <4>1. conns'[i].at = L /\ \A d \in Dirs : conns'[i][d] = wired[d]
        BY <1>4, <1>5, <3>2
      <4>2. \A k \in 1..L : k <= L
        BY <1>1
      <4>3. L <= L
        BY <1>1
      <4>4. \A d \in Dirs : wired[d] \in 1..L /\ wired[d] <= L /\ wirings'[wired[d]].dir = d
        BY <1>2, <1>10, <4>2
      <4>5. QED BY <4>1, <4>3, <4>4, Zenon
    <3>3. QED BY <1>12, <3>1, <3>2
  <2>2. QED BY <1>2, <1>6, <2>1 DEF ConnInv
<1>14. \A w \in 1..L : \A d \in Dirs : RunIn(conns', w, d) <=> RunIn(conns, w, d) \/ wired[d] = w
  <2> TAKE w \in 1..L
  <2> TAKE d \in Dirs
  <2>1. (\E i \in 1..(N + 1) : conns'[i][d] = w) <=> (\E i \in 1..N : conns[i][d] = w) \/ wired[d] = w
    <3>1. conns'[N + 1][d] = wired[d] /\ N + 1 \in 1..(N + 1)
      BY <1>1, <1>4, <1>5
    <3>2. \A i \in 1..N : conns'[i][d] = conns[i][d] /\ i \in 1..(N + 1)
      BY <1>1, <1>5
    <3>3. QED BY <1>12, <3>1, <3>2, Zenon
  <2>2. QED BY <1>1, <1>6, <2>1 DEF RunIn
<1>15. ASSUME NEW w \in 1..L, NotLater(conns, w, wirings[w].dir)
       PROVE  NotLater(conns', w, wirings[w].dir)
  <2>1. \A i \in 1..N : w <= conns[i].at => w <= conns[i][wirings[w].dir]
    BY <1>1, <1>15 DEF NotLater
  <2>2. w <= conns'[N + 1][wirings[w].dir]
    <3>1. wirings[w].dir \in Dirs
      BY <1>1
    <3>2. conns'[N + 1][wirings[w].dir] = wired[wirings[w].dir]
      BY <1>4, <1>5, <3>1
    <3>3. QED BY <1>10, <3>1, <3>2
  <2>3. QED BY <1>5, <1>6, <1>12, <2>1, <2>2 DEF NotLater
<1>16. Distinct(conns')
  <2>1. \A i, j \in 1..N : \A d \in Dirs : conns[i][d] = conns[j][d] => i = j
    <3>1. Distinct(conns)
      BY DEF WiringInv, OnceInv
    <3>2. \A i, j \in DOMAIN conns : \A d \in Dirs : conns[i][d] = conns[j][d] => i = j
      BY <3>1 DEF Distinct
    <3>3. DOMAIN conns = 1..N
      BY <1>1
    <3>4. QED BY <3>2, <3>3
  <2>2. ASSUME NEW i \in 1..N, NEW d \in Dirs PROVE conns[i][d] # wired[d]
    <3>1. SUFFICES ASSUME conns[i][d] = wired[d] PROVE FALSE
      OBVIOUS
    <3>2. RunIn(conns, wired[d], d)
      BY <1>1, <3>1 DEF RunIn
    <3>3. wired[d] \in 1..L /\ wirings[wired[d]].dir = d
      BY <1>10
    <3>4. wirings[wired[d]].fate = "wired" /\ wirings[wired[d]].fate = "run"
      BY <1>1, <3>2, <3>3 DEF WiringInv, OnceInv
    <3>5. QED BY <3>4
  <2>3. \A d \in Dirs : conns'[N + 1][d] = wired[d]
    BY <1>4, <1>5
  <2>4. ASSUME NEW i \in 1..(N + 1), NEW j \in 1..(N + 1), NEW d \in Dirs,
               conns'[i][d] = conns'[j][d]
        PROVE  i = j
    <3>1. CASE i \in 1..N /\ j \in 1..N
      <4>1. conns'[i][d] = conns[i][d] /\ conns'[j][d] = conns[j][d]
        BY <1>5, <3>1
      <4>2. QED BY <2>1, <2>4, <3>1, <4>1, Zenon
    <3>2. CASE i \in 1..N /\ j = N + 1
      BY <1>5, <2>2, <2>3, <2>4, <3>2
    <3>3. CASE i = N + 1 /\ j \in 1..N
      BY <1>5, <2>2, <2>3, <2>4, <3>3
    <3>4. QED BY <1>12, <3>1, <3>2, <3>3
  <2>5. ASSUME NEW i \in DOMAIN conns', NEW j \in DOMAIN conns', NEW d \in Dirs,
               conns'[i][d] = conns'[j][d]
        PROVE  i = j
    <3>1. i \in 1..(N + 1) /\ j \in 1..(N + 1)
      BY <1>6
    <3>2. QED BY <2>4, <2>5, <3>1
  <2>6. QED BY <2>5 DEF Distinct
<1>17. OnceInv'
  <2>1. ASSUME NEW w \in 1..L
        PROVE  /\ wirings'[w].fate = "wired" <=> wired'[wirings'[w].dir] = w
               /\ wirings'[w].fate = "run" <=> RunIn(conns', w, wirings'[w].dir)
               /\ NotLater(conns', w, wirings'[w].dir)
    <3>1. /\ wirings[w].fate = "wired" <=> wired[wirings[w].dir] = w
          /\ wirings[w].fate = "run" <=> RunIn(conns, w, wirings[w].dir)
          /\ NotLater(conns, w, wirings[w].dir)
      BY <1>1 DEF WiringInv, OnceInv
    <3>2. wirings'[w].dir = wirings[w].dir /\ wirings[w].dir \in Dirs
      BY <1>1, <1>2, Zenon
    <3>3. w # 0
      BY <1>1
    <3>4. wirings'[w].fate = IF wired[wirings[w].dir] = w THEN "run" ELSE wirings[w].fate
      BY <1>2, <1>11
    <3>5. QED BY <1>7, <1>14, <1>15, <3>1, <3>2, <3>3, <3>4
  <2>2. QED BY <1>6, <1>16, <2>1 DEF OnceInv
<1>18. QED BY <1>8, <1>9, <1>13, <1>17 DEF WiringInv

-----------------------------------------------------------------------------
(* Identities and endpoints *)

\* A non-empty set of natural numbers has a least member.
LEMMA LeastNatural ==
  ASSUME NEW S \in SUBSET Nat, S # {}
  PROVE  \E i \in S : \A j \in S : i <= j
<1>1. IsWellFoundedOn(OpToRel(<, Nat), Nat)
  BY NatLessThanWellFounded
<1>2. PICK x \in S : \A y \in S : ~(<<y, x>> \in OpToRel(<, Nat))
  BY <1>1, WFMin, Zenon
<1>3. ASSUME NEW y \in S PROVE x <= y
  <2>1. ~(<<y, x>> \in OpToRel(<, Nat))
    BY <1>2
  <2>2. ~(y < x)
    BY <2>1 DEF OpToRel
  <2>3. QED BY <2>2
<1>4. QED BY <1>3

\* choose_scheme finds a scheme that both sides have, whenever there is one.
LEMMA ChosenScheme ==
  ASSUME NEW id, id.schemes \in Seq(SignerSchemes), NEW wanted
  PROVE  \/ /\ \A i \in DOMAIN id.schemes : id.schemes[i] \notin wanted
            /\ choose_scheme(id, wanted) = None
         \/ \E i \in DOMAIN id.schemes : /\ choose_scheme(id, wanted) = id.schemes[i]
                                         /\ id.schemes[i] \in wanted
<1> DEFINE usable == {i \in DOMAIN id.schemes : id.schemes[i] \in wanted}
<1>1. usable \in SUBSET Nat
  BY LenProperties
<1>2. CASE usable = {}
  BY <1>2 DEF choose_scheme
<1>3. CASE usable # {}
  <2>1. \E i \in usable : \A j \in usable : i <= j
    BY <1>1, <1>3, LeastNatural
  <2> DEFINE least == CHOOSE i \in usable : \A j \in usable : i <= j
  <2>2. least \in usable
    BY <2>1
  <2>3. choose_scheme(id, wanted) = id.schemes[least]
    BY <1>3, Zenon DEF choose_scheme
  <2>4. QED BY <2>2, <2>3
<1>4. QED BY <1>2, <1>3

\* In-guest identities are guest identities, and delegated ones external.
LEMMA IdentityTypes ==
  /\ \A chain \in Seq(Certificates), key \in Ed25519Keys : Ed25519Identity(chain, key) \in GuestId
  /\ \A chain \in Seq(Certificates), s \in Signers : DelegatedIdentity(chain, s) \in ExternalId
BY SignersAssumption DEF Ed25519Identity, DelegatedIdentity, GuestId, ExternalId

\* Certificates are certificates.
LEMMA CertificateTypes ==
  /\ \A k \in Keys, a \in Authorities : <<X509(k, a)>> \in Seq(Certificates)
  /\ \A k \in Keys : ed25519_spki(k) \in Certificates /\ <<ed25519_spki(k)>> \in Seq(Certificates)
<1>1. \A k \in Keys, a \in Authorities : X509(k, a) \in Certificates
  BY DEF Certificates
<1>2. \A k \in Keys : ed25519_spki(k) \in Certificates
  BY DEF Certificates
<1>3. \A c \in Certificates : <<c>> \in Seq(Certificates)
  OBVIOUS
<1>4. QED BY <1>1, <1>2, <1>3

\* Every raw-key identity, in the guest or around a signer, presents one SPKI.
LEMMA OurRpkType == OurRpk \subseteq RawId
<1> SUFFICES ASSUME NEW id \in RpkIdentities(Signers) PROVE id \in RawId
  BY DEF OurRpk
<1>1. \A c \in Certificates : Len(<<c>>) = 1
  OBVIOUS
<1>2. CASE \E doc \in Keys : from_pkcs8_der(doc) /\ id = RpkInGuest(doc)
  <2>1. PICK doc \in Keys : from_pkcs8_der(doc) /\ id = RpkInGuest(doc)
    BY <1>2
  <2>2. doc \in Ed25519Keys
    BY <2>1 DEF from_pkcs8_der
  <2>3. id \in GuestId
    BY <2>1, <2>2, CertificateTypes, IdentityTypes DEF RpkInGuest
  <2>4. id.chain = <<ed25519_spki(doc)>>
    BY <2>1 DEF RpkInGuest, Ed25519Identity
  <2>5. Len(id.chain) = 1
    BY <1>1, <2>4, CertificateTypes
  <2>6. QED BY <2>3, <2>5 DEF RawId
<1>3. CASE \E s \in Signers : /\ public_key_from_ed25519_spki(ed25519_spki(s.told)) # NoKey
                              /\ id = RpkExternal(s.told, s)
  <2>1. PICK s \in Signers : /\ public_key_from_ed25519_spki(ed25519_spki(s.told)) # NoKey
                             /\ id = RpkExternal(s.told, s)
    BY <1>3
  <2>2. s.told \in Keys
    BY <2>1 DEF public_key_from_ed25519_spki, ed25519_spki, Keys
  <2>3. id \in ExternalId
    BY <2>1, <2>2, CertificateTypes, IdentityTypes DEF RpkExternal
  <2>4. id.chain = <<ed25519_spki(s.told)>>
    BY <2>1 DEF RpkExternal, DelegatedIdentity
  <2>5. Len(id.chain) = 1
    BY <1>1, <2>2, <2>4, CertificateTypes
  <2>6. QED BY <2>3, <2>5 DEF RawId
<1>4. QED BY <1>2, <1>3 DEF RpkIdentities

\* An endpoint record with the facts of its role is an endpoint.
LEMMA EndType ==
  ASSUME NEW role \in {"client", "server"}, NEW raw \in BOOLEAN,
         NEW roots \in SUBSET Authorities, NEW pin \in Keys \union {NoKey},
         NEW id \in GuestId \union ExternalId \union {NoIdentity, StrangerId},
         NEW alpn \in Alpn \union {None},
         id.posture # "stranger" =>
           /\ role = "server" => id \in IF raw THEN RawId ELSE WebId
           /\ role = "client" /\ raw => id \in RawId /\ pin \in Ed25519Keys
  PROVE  End(role, raw, roots, pin, id, alpn) \in Ends
<1> DEFINE e == End(role, raw, roots, pin, id, alpn)
<1>1. (alpn # None) \in BOOLEAN /\ FALSE \in BOOLEAN
  OBVIOUS
<1>2. e \in EndRecord
  BY <1>1 DEF End, EndRecord
<1>3. e.role = role /\ e.pin = pin /\ e.id = id
  BY DEF End
<1>4. e.raw = raw
  BY DEF End
<1> HIDE DEF e
<1>5. ~IsStranger(e) =>
        /\ e.role = "server" => e.id \in IF e.raw THEN RawId ELSE WebId
        /\ e.role = "client" /\ e.raw => e.id \in RawId /\ e.pin \in Ed25519Keys
  BY <1>3, <1>4, Zenon DEF IsStranger
<1>6. QED BY <1>2, <1>5 DEF Ends, e

\* Early data and a kept configuration change neither role nor trust.
LEMMA EarlyKept ==
  ASSUME NEW e \in Ends
  PROVE  /\ Early(e) \in Ends /\ Early(e).role = e.role
         /\ Kept(e) \in Ends /\ Kept(e).role = e.role
<1>1. ASSUME NEW f, f = Early(e) \/ f = Kept(e) PROVE f \in Ends /\ f.role = e.role
  <2>1. e \in EndRecord /\ TRUE \in BOOLEAN
    BY DEF Ends
  <2>2. f \in EndRecord
    BY <1>1, <2>1 DEF Early, Kept, EndRecord
  <2>3. f.role = e.role /\ f.pin = e.pin /\ f.id = e.id
    BY <1>1, <2>1 DEF Early, Kept, EndRecord
  <2>4. f.raw = e.raw
    BY <1>1, <2>1 DEF Early, Kept, EndRecord
  <2>5. ~IsStranger(f) =>
          /\ f.role = "server" => f.id \in IF f.raw THEN RawId ELSE WebId
          /\ f.role = "client" /\ f.raw => f.id \in RawId /\ f.pin \in Ed25519Keys
    BY <2>3, <2>4, Zenon DEF Ends, IsStranger
  <2>6. QED BY <2>2, <2>3, <2>5 DEF Ends
<1>2. QED BY <1>1

\* Every configuration builds an endpoint, with the identity it was given.
LEMMA ConfigTypes ==
  /\ client_config(Roots) \in Ends
  /\ \A p \in Alpn : quic_client_config(Roots, p) \in Ends
  /\ \A id \in WebId : server_config(id) \in Ends
  /\ \A id \in WebId, p \in Alpn : quic_server_config(id, p) \in Ends
  /\ \A id \in RawId, pin \in Ed25519Keys : rpk_client_config(id, pin) \in Ends
  /\ \A id \in RawId, pin \in Ed25519Keys, p \in Alpn : quic_rpk_client_config(id, pin, p) \in Ends
  /\ \A id \in RawId : rpk_server_config(id) \in Ends
  /\ \A id \in RawId, p \in Alpn : quic_rpk_server_config(id, p) \in Ends
  /\ \A role \in {"client", "server"}, raw \in BOOLEAN, p \in Alpn \union {None} :
       Stranger(role, raw, p) \in Ends
<1> DEFINE AnyId == GuestId \union ExternalId \union {NoIdentity, StrangerId}
<1>1. /\ Roots \in SUBSET Authorities /\ {} \in SUBSET Authorities
      /\ NoKey \in Keys \union {NoKey} /\ Ed25519Keys \subseteq Keys \union {NoKey}
      /\ None \in Alpn \union {None} /\ Alpn \subseteq Alpn \union {None}
      /\ "client" \in {"client", "server"} /\ "server" \in {"client", "server"}
  BY WiringAssumption DEF Keys
<1>2. TRUE \in BOOLEAN /\ FALSE \in BOOLEAN
  OBVIOUS
<1>3. WebId \subseteq AnyId /\ RawId \subseteq AnyId /\ NoIdentity \in AnyId /\ StrangerId \in AnyId
  BY DEF WebId, RawId
<1>4. StrangerId.posture = "stranger"
  BY DEF StrangerId, NoIdentity
<1> HIDE DEF AnyId
<1>5. \A role \in {"client", "server"}, raw \in BOOLEAN, roots \in SUBSET Authorities,
         pin \in Keys \union {NoKey}, id \in AnyId, alpn \in Alpn \union {None} :
        (id.posture # "stranger" =>
           /\ role = "server" => id \in IF raw THEN RawId ELSE WebId
           /\ role = "client" /\ raw => id \in RawId /\ pin \in Ed25519Keys)
        => End(role, raw, roots, pin, id, alpn) \in Ends
  BY EndType DEF AnyId
<1>6. client_config(Roots) \in Ends /\ \A p \in Alpn : quic_client_config(Roots, p) \in Ends
  BY <1>1, <1>2, <1>3, <1>5, EarlyKept, Zenon DEF client_config, quic_client_config
<1>7. \A id \in WebId : server_config(id) \in Ends
  BY <1>1, <1>2, <1>3, <1>5, Zenon DEF server_config
<1>8. \A id \in WebId, p \in Alpn : quic_server_config(id, p) \in Ends
  BY <1>1, <1>2, <1>3, <1>5, EarlyKept, Zenon DEF quic_server_config
<1>9. \A id \in RawId, pin \in Ed25519Keys : rpk_client_config(id, pin) \in Ends
  BY <1>1, <1>2, <1>3, <1>5, Zenon DEF rpk_client_config
<1>10. \A id \in RawId, pin \in Ed25519Keys, p \in Alpn : quic_rpk_client_config(id, pin, p) \in Ends
  BY <1>1, <1>2, <1>3, <1>5, EarlyKept, Zenon DEF quic_rpk_client_config
<1>11. \A id \in RawId : rpk_server_config(id) \in Ends
  BY <1>1, <1>2, <1>3, <1>5, Zenon DEF rpk_server_config
<1>12. \A id \in RawId, p \in Alpn : quic_rpk_server_config(id, p) \in Ends
  BY <1>1, <1>2, <1>3, <1>5, EarlyKept, Zenon DEF quic_rpk_server_config
<1>13. \A role \in {"client", "server"}, raw \in BOOLEAN, p \in Alpn \union {None} :
         Stranger(role, raw, p) \in Ends
  BY <1>1, <1>3, <1>4, <1>5, Zenon DEF Stranger, StrangerId
<1>14. QED BY <1>6, <1>7, <1>8, <1>9, <1>10, <1>11, <1>12, <1>13

-----------------------------------------------------------------------------
(* The component's calls *)

\* take_complete, in each of its three outcomes, keeps every wiring in one
\* place.
LEMMA TakeCompleteKeeps ==
  ASSUME WiringShape, WiringInv, NEW STATE end, end \in Ends, TakeComplete(end)
  PROVE  WiringShape' /\ WiringInv'
<1>1. CASE wired["send"] # 0 /\ wired["receive"] # 0
  <2>1. /\ conns' = Append(conns, Connection(end))
        /\ wirings' = Become({wired["send"], wired["receive"]}, "run")
        /\ wired' = NotWired
    BY <1>1, Zenon DEF TakeComplete
  <2>2. QED BY <1>1, <2>1, TakeKeeps
<1>2. CASE wired["send"] # 0 /\ wired["receive"] = 0
  <2>1. /\ wirings' = Become({wired["send"]}, "dropped")
        /\ wired' = [wired EXCEPT !["send"] = 0]
        /\ conns' = conns
    BY <1>2, Zenon DEF TakeComplete
  <2>2. {wired["send"]} = {wired[d] : d \in {"send"}}
    OBVIOUS
  <2>3. wired' = [d \in Dirs |-> IF d \in {"send"} THEN 0 ELSE wired[d]]
    BY <2>1 DEF WiringShape, Dirs
  <2>4. {"send"} \in SUBSET Dirs
    BY DEF Dirs
  <2>5. wirings' = Become({wired[d] : d \in {"send"}}, "dropped")
    BY <2>1, <2>2
  <2>6. QED BY <2>1, <2>3, <2>4, <2>5, ReleaseKeeps
<1>3. CASE wired["send"] = 0
  <2>1. UNCHANGED <<wirings, wired, conns>>
    BY <1>3 DEF TakeComplete
  <2>2. QED BY <2>1 DEF WiringShape, WiringInv, HeldInv, ConnInv, OnceInv
<1>4. wired["send"] \in Nat /\ wired["receive"] \in Nat
  BY DEF WiringShape, Dirs
<1>5. QED BY <1>1, <1>2, <1>3

\* No call of the component leaves a wiring in two places, or in none.
LEMMA WiringStep ==
  ASSUME WiringTypeOK, WiringInv, WiringNext
  PROVE  WiringTypeOK' /\ WiringInv'
<1> USE DEF WiringTypeOK
<1>0. ASSUME UNCHANGED <<wirings, wired, conns>> PROVE WiringShape' /\ WiringInv'
  BY <1>0 DEF WiringShape, WiringInv, HeldInv, ConnInv, OnceInv
<1>1. CASE MakeIdentity
  <2>1. PICK cert \in {X509(k, a) : k \in Keys, a \in Authorities} :
          \/ \E doc \in Keys \union {Malformed} : MakeEd25519(<<cert>>, doc)
          \/ MakeDelegated(<<cert>>)
    BY <1>1 DEF MakeIdentity
  <2> DEFINE ch == <<cert>>
  <2>2. ch \in Seq(Certificates)
    BY CertificateTypes
  <2> HIDE DEF ch
  <2>3. (\E doc \in Keys \union {Malformed} : MakeEd25519(ch, doc)) \/ MakeDelegated(ch)
    BY <2>1 DEF ch
  <2>4. /\ identities' \subseteq WebId
        /\ UNCHANGED <<signer, resourceVars, wiringVars>>
    <3>1. CASE \E doc \in Keys \union {Malformed} : MakeEd25519(ch, doc)
      <4>1. PICK doc : MakeEd25519(ch, doc)
        BY <3>1
      <4>2. CASE from_pkcs8_der(doc)
        <5>1. Ed25519Identity(ch, doc) \in GuestId
          <6>1. doc \in Ed25519Keys
            BY <4>2 DEF from_pkcs8_der
          <6>2. QED BY <2>2, <6>1, IdentityTypes
        <5>2. QED BY <4>1, <4>2, <5>1 DEF MakeEd25519, WebId
      <4>3. CASE ~from_pkcs8_der(doc)
        BY <4>1, <4>3 DEF MakeEd25519
      <4>4. QED BY <4>2, <4>3
    <3>2. CASE MakeDelegated(ch)
      <4>1. CASE signer # NoSigner /\ signer.schemes # <<>>
        <5>1. DelegatedIdentity(ch, signer) \in ExternalId
          <6>1. signer \in Signers
            BY <4>1
          <6>2. QED BY <2>2, <6>1, IdentityTypes
        <5>2. DelegatedIdentity(ch, signer).schemes = signer.schemes
          BY DEF DelegatedIdentity
        <5>3. DelegatedIdentity(ch, signer) \in WebId
          BY <4>1, <5>1, <5>2 DEF WebId
        <5>4. QED BY <3>2, <4>1, <5>3 DEF MakeDelegated
      <4>2. CASE ~(signer # NoSigner /\ signer.schemes # <<>>)
        BY <3>2, <4>2 DEF MakeDelegated
      <4>3. QED BY <4>1, <4>2
    <3>3. QED BY <2>3, <3>1, <3>2
  <2>5. QED BY <1>0, <2>4 DEF resourceVars, wiringVars
<1>2. CASE NewConnector
  BY <1>0, <1>2 DEF NewConnector, idVars, wiringVars
<1>3. ASSUME NEW id \in identities, NewAcceptor(id) PROVE WiringTypeOK' /\ WiringInv'
  <2>1. identity' \in {id, NoIdentity} /\ UNCHANGED <<idVars, wiringVars, answer>>
    BY <1>3, Zenon DEF NewAcceptor
  <2>2. QED BY <1>0, <2>1 DEF idVars, wiringVars
<1>4. ASSUME NEW d \in Dirs, Wire(d) PROVE WiringTypeOK' /\ WiringInv'
  <2>1. UNCHANGED <<idVars, resourceVars>>
    BY <1>4 DEF Wire
  <2>2. QED BY <1>4, <2>1, WireKeeps DEF idVars, resourceVars
<1>5. ASSUME NEW valid \in BOOLEAN, Connect(valid) PROVE WiringTypeOK' /\ WiringInv'
  <2>1. UNCHANGED <<idVars, resourceVars>>
    BY <1>5, Zenon DEF Connect
  <2>2. TakeComplete(client_config(Roots)) \/ Refused
    BY <1>5, Zenon DEF Connect
  <2>3. WiringShape' /\ WiringInv'
    <3>1. CASE TakeComplete(client_config(Roots))
      BY <3>1, ConfigTypes, TakeCompleteKeeps
    <3>2. CASE Refused
      BY <1>0, <3>2 DEF Refused
    <3>3. QED BY <2>2, <3>1, <3>2
  <2>4. QED BY <2>1, <2>3 DEF idVars, resourceVars
<1>6. ASSUME NEW valid \in BOOLEAN, Accept(valid) PROVE WiringTypeOK' /\ WiringInv'
  <2>1. UNCHANGED idVars /\ identity' = NoIdentity
    BY <1>6, Zenon DEF Accept
  <2>2. (identity # NoIdentity /\ TakeComplete(server_config(identity))) \/ Refused
    BY <1>6, Zenon DEF Accept
  <2>3. WiringShape' /\ WiringInv'
    <3>1. CASE identity # NoIdentity /\ TakeComplete(server_config(identity))
      <4>1. server_config(identity) \in Ends
        BY <3>1, ConfigTypes
      <4>2. QED BY <3>1, <4>1, TakeCompleteKeeps
    <3>2. CASE Refused
      BY <1>0, <3>2 DEF Refused
    <3>3. QED BY <2>2, <3>1, <3>2
  <2>4. QED BY <2>1, <2>3 DEF idVars
<1>7. CASE DropResource
  <2>1. /\ wirings' = Become({wired[d] : d \in Dirs}, "dropped")
        /\ wired' = NotWired
        /\ UNCHANGED <<idVars, identity, conns>>
    BY <1>7 DEF DropResource
  <2>2. wired' = [d \in Dirs |-> IF d \in Dirs THEN 0 ELSE wired[d]]
    BY <2>1 DEF NotWired
  <2>3. WiringShape' /\ WiringInv'
    BY <2>1, <2>2, ReleaseKeeps
  <2>4. QED BY <2>1, <2>3 DEF idVars
<1>8. QED BY <1>1, <1>2, <1>3, <1>4, <1>5, <1>6, <1>7 DEF WiringNext

\* Nothing wired: the state a component begins in.
LEMMA NothingWired ==
  ASSUME identities = {}, identity = NoIdentity, signer \in Signers \union {NoSigner},
         wired = NotWired, wirings = <<>>, conns = <<>>
  PROVE  WiringTypeOK /\ WiringInv
<1>1. wirings \in Seq(Wiring) /\ conns \in Seq([send : Nat, receive : Nat, end : Ends, at : Nat])
  OBVIOUS
<1>2. DOMAIN wirings = {} /\ DOMAIN conns = {}
  OBVIOUS
<1>3. wired \in [Dirs -> Nat] /\ \A d \in Dirs : wired[d] = 0
  BY DEF NotWired
<1>4. WiringTypeOK
  BY <1>1, <1>3 DEF WiringTypeOK, WiringShape
<1>5. WiringInv
  BY <1>2, <1>3 DEF WiringInv, HeldInv, ConnInv, OnceInv, Distinct
<1>6. QED BY <1>4, <1>5

-----------------------------------------------------------------------------
(* What compatible endpoints do *)

\* An endpoint's parts have their types.
LEMMA EndFacts ==
  ASSUME NEW e \in Ends
  PROVE  /\ e.raw \in BOOLEAN
         /\ e.id.schemes \in Seq(SignerSchemes)
         /\ e.id.chain \in Seq(Certificates)
         /\ e.id.key \in Keys \union {NoKey}
         /\ e.id.posture = "in-guest" => e.id.key \in Ed25519Keys
<1>1. e \in EndRecord
  BY DEF Ends
<1>2. e.raw \in BOOLEAN
  BY <1>1 DEF EndRecord
<1>3. e.id \in GuestId \union ExternalId \union {NoIdentity, StrangerId}
  BY <1>1 DEF EndRecord
<1>4. CASE e.id \in GuestId
  <2>1. e.id.schemes = <<"ed25519">> /\ e.id.chain \in Seq(Certificates) /\ e.id.key \in Ed25519Keys
    BY <1>4 DEF GuestId
  <2>2. "ed25519" \in SignerSchemes
    BY DEF SignerSchemes, SIGNATURE_VERIFICATION_SCHEMES
  <2>3. <<"ed25519">> \in Seq(SignerSchemes)
    BY <2>2
  <2>4. QED BY <1>2, <2>1, <2>3 DEF Keys
<1>5. CASE e.id \in ExternalId
  BY <1>2, <1>5 DEF ExternalId
<1>6. CASE e.id \in {NoIdentity, StrangerId}
  <2>1. /\ e.id.schemes = <<>> /\ e.id.chain = <<>> /\ e.id.key = NoKey
        /\ e.id.posture \in {"none", "stranger"}
    BY <1>6 DEF NoIdentity, StrangerId, None
  <2>2. <<>> \in Seq(SignerSchemes) /\ <<>> \in Seq(Certificates)
    OBVIOUS
  <2>3. QED BY <1>2, <2>1, <2>2
<1>7. QED BY <1>3, <1>4, <1>5, <1>6

\* A client offers the schemes it can verify, and None is not a scheme.
LEMMA OfferFacts ==
  /\ None \notin SIGNATURE_VERIFICATION_SCHEMES
  /\ SIGNATURE_VERIFICATION_SCHEMES \subseteq SignerSchemes
  /\ \A raw \in BOOLEAN : Offered(raw) \subseteq SIGNATURE_VERIFICATION_SCHEMES
  /\ \A k : SchemesOf(k) \subseteq Offered(FALSE)
  /\ \A k \in Ed25519Keys : SchemesOf(k) = Offered(TRUE)
BY DEF None, SIGNATURE_VERIFICATION_SCHEMES, SignerSchemes, Offered, SchemesOf

\* An identity with a scheme, all of whose schemes the peer offers, signs.
LEMMA SomeScheme ==
  ASSUME NEW id, id.schemes \in Seq(SignerSchemes), id.schemes # <<>>, NEW raw \in BOOLEAN,
         \A i \in DOMAIN id.schemes : id.schemes[i] \in Offered(raw)
  PROVE  choose_scheme(id, Offered(raw)) # None
<1>1. 1 \in DOMAIN id.schemes
  BY EmptySeq, LenProperties
<1>2. \E i \in DOMAIN id.schemes : choose_scheme(id, Offered(raw)) = id.schemes[i]
                                   /\ id.schemes[i] \in Offered(raw)
  BY <1>1, ChosenScheme
<1>3. QED BY <1>2, OfferFacts

\* A compatible server finds a scheme to sign with.
LEMMA CompatibleServes ==
  ASSUME NEW c \in Ends, NEW s \in Ends, c.role = "client", s.role = "server",
         ~IsStranger(c), ~IsStranger(s), Compatible(c, s)
  PROVE  choose_scheme(s.id, Offered(c.raw)) # None
<1>1. /\ c.raw \in BOOLEAN /\ s.raw \in BOOLEAN /\ s.id.schemes \in Seq(SignerSchemes)
  BY EndFacts
<1>2. /\ c.raw = s.raw /\ s.id.chain[1].key = s.id.key /\ AcceptsServer(c, s.id.chain)
      /\ \A i \in DOMAIN s.id.schemes : s.id.schemes[i] \in SchemesOf(s.id.key)
  BY Zenon DEF Compatible, Signs
<1>3. CASE c.raw = TRUE
  <2>1. s.id.schemes # <<>>
    BY <1>3 DEF Compatible
  <2>2. c.pin \in Ed25519Keys
    BY <1>3 DEF Ends
  <2>3. s.id.chain[1] = ed25519_spki(c.pin)
    BY <1>2, <1>3 DEF AcceptsServer, RpkServerVerifier
  <2>4. s.id.key \in Ed25519Keys
    BY <1>2, <2>2, <2>3 DEF ed25519_spki
  <2>5. SchemesOf(s.id.key) = Offered(TRUE)
    BY <2>4, OfferFacts
  <2>6. \A i \in DOMAIN s.id.schemes : s.id.schemes[i] \in Offered(c.raw)
    BY <1>2, <1>3, <2>5, Zenon
  <2>7. QED BY <1>1, <2>1, <2>6, SomeScheme
<1>4. CASE c.raw = FALSE
  <2>1. s.id \in WebId
    BY <1>2, <1>4 DEF Ends
  <2>2. s.id.schemes # <<>>
    <3>1. CASE s.id \in GuestId
      <4>1. s.id.schemes = <<"ed25519">>
        BY <3>1 DEF GuestId
      <4>2. <<"ed25519">> # <<>>
        OBVIOUS
      <4>3. QED BY <4>1, <4>2
    <3>2. QED BY <2>1, <3>1 DEF WebId
  <2>3. \A i \in DOMAIN s.id.schemes : s.id.schemes[i] \in Offered(c.raw)
    BY <1>2, <1>4, OfferFacts, Zenon
  <2>4. QED BY <1>1, <2>2, <2>3, SomeScheme
<1>5. QED BY <1>1, <1>3, <1>4

\* A compatible raw-key client finds a scheme to answer with.
LEMMA CompatibleAnswers ==
  ASSUME NEW c \in Ends, NEW s \in Ends, Compatible(c, s), c.raw
  PROVE  choose_scheme(c.id, Offered(TRUE)) # None
<1>1. c.id.schemes \in Seq(SignerSchemes)
  BY EndFacts
<1>2. /\ c.id.chain[1].key = c.id.key /\ c.id.schemes # <<>>
      /\ \A i \in DOMAIN c.id.schemes : c.id.schemes[i] \in SchemesOf(c.id.key)
      /\ public_key_from_ed25519_spki(c.id.chain[1]) # NoKey
  BY Zenon DEF Compatible, Signs
<1>3. c.id.key \in Ed25519Keys
  BY <1>2 DEF public_key_from_ed25519_spki
<1>4. SchemesOf(c.id.key) = Offered(TRUE)
  BY <1>3, OfferFacts
<1>5. \A i \in DOMAIN c.id.schemes : c.id.schemes[i] \in Offered(TRUE)
  BY <1>2, <1>4, Zenon
<1>6. TRUE \in BOOLEAN
  OBVIOUS
<1>7. QED BY <1>1, <1>2, <1>5, <1>6, SomeScheme

\* The signature of an identity that presents the key it signs with verifies
\* under its certificate.
LEMMA SignedVerifies ==
  ASSUME NEW sig, NEW id, Signs(id), SignedAs(sig, id)
  PROVE  VerifiesUnder(sig, id.chain[1], hs.no)
BY Zenon DEF Signs, SignedAs, VerifiesUnder

-----------------------------------------------------------------------------
(* The steps of a handshake *)

\* What strangers present and answer with has its type.
LEMMA StrangerTypes ==
  ASSUME HandshakeTypeOK
  PROVE  /\ StrangerChains \subseteq Seq(Certificates)
         /\ StrangerSignatures \subseteq Signatures
         /\ \A sig \in StrangerSignatures : sig.by \in StrangerKeys
<1>1. \A c \in Certificates : <<c>> \in Seq(Certificates) /\ <<c, c>> \in Seq(Certificates)
  OBVIOUS
<1>2. <<>> \in Seq(Certificates)
  OBVIOUS
<1>3. StrangerChains \subseteq Seq(Certificates)
  BY <1>1, <1>2 DEF StrangerChains
<1>4. hs.no \in Nat
  BY DEF HandshakeTypeOK, Handshakes
<1>5. StrangerSignatures \subseteq Signatures
  BY <1>4, StrangerAssumption DEF StrangerSignatures, Signature, Signatures, SignerSchemes
<1>6. \A sig \in StrangerSignatures : sig.by \in StrangerKeys
  BY DEF StrangerSignatures, Signature
<1>7. QED BY <1>3, <1>5, <1>6

\* A handshake that fails keeps everything but its phase; what remains to be
\* shown is that the two were not compatible.
LEMMA FailKeeps ==
  ASSUME HandshakeInv, Fail,
         ~hs.broke /\ ~IsStranger(hs.client) /\ ~IsStranger(hs.server)
           => ~Compatible(hs.client, hs.server),
         hs.phase # "idle"
  PROVE  HandshakeInv' /\ Goes
<1> USE DEF HandshakeInv
<1>1. hs \in Handshakes /\ "failed" \in Phases
  BY DEF HandshakeTypeOK, Phases
<1>2. /\ hs' \in Handshakes /\ hs'.phase = "failed" /\ signed' = signed
      /\ hs'.no = hs.no /\ hs'.client = hs.client /\ hs'.server = hs.server
      /\ hs'.chain = hs.chain /\ hs'.cchain = hs.cchain
      /\ hs'.offer = hs.offer /\ hs'.root = hs.root
  BY <1>1 DEF Fail, Handshakes
<1>3. /\ hs'.cdone = hs.cdone /\ hs'.sdone = hs.sdone /\ hs'.broke = hs.broke
      /\ hs'.resumed = hs.resumed
  BY <1>1 DEF Fail, Handshakes
<1>4. HandshakeTypeOK'
  BY <1>2 DEF HandshakeTypeOK
<1>5. FlightInv'
  BY <1>2 DEF FlightInv
<1>6. Authenticated'
  BY <1>2, <1>3, Zenon DEF Authenticated, ProvedBy, peer_public_key, IsStranger
<1>7. CompatibleMeet'
  BY <1>2, <1>3, Zenon DEF CompatibleMeet, IsStranger
<1>8. OfferInv'
  BY <1>2, <1>3, Zenon DEF OfferInv, FromTicket, IsStranger
<1>9. QED BY <1>2, <1>4, <1>5, <1>6, <1>7, <1>8 DEF Goes

\* A signer that fails ends the handshake, whoever met.
LEMMA SignerBrokeKeeps ==
  ASSUME HandshakeInv, SignerBroke, hs.phase # "idle"
  PROVE  HandshakeInv' /\ Goes
<1> USE DEF HandshakeInv
<1>1. hs \in Handshakes /\ "failed" \in Phases /\ TRUE \in BOOLEAN
  BY DEF HandshakeTypeOK, Phases
<1>2. /\ hs' \in Handshakes /\ hs'.phase = "failed" /\ signed' = signed
      /\ hs'.no = hs.no /\ hs'.client = hs.client /\ hs'.server = hs.server
      /\ hs'.chain = hs.chain /\ hs'.cchain = hs.cchain
      /\ hs'.offer = hs.offer /\ hs'.root = hs.root
  BY <1>1 DEF SignerBroke, Handshakes
<1>3. /\ hs'.cdone = hs.cdone /\ hs'.sdone = hs.sdone /\ hs'.broke = TRUE
      /\ hs'.resumed = hs.resumed
  BY <1>1 DEF SignerBroke, Handshakes
<1>4. HandshakeTypeOK'
  BY <1>2 DEF HandshakeTypeOK
<1>5. FlightInv'
  BY <1>2 DEF FlightInv
<1>6. Authenticated'
  BY <1>2, <1>3, Zenon DEF Authenticated, ProvedBy, peer_public_key, IsStranger
<1>7. CompatibleMeet'
  BY <1>3, Zenon DEF CompatibleMeet
<1>8. OfferInv'
  BY <1>2, <1>3, Zenon DEF OfferInv, FromTicket, IsStranger
<1>9. QED BY <1>2, <1>4, <1>5, <1>6, <1>7, <1>8 DEF Goes

\* No ticket is one between strangers.
LEMMA NoTicketFacts == NoTicket.no = 0 /\ IsStranger(NoTicket.client) /\ IsStranger(NoTicket.server)
BY DEF NoTicket, Ticket, Stranger, IsStranger, End, NoIdentity

\* A ticket stays good as signatures are added.
LEMMA TicketStays ==
  ASSUME NEW S, NEW T, S \subseteq T, NEW t, TicketOK(S, t)
  PROVE  TicketOK(T, t)
BY Zenon DEF TicketOK, RestsOn

\* A flight that arrives is what the invariant says of one being judged, and
\* nobody has finished.
LEMMA ServedKeeps ==
  ASSUME HandshakeInv, hs.phase = "hello",
         NEW STATE ch, ch \in Seq(Certificates), NEW STATE sg, sg \in Signatures,
         hs' = [hs EXCEPT !.phase = "served", !.chain = ch, !.sig = sg],
         signed \subseteq signed', signed' \subseteq Signatures,
         sg \in signed' \/ (IsStranger(hs.server) /\ sg.by \in StrangerKeys),
         ~IsStranger(hs.server) => ch = hs.server.id.chain /\ SignedAs(sg, hs.server.id)
  PROVE  HandshakeInv' /\ Goes
<1> USE DEF HandshakeInv
<1>1. hs \in Handshakes /\ "served" \in Phases
  BY DEF HandshakeTypeOK, Phases
<1>2. /\ hs' \in Handshakes /\ hs'.phase = "served"
      /\ hs'.no = hs.no /\ hs'.client = hs.client /\ hs'.server = hs.server
      /\ hs'.chain = ch /\ hs'.sig = sg /\ hs'.csig = hs.csig
      /\ hs'.offer = hs.offer /\ hs'.root = hs.root
  BY <1>1 DEF Handshakes
<1>3. hs'.cdone = hs.cdone /\ hs'.sdone = hs.sdone /\ hs'.resumed = hs.resumed
  BY <1>1 DEF Handshakes
<1>4. ~hs.cdone /\ ~hs.sdone
  BY DEF FlightInv
<1>5. hs.csig = NoSignature /\ hs.no > 0
  BY DEF FlightInv
<1>6. HandshakeTypeOK'
  BY <1>2 DEF HandshakeTypeOK
<1>7. FlightInv'
  <2>1. Given(hs.sig, hs.server)'
    BY <1>2, Zenon DEF Given, IsStranger
  <2>2. ~IsStranger(hs'.server) =>
          /\ hs'.chain = hs'.server.id.chain
          /\ hs'.sig.by = hs'.server.id.key /\ hs'.sig.over = hs'.no
          /\ \E i \in DOMAIN hs'.server.id.schemes : hs'.sig.scheme = hs'.server.id.schemes[i]
    BY <1>2, Zenon DEF SignedAs
  <2>3. hs'.phase \notin {"answered"} /\ hs'.no > 0 /\ hs'.csig = NoSignature
    BY <1>2, <1>5
  <2>4. ~hs'.cdone /\ ~hs'.sdone
    BY <1>3, <1>4
  <2>5. QED BY <1>2, <2>1, <2>2, <2>3, <2>4, Zenon DEF FlightInv, SignedAs, Given
<1>8. Authenticated'
  BY <1>3, <1>4, Zenon DEF Authenticated
<1>9. CompatibleMeet'
  BY <1>2 DEF CompatibleMeet
<1>10. OfferInv'
  <2>1. ~hs.resumed /\ hs.root = hs.no
    BY DEF OfferInv
  <2>2. hs.offer # NoTicket => TicketOK(signed', hs.offer)
    BY TicketStays DEF OfferInv
  <2>3. QED BY <1>2, <1>3, <2>1, <2>2, Zenon DEF OfferInv, IsStranger
<1>11. QED BY <1>2, <1>6, <1>7, <1>8, <1>9, <1>10 DEF Goes

\* The hello is resumed: both ends have what the ticket stands for, and nobody
\* has finished.
LEMMA ResumedKeeps ==
  ASSUME HandshakeInv, hs.phase = "hello", hs' = Resumed, signed' = signed,
         hs.offer # NoTicket, hs.offer.server = hs.server
  PROVE  HandshakeInv' /\ Goes
<1> USE DEF HandshakeInv
<1>1. hs \in Handshakes /\ "served" \in Phases /\ hs.offer \in Tickets /\ TRUE \in BOOLEAN
  BY DEF HandshakeTypeOK, Handshakes, Phases
<1>2. hs.offer.root \in Nat /\ hs.offer.chain \in Seq(Certificates)
      /\ hs.offer.cchain \in Seq(Certificates)
  BY <1>1 DEF Tickets
<1>3. /\ hs' \in Handshakes /\ hs'.phase = "served"
      /\ hs'.no = hs.no /\ hs'.client = hs.client /\ hs'.server = hs.server
      /\ hs'.chain = hs.offer.chain /\ hs'.cchain = hs.offer.cchain /\ hs'.csig = hs.csig
      /\ hs'.offer = hs.offer /\ hs'.root = hs.offer.root
  BY <1>1, <1>2 DEF Resumed, Handshakes
<1>4. hs'.cdone = hs.cdone /\ hs'.sdone = hs.sdone /\ hs'.resumed = TRUE
  BY <1>1 DEF Resumed, Handshakes
<1>5. ~hs.cdone /\ ~hs.sdone
  BY DEF FlightInv
<1>6. hs.csig = NoSignature /\ hs.no > 0
  BY DEF FlightInv
<1>7. HandshakeTypeOK'
  BY <1>3 DEF HandshakeTypeOK
<1>8. FlightInv'
  <2>1. hs'.phase # "answered" /\ hs'.no > 0 /\ hs'.csig = NoSignature
    BY <1>3, <1>6
  <2>2. ~hs'.cdone /\ ~hs'.sdone /\ hs'.resumed
    BY <1>4, <1>5
  <2>3. QED BY <2>1, <2>2, Zenon DEF FlightInv
<1>9. OfferInv'
  <2>1. hs'.phase \notin {"idle", "hello"} /\ hs'.phase \notin {"answered", "done"}
    BY <1>3
  <2>2. QED BY <1>3, <1>4, <2>1, Zenon DEF OfferInv, FromTicket, IsStranger
<1>10. Authenticated'
  BY <1>4, <1>5, Zenon DEF Authenticated
<1>11. CompatibleMeet'
  BY <1>3 DEF CompatibleMeet
<1>12. QED BY <1>3, <1>7, <1>8, <1>9, <1>10, <1>11 DEF Goes

\* The server of this code answers the hello.
LEMMA ServerFlightKeeps ==
  ASSUME HandshakeInv, ServerFlight
  PROVE  HandshakeInv' /\ Goes
<1> DEFINE id == hs.server.id
           Scheme(offer) == choose_scheme(id, offer)
           Hellos == IF IsStranger(hs.client)
                     THEN {{"ed25519"}, {"pss256"}, SIGNATURE_VERIFICATION_SCHEMES}
                     ELSE {Offered(hs.client.raw)}
<1>1. hs.phase = "hello" /\ ~IsStranger(hs.server)
  BY DEF ServerFlight
<1>2. hs \in Handshakes /\ signed \subseteq Signatures
      /\ hs.client.role = "client" /\ hs.server.role = "server"
  BY DEF HandshakeInv, HandshakeTypeOK
<1>3. hs.client \in Ends /\ hs.server \in Ends /\ hs.no \in Nat
  BY <1>2 DEF Handshakes
<1>4. PICK offer \in Hellos :
        IF ~Negotiates \/ Scheme(offer) = None
        THEN Fail
        ELSE \E outcome \in SignOutcomes(id, Scheme(offer)) :
               IF outcome = "failed" THEN SignerBroke
               ELSE /\ signed' = signed \union {Signature(id.key, Scheme(offer))}
                    /\ hs' = [hs EXCEPT !.phase = "served", !.chain = id.chain,
                                        !.sig = Signature(id.key, Scheme(offer))]
  BY Zenon DEF ServerFlight
<1>5. id.schemes \in Seq(SignerSchemes) /\ id.chain \in Seq(Certificates)
      /\ id.key \in Keys \union {NoKey}
  BY <1>3, EndFacts
<1> HIDE DEF id, Hellos
<1>6. CASE ~Negotiates \/ Scheme(offer) = None
  <2>1. Fail
    BY <1>4, <1>6, Zenon
  <2>2. ASSUME ~IsStranger(hs.client), Compatible(hs.client, hs.server) PROVE FALSE
    <3>1. Negotiates
      BY <2>2, Zenon DEF Compatible, Negotiates
    <3>2. Scheme(offer) = None
      BY <1>6, <3>1
    <3>3. offer = Offered(hs.client.raw)
      BY <2>2 DEF Hellos
    <3>4. Scheme(offer) # None
      BY <1>1, <1>2, <1>3, <2>2, <3>3, CompatibleServes DEF id
    <3>5. QED BY <3>2, <3>4
  <2>3. QED BY <1>1, <2>1, <2>2, FailKeeps
<1>7. CASE ~(~Negotiates \/ Scheme(offer) = None)
  <2>1. SignerBroke \/ (/\ signed' = signed \union {Signature(id.key, Scheme(offer))}
                        /\ hs' = [hs EXCEPT !.phase = "served", !.chain = id.chain,
                                            !.sig = Signature(id.key, Scheme(offer))])
    BY <1>4, <1>7, Zenon
  <2>2. CASE SignerBroke
    BY <1>1, <2>2, SignerBrokeKeeps
  <2>3. CASE /\ signed' = signed \union {Signature(id.key, Scheme(offer))}
             /\ hs' = [hs EXCEPT !.phase = "served", !.chain = id.chain,
                                 !.sig = Signature(id.key, Scheme(offer))]
    <3> DEFINE sg == Signature(id.key, Scheme(offer))
    <3>1. Scheme(offer) # None
      BY <1>7
    <3>2. PICK i \in DOMAIN id.schemes : Scheme(offer) = id.schemes[i]
      BY <1>5, <3>1, ChosenScheme
    <3>3. Scheme(offer) \in SignerSchemes
      <4>1. id.schemes[i] \in SignerSchemes
        BY <1>5, <3>2, ElementOfSeq, LenProperties
      <4>2. QED BY <3>2, <4>1
    <3> HIDE DEF Scheme
    <3>4. sg \in Signatures /\ sg.by = id.key /\ sg.over = hs.no /\ sg.scheme = Scheme(offer)
      BY <1>3, <1>5, <3>3 DEF Signature, Signatures
    <3> HIDE DEF sg
    <3>5. signed' = signed \union {sg}
          /\ hs' = [hs EXCEPT !.phase = "served", !.chain = id.chain, !.sig = sg]
      BY <2>3 DEF sg
    <3>6. SignedAs(sg, id)
      BY <3>2, <3>4, Zenon DEF SignedAs
    <3>7. sg \in signed' /\ signed \subseteq signed' /\ signed' \subseteq Signatures
      BY <1>2, <3>4, <3>5
    <3>8. ~IsStranger(hs.server) => id.chain = hs.server.id.chain /\ SignedAs(sg, hs.server.id)
      BY <3>6 DEF id
    <3>9. QED BY <1>1, <1>5, <3>4, <3>5, <3>7, <3>8, ServedKeeps
  <2>4. QED BY <2>1, <2>2, <2>3
<1>8. QED BY <1>6, <1>7

\* The server of this code resumes a session it holds.
LEMMA ServerResumesKeeps ==
  ASSUME HandshakeInv, StoreInv, ServerResumes
  PROVE  HandshakeInv' /\ Goes
<1>1. /\ hs.phase = "hello" /\ hs' = Resumed /\ signed' = signed
      /\ hs.offer \in sessions /\ hs.offer.server = hs.server
  BY DEF ServerResumes
<1>2. ~IsStranger(hs.server)
  BY DEF ServerResumes
<1>3. hs.offer # NoTicket
  BY <1>1, <1>2, NoTicketFacts
<1>4. QED BY <1>1, <1>3, ResumedKeeps

\* A stranger serves: any chain, and a signature it could make or had seen.
LEMMA StrangerServesKeeps ==
  ASSUME HandshakeInv, StrangerServes
  PROVE  HandshakeInv' /\ Goes
<1>1. hs.phase = "hello" /\ IsStranger(hs.server) /\ signed' = signed
  BY DEF StrangerServes
<1>2. ASSUME NEW chain \in StrangerChains, NEW sig \in StrangerSignatures \union signed,
             hs' = [hs EXCEPT !.phase = "served", !.chain = chain, !.sig = sig]
      PROVE  HandshakeInv' /\ Goes
  <2>1. HandshakeTypeOK
    BY DEF HandshakeInv
  <2>2. signed \subseteq Signatures
    BY <2>1 DEF HandshakeTypeOK
  <2>3. chain \in Seq(Certificates) /\ sig \in Signatures
        /\ (sig \in signed' \/ sig.by \in StrangerKeys)
    BY <1>1, <2>1, <2>2, StrangerTypes
  <2>4. QED BY <1>1, <1>2, <2>2, <2>3, ServedKeeps
<1>3. CASE hs.offer # NoTicket /\ hs.offer.server = hs.server /\ hs' = Resumed
  BY <1>1, <1>3, ResumedKeeps
<1>4. QED BY <1>2, <1>3, Zenon DEF StrangerServes

\* The client's answer arrives: a client of this code has finished, having
\* verified the server's flight; a stranger has not proved anything yet.
LEMMA AnsweredKeeps ==
  ASSUME HandshakeInv, hs.phase = "served", ~hs.resumed,
         NEW STATE ch, ch \in Seq(Certificates), NEW STATE sg, sg \in Signatures,
         NEW STATE done, done \in BOOLEAN,
         hs' = [hs EXCEPT !.phase = "answered", !.cchain = ch, !.csig = sg, !.cdone = done],
         signed \subseteq signed', signed' \subseteq Signatures,
         sg = NoSignature \/ sg \in signed' \/ (IsStranger(hs.client) /\ sg.by \in StrangerKeys),
         ~IsStranger(hs.client) =>
           \/ ch = hs.client.id.chain /\ SignedAs(sg, hs.client.id)
           \/ ~hs.client.raw
           \/ choose_scheme(hs.client.id, Offered(TRUE)) = None,
         ~IsStranger(hs.client) => done,
         done => /\ AcceptsServer(hs.client, hs.chain)
                 /\ VerifiesUnder(hs.sig, hs.chain[1], hs.no)
  PROVE  HandshakeInv' /\ Goes
<1> USE DEF HandshakeInv
<1>1. hs \in Handshakes /\ "answered" \in Phases
  BY DEF HandshakeTypeOK, Phases
<1>2. /\ hs' \in Handshakes /\ hs'.phase = "answered"
      /\ hs'.no = hs.no /\ hs'.client = hs.client /\ hs'.server = hs.server
      /\ hs'.chain = hs.chain /\ hs'.cchain = ch /\ hs'.csig = sg
      /\ hs'.offer = hs.offer /\ hs'.root = hs.root
  BY <1>1 DEF Handshakes
<1>3. hs'.cdone = done /\ hs'.sdone = hs.sdone /\ hs'.resumed = hs.resumed
  BY <1>1 DEF Handshakes
<1>4. ~hs.sdone
  BY DEF FlightInv
<1>5. hs.no > 0 /\ Given(hs.sig, hs.server)
  BY DEF FlightInv
<1>6. HandshakeTypeOK'
  BY <1>2 DEF HandshakeTypeOK
<1>7. FlightInv'
  <2>1. (hs.csig = NoSignature \/ Given(hs.csig, hs.client))'
    BY <1>2, Zenon DEF Given, IsStranger
  <2>2. ~IsStranger(hs'.client) =>
            \/ /\ hs'.cchain = hs'.client.id.chain
               /\ hs'.csig.by = hs'.client.id.key /\ hs'.csig.over = hs'.no
               /\ \E i \in DOMAIN hs'.client.id.schemes :
                    hs'.csig.scheme = hs'.client.id.schemes[i]
            \/ ~hs'.client.raw
            \/ choose_scheme(hs'.client.id, Offered(TRUE)) = None
    BY <1>2, Zenon DEF SignedAs
  <2>3. hs'.phase \notin {"idle", "hello", "served"} /\ hs'.phase # "served" /\ hs'.phase # "idle"
    BY <1>2
  <2>4. ~hs'.sdone /\ hs'.no > 0
    BY <1>2, <1>3, <1>4, <1>5, Zenon
  <2>5. ~IsStranger(hs'.client) => hs'.cdone
    BY <1>2, <1>3, Zenon
  <2>6. QED BY <2>1, <2>2, <2>3, <2>4, <2>5, Zenon DEF FlightInv, SignedAs
<1>8. Authenticated'
  <2>1. ASSUME done
        PROVE  /\ ProvedBy(IF hs.client.raw THEN hs.client.pin ELSE hs.chain[1].key)'
               /\ ~hs.client.raw => hs.chain[1].issuer \in hs.client.roots
    <3>1. hs.client.raw \in BOOLEAN
      <4>1. hs.client \in Ends
        BY <1>1 DEF Handshakes
      <4>2. QED BY <4>1, EndFacts
    <3>2. AcceptsServer(hs.client, hs.chain) /\ hs.sig.by = hs.chain[1].key /\ hs.sig.over = hs.no
      BY <2>1 DEF VerifiesUnder
    <3>3. (IF hs.client.raw THEN hs.client.pin ELSE hs.chain[1].key) = hs.sig.by
      <4>1. CASE hs.client.raw
        <5>1. hs.chain[1] = ed25519_spki(hs.client.pin)
          BY <3>2, <4>1 DEF AcceptsServer, RpkServerVerifier
        <5>2. hs.chain[1].key = hs.client.pin
          BY <5>1 DEF ed25519_spki
        <5>3. QED BY <3>2, <4>1, <5>2
      <4>2. CASE ~hs.client.raw
        BY <3>2, <4>2
      <4>3. QED BY <4>1, <4>2
    <3>4. ~hs.client.raw => hs.chain[1].issuer \in hs.client.roots
      BY <3>2 DEF AcceptsServer, WebPkiVerifier
    <3>5. \/ \E s \in signed' : s.by = hs.sig.by /\ s.over = hs.no
          \/ hs.sig.by \in StrangerKeys /\ IsStranger(hs.server)
      BY <1>5, <3>2, Zenon DEF Given
    <3>6. ProvedBy(IF hs.client.raw THEN hs.client.pin ELSE hs.chain[1].key)'
      <4>1. hs'.root = hs.no
        BY <1>2 DEF OfferInv
      <4>2. QED BY <1>2, <3>3, <3>5, <4>1, Zenon DEF ProvedBy, IsStranger
    <3>7. QED BY <3>4, <3>6
  <2>2. QED BY <1>2, <1>3, <1>4, <2>1, Zenon DEF Authenticated
<1>9. CompatibleMeet'
  BY <1>2 DEF CompatibleMeet
<1>10. OfferInv'
  <2>1. hs.root = hs.no
    BY DEF OfferInv
  <2>2. hs.offer # NoTicket => TicketOK(signed', hs.offer)
    BY TicketStays DEF OfferInv
  <2>3. QED BY <1>2, <1>3, <2>1, <2>2, Zenon DEF OfferInv, IsStranger
<1>11. QED BY <1>2, <1>6, <1>7, <1>8, <1>9, <1>10 DEF Goes

\* The client of this code judges the server's flight.
LEMMA ClientFlightKeeps ==
  ASSUME HandshakeInv, ClientFlight
  PROVE  HandshakeInv' /\ Goes
<1> DEFINE id == hs.client.id
           scheme == choose_scheme(id, Offered(TRUE))
           bad == \/ ~AcceptsServer(hs.client, hs.chain)
                  \/ ~VerifiesUnder(hs.sig, hs.chain[1], hs.no)
           sg == Signature(id.key, scheme)
<1>1. hs.phase = "served" /\ ~hs.resumed /\ ~IsStranger(hs.client)
  BY DEF ClientFlight
<1>2. hs \in Handshakes /\ signed \subseteq Signatures
  BY DEF HandshakeInv, HandshakeTypeOK
<1>3. hs.client \in Ends /\ hs.server \in Ends /\ hs.no \in Nat
      /\ hs.cchain \in Seq(Certificates) /\ hs.csig \in Signatures
  BY <1>2 DEF Handshakes
<1>4. id.schemes \in Seq(SignerSchemes) /\ id.chain \in Seq(Certificates)
      /\ id.key \in Keys \union {NoKey}
  BY <1>3, EndFacts
<1>5. IF bad THEN Fail
      ELSE IF ~hs.client.raw \/ scheme = None
      THEN hs' = [hs EXCEPT !.phase = "answered", !.cdone = TRUE] /\ UNCHANGED signed
      ELSE \E outcome \in SignOutcomes(id, scheme) :
             IF outcome = "failed" THEN SignerBroke
             ELSE /\ signed' = signed \union {sg}
                  /\ hs' = [hs EXCEPT !.phase = "answered", !.cchain = id.chain,
                                      !.csig = sg, !.cdone = TRUE]
  BY Zenon DEF ClientFlight
<1>6. CASE bad
  <2>1. Fail
    BY <1>5, <1>6, Zenon
  <2>2. ASSUME ~IsStranger(hs.server), Compatible(hs.client, hs.server) PROVE FALSE
    <3>1. hs.chain = hs.server.id.chain /\ SignedAs(hs.sig, hs.server.id)
      BY <1>1, <2>2 DEF HandshakeInv, FlightInv
    <3>2. AcceptsServer(hs.client, hs.server.id.chain) /\ Signs(hs.server.id)
      BY <2>2, Zenon DEF Compatible
    <3>3. VerifiesUnder(hs.sig, hs.server.id.chain[1], hs.no)
      BY <3>1, <3>2, SignedVerifies
    <3>4. QED BY <1>6, <3>1, <3>2, <3>3, Zenon
  <2>3. QED BY <1>1, <2>1, <2>2, FailKeeps
<1>7. CASE ~bad /\ (~hs.client.raw \/ scheme = None)
  <2>1. hs' = [hs EXCEPT !.phase = "answered", !.cdone = TRUE] /\ signed' = signed
    BY <1>5, <1>7, Zenon
  <2>2. hs' = [hs EXCEPT !.phase = "answered", !.cchain = hs.cchain, !.csig = hs.csig,
                         !.cdone = TRUE]
    BY <1>2, <2>1 DEF Handshakes
  <2>3. hs.csig = NoSignature
    BY <1>1 DEF HandshakeInv, FlightInv
  <2>4. TRUE \in BOOLEAN
    OBVIOUS
  <2>5. AcceptsServer(hs.client, hs.chain) /\ VerifiesUnder(hs.sig, hs.chain[1], hs.no)
    BY <1>7
  <2>6. QED BY <1>1, <1>2, <1>3, <1>7, <2>1, <2>2, <2>3, <2>4, <2>5, AnsweredKeeps
<1>8. CASE ~bad /\ ~(~hs.client.raw \/ scheme = None)
  <2>1. SignerBroke \/ (/\ signed' = signed \union {sg}
                        /\ hs' = [hs EXCEPT !.phase = "answered", !.cchain = id.chain,
                                            !.csig = sg, !.cdone = TRUE])
    BY <1>5, <1>8, Zenon
  <2>2. CASE SignerBroke
    BY <1>1, <2>2, SignerBrokeKeeps
  <2>3. CASE /\ signed' = signed \union {sg}
             /\ hs' = [hs EXCEPT !.phase = "answered", !.cchain = id.chain,
                                 !.csig = sg, !.cdone = TRUE]
    <3>1. PICK i \in DOMAIN id.schemes : scheme = id.schemes[i]
      BY <1>4, <1>8, ChosenScheme
    <3>2. scheme \in SignerSchemes
      <4>1. id.schemes[i] \in SignerSchemes
        BY <1>4, <3>1, ElementOfSeq, LenProperties
      <4>2. QED BY <3>1, <4>1
    <3>3. AcceptsServer(hs.client, hs.chain) /\ VerifiesUnder(hs.sig, hs.chain[1], hs.no)
      BY <1>8
    <3> HIDE DEF scheme, id
    <3>4. sg \in Signatures /\ sg.by = id.key /\ sg.over = hs.no /\ sg.scheme = scheme
      BY <1>3, <1>4, <3>2 DEF Signature, Signatures
    <3> HIDE DEF sg
    <3>5. SignedAs(sg, id)
      BY <3>1, <3>4, Zenon DEF SignedAs
    <3>6. sg \in signed' /\ signed \subseteq signed' /\ signed' \subseteq Signatures
      BY <1>2, <2>3, <3>4
    <3>7. id.chain = hs.client.id.chain /\ SignedAs(sg, hs.client.id)
      BY <3>5 DEF id
    <3>8. TRUE \in BOOLEAN
      OBVIOUS
    <3>9. QED BY <1>1, <1>4, <2>3, <3>3, <3>4, <3>6, <3>7, <3>8, AnsweredKeeps
  <2>4. QED BY <2>1, <2>2, <2>3
<1>9. QED BY <1>6, <1>7, <1>8

\* A stranger answers: any chain, and a signature it could make or had seen.
LEMMA StrangerAnswersKeeps ==
  ASSUME HandshakeInv, StrangerAnswers
  PROVE  HandshakeInv' /\ Goes
<1>1. hs.phase = "served" /\ ~hs.resumed /\ IsStranger(hs.client) /\ signed' = signed
  BY DEF StrangerAnswers
<1>2. PICK chain \in StrangerChains, sig \in StrangerSignatures \union signed :
        hs' = [hs EXCEPT !.phase = "answered", !.cchain = chain, !.csig = sig]
  BY Zenon DEF StrangerAnswers
<1>3. HandshakeTypeOK
  BY DEF HandshakeInv
<1>4. signed \subseteq Signatures /\ hs \in Handshakes
  BY <1>3 DEF HandshakeTypeOK
<1>5. chain \in Seq(Certificates) /\ sig \in Signatures
      /\ (sig \in signed' \/ sig.by \in StrangerKeys)
  BY <1>1, <1>3, <1>4, StrangerTypes
<1>6. hs.cdone \in BOOLEAN
  BY <1>4 DEF Handshakes
<1>7. hs.cdone = FALSE
  <2>1. ~hs.cdone
    BY <1>1 DEF HandshakeInv, FlightInv
  <2>2. QED BY <1>6, <2>1
<1>8. hs' = [hs EXCEPT !.phase = "answered", !.cchain = chain, !.csig = sig, !.cdone = FALSE]
  BY <1>2, <1>4, <1>7 DEF Handshakes
<1>9. FALSE \in BOOLEAN
  OBVIOUS
<1>10. QED BY <1>1, <1>4, <1>5, <1>8, <1>9, AnsweredKeeps

\* The client of a resumed handshake finishes, if the session is its own: it
\* trusts whom it trusted in the full handshake.
LEMMA ClientResumesKeeps ==
  ASSUME HandshakeInv, ClientResumes
  PROVE  HandshakeInv' /\ Goes
<1>1. hs.phase = "served" /\ hs.resumed
  BY DEF ClientResumes
<1>2. FromTicket
  BY <1>1 DEF HandshakeInv, OfferInv
<1>3. CASE hs.offer.client # hs.client
  <2>1. Fail
    BY <1>3, Zenon DEF ClientResumes
  <2>2. IsStranger(hs.client)
    BY <1>2, <1>3 DEF HandshakeInv, OfferInv, FromTicket
  <2>3. QED BY <1>1, <2>1, <2>2, FailKeeps
<1>4. CASE hs.offer.client = hs.client
  <2> USE DEF HandshakeInv
  <2> DEFINE done == ~IsStranger(hs.client)
  <2>1. hs' = [hs EXCEPT !.phase = "answered", !.cdone = done] /\ signed' = signed
    BY <1>4, Zenon DEF ClientResumes
  <2>2. hs \in Handshakes /\ "answered" \in Phases /\ done \in BOOLEAN
    BY DEF HandshakeTypeOK, Phases
  <2> HIDE DEF done
  <2>3. /\ hs' \in Handshakes /\ hs'.phase = "answered"
        /\ hs'.no = hs.no /\ hs'.client = hs.client /\ hs'.server = hs.server
        /\ hs'.chain = hs.chain /\ hs'.cchain = hs.cchain
        /\ hs'.offer = hs.offer /\ hs'.root = hs.root
    BY <2>1, <2>2 DEF Handshakes
  <2>4. hs'.cdone = done /\ hs'.sdone = hs.sdone /\ hs'.resumed = hs.resumed
    BY <2>1, <2>2 DEF Handshakes
  <2>5. ~hs.sdone
    BY <1>1 DEF FlightInv
  <2>6. HandshakeTypeOK'
    BY <2>1, <2>3 DEF HandshakeTypeOK
  <2>7. FlightInv'
    <3>1. hs'.phase \notin {"idle", "hello", "served"} /\ hs'.no > 0
      BY <1>1, <2>3 DEF FlightInv
    <3>2. ~hs'.sdone /\ hs'.resumed
      BY <1>1, <2>4, <2>5
    <3>3. ~IsStranger(hs'.client) => hs'.cdone
      BY <2>3, <2>4, Zenon DEF done
    <3>4. hs'.phase # "served" /\ hs'.phase # "idle"
      BY <2>3
    <3>5. QED BY <3>1, <3>2, <3>3, <3>4, Zenon DEF FlightInv
  <2>8. OfferInv'
    <3>1. hs'.phase \notin {"idle", "hello"}
      BY <2>3
    <3>2. QED BY <1>1, <1>2, <1>4, <2>1, <2>3, <2>4, <3>1, Zenon DEF OfferInv, FromTicket, IsStranger
  <2>9. Authenticated'
    <3>1. ASSUME done
          PROVE  /\ RestsOn(signed, TrustedKey(hs.client, hs.chain), hs.root, hs.client, hs.server)
                 /\ ~hs.client.raw => hs.chain[1].issuer \in hs.client.roots
      <4>1. TicketOK(signed, hs.offer)
        BY <1>2 DEF OfferInv, FromTicket
      <4>2. QED BY <1>2, <1>4, <3>1, <4>1, Zenon DEF TicketOK, FromTicket, done
    <3>2. QED BY <2>1, <2>3, <2>4, <2>5, <3>1, Zenon
            DEF Authenticated, ProvedBy, RestsOn, TrustedKey, IsStranger
  <2>10. CompatibleMeet'
    BY <2>3 DEF CompatibleMeet
  <2>11. QED BY <2>1, <2>3, <2>6, <2>7, <2>8, <2>9, <2>10 DEF Goes
<1>5. QED BY <1>3, <1>4

\* The handshake ends well: the server has finished too, if it is of this code
\* and what it verified holds.
LEMMA DoneKeeps ==
  ASSUME HandshakeInv, hs.phase = "answered",
         NEW STATE done, done \in BOOLEAN,
         hs' = [hs EXCEPT !.phase = "done", !.sdone = done], signed' = signed,
         done => ClientAdmitted /\ ~IsStranger(hs.server)
  PROVE  HandshakeInv' /\ Goes
<1> USE DEF HandshakeInv
<1>1. hs \in Handshakes /\ "done" \in Phases
  BY DEF HandshakeTypeOK, Phases
<1>2. /\ hs' \in Handshakes /\ hs'.phase = "done"
      /\ hs'.no = hs.no /\ hs'.client = hs.client /\ hs'.server = hs.server
      /\ hs'.chain = hs.chain /\ hs'.cchain = hs.cchain
      /\ hs'.offer = hs.offer /\ hs'.root = hs.root
  BY <1>1 DEF Handshakes
<1>3. hs'.cdone = hs.cdone /\ hs'.sdone = done /\ hs'.resumed = hs.resumed
  BY <1>1 DEF Handshakes
<1>4. hs.no > 0 /\ (~hs.resumed => hs.csig = NoSignature \/ Given(hs.csig, hs.client))
  BY DEF FlightInv
<1>5. HandshakeTypeOK'
  BY <1>2 DEF HandshakeTypeOK
<1>6. FlightInv'
  BY <1>2, <1>4 DEF FlightInv
<1>7. Authenticated'
  <2>1. ASSUME done, hs.server.raw PROVE peer_public_key # NoKey /\ ProvedBy(peer_public_key)
    <3>1. CASE hs.resumed
      <4>1. FromTicket /\ hs.client = hs.offer.client
        BY <3>1 DEF OfferInv, FromTicket
      <4>2. TicketOK(signed, hs.offer)
        BY <4>1 DEF OfferInv, FromTicket
      <4>3. ~IsStranger(hs.offer.server)
        BY <2>1, <4>1, Zenon DEF FromTicket
      <4>4. QED BY <2>1, <4>1, <4>2, <4>3, Zenon DEF TicketOK, FromTicket, RestsOn, ProvedBy, peer_public_key
    <3>2. CASE ~hs.resumed
      <4>1. RpkClientVerifier(hs.cchain) /\ VerifiesUnder(hs.csig, hs.cchain[1], hs.no)
        BY <2>1, <3>2 DEF ClientAdmitted
      <4>2. peer_public_key # NoKey /\ peer_public_key = hs.cchain[1].key
        BY <4>1, Zenon DEF RpkClientVerifier, peer_public_key, public_key_from_ed25519_spki
      <4>3. hs.csig.by = peer_public_key /\ hs.csig.over = hs.no
        BY <4>1, <4>2 DEF VerifiesUnder
      <4>4. hs.csig # NoSignature
        <5>1. NoSignature.over = 0 /\ hs.no # 0
          BY <1>1, <1>4 DEF NoSignature, Handshakes
        <5>2. QED BY <4>3, <5>1
      <4>5. hs.root = hs.no
        BY <3>2 DEF OfferInv
      <4>6. ProvedBy(peer_public_key)
        BY <1>4, <3>2, <4>3, <4>4, <4>5, Zenon DEF Given, ProvedBy
      <4>7. QED BY <4>2, <4>6
    <3>3. QED BY <3>1, <3>2
  <2>2. QED BY <1>2, <1>3, <2>1, Zenon DEF Authenticated, ProvedBy, peer_public_key, IsStranger
<1>8. CompatibleMeet'
  BY <1>2 DEF CompatibleMeet
<1>9. OfferInv'
  <2>1. hs'.phase \notin {"idle", "hello"}
    BY <1>2
  <2>2. QED BY <1>2, <1>3, <2>1, Zenon DEF OfferInv, FromTicket, IsStranger
<1>10. QED BY <1>2, <1>5, <1>6, <1>7, <1>8, <1>9 DEF Goes

\* The server judges the answer, and refuses no compatible client.
LEMMA ServerFinishKeeps ==
  ASSUME HandshakeInv, ServerFinish
  PROVE  HandshakeInv' /\ Goes
<1>1. hs.phase = "answered"
  BY DEF ServerFinish
<1>2. hs \in Handshakes
  BY DEF HandshakeInv, HandshakeTypeOK
<1>3. /\ hs.client \in Ends /\ hs.server \in Ends
      /\ hs.client.role = "client" /\ hs.server.role = "server"
  BY <1>2 DEF Handshakes, HandshakeInv, HandshakeTypeOK
<1>4. CASE IsStranger(hs.server) \/ ClientAdmitted
  <2> DEFINE done == ~IsStranger(hs.server)
  <2>1. hs' = [hs EXCEPT !.phase = "done", !.sdone = done] /\ signed' = signed
    BY <1>4, Zenon DEF ServerFinish
  <2>2. done \in BOOLEAN /\ (done => ClientAdmitted /\ ~IsStranger(hs.server))
    BY <1>4
  <2> HIDE DEF done
  <2>3. QED BY <1>1, <2>1, <2>2, DoneKeeps
<1>5. CASE ~IsStranger(hs.server) /\ ~ClientAdmitted
  <2>1. Fail
    BY <1>5, Zenon DEF ServerFinish
  <2>2. ASSUME ~IsStranger(hs.client), Compatible(hs.client, hs.server) PROVE FALSE
    <3>1. hs.client.raw = hs.server.raw
      BY <2>2, Zenon DEF Compatible
    <3>2. hs.server.raw /\ ~hs.resumed
      BY <1>5, Zenon DEF ClientAdmitted
    <3>3. hs.client.raw
      BY <3>1, <3>2
    <3>4. choose_scheme(hs.client.id, Offered(TRUE)) # None
      BY <1>3, <2>2, <3>3, CompatibleAnswers
    <3>5. hs.cchain = hs.client.id.chain /\ SignedAs(hs.csig, hs.client.id)
      BY <1>1, <2>2, <3>2, <3>3, <3>4, Zenon DEF HandshakeInv, FlightInv
    <3>6. Signs(hs.client.id) /\ public_key_from_ed25519_spki(hs.client.id.chain[1]) # NoKey
      BY <2>2, <3>3, Zenon DEF Compatible
    <3>7. VerifiesUnder(hs.csig, hs.client.id.chain[1], hs.no)
      BY <3>5, <3>6, SignedVerifies
    <3>8. Len(hs.client.id.chain) = 1
      <4>1. hs.client.id \in RawId
        BY <1>3, <2>2, <3>3 DEF Ends
      <4>2. QED BY <4>1 DEF RawId
    <3>9. ClientAdmitted
      BY <3>5, <3>6, <3>7, <3>8 DEF ClientAdmitted, RpkClientVerifier
    <3>10. QED BY <1>5, <3>9
  <2>3. QED BY <1>1, <2>1, <2>2, FailKeeps
<1>6. QED BY <1>4, <1>5

\* What meets are endpoints of the roles they play.
LEMMA MeetingEnds ==
  ASSUME WiringTypeOK, HandshakeTypeOK
  PROVE  /\ \A c \in ClientEnds : c \in Ends /\ c.role = "client"
         /\ \A s \in ServerEnds : s \in Ends /\ s.role = "server"
<1>1. \A i \in DOMAIN conns : conns[i].end \in Ends
  <2>1. conns \in Seq([send : Nat, receive : Nat, end : Ends, at : Nat])
    BY DEF WiringTypeOK, WiringShape
  <2>2. \A i \in 1..Len(conns) : conns[i] \in [send : Nat, receive : Nat, end : Ends, at : Nat]
    BY <2>1, ElementOfSeq
  <2>3. QED BY <2>1, <2>2
<1>2. hs.client \in Ends /\ hs.server \in Ends
  BY DEF HandshakeTypeOK, Handshakes
<1>3. \A e \in {conns[i].end : i \in DOMAIN conns} \union {hs.client, hs.server} : e \in Ends
  BY <1>1, <1>2
<1>4. identities \subseteq WebId
  BY DEF WiringTypeOK
<1>5. ASSUME NEW c \in ClientEnds PROVE c \in Ends /\ c.role = "client"
  <2>1. CASE c \in {e \in {conns[i].end : i \in DOMAIN conns} \union {hs.client} : e.role = "client"}
    BY <1>3, <2>1
  <2>2. CASE c \in {Kept(rpk_client_config(id, pin)) : id \in OurRpk, pin \in Ed25519Keys}
    <3>1. PICK id \in OurRpk, pin \in Ed25519Keys : c = Kept(rpk_client_config(id, pin))
      BY <2>2
    <3>2. c \in Ends
      BY <3>1, OurRpkType, ConfigTypes, EarlyKept
    <3>3. c.role = "client"
      BY <3>1 DEF rpk_client_config, End, Early, Kept
    <3>4. QED BY <3>2, <3>3
  <2>3. CASE c \in {Kept(quic_rpk_client_config(id, pin, p)) :
                      id \in OurRpk, pin \in Ed25519Keys, p \in Alpn}
    <3>1. PICK id \in OurRpk, pin \in Ed25519Keys, p \in Alpn : c = Kept(quic_rpk_client_config(id, pin, p))
      BY <2>3
    <3>2. c \in Ends
      BY <3>1, OurRpkType, ConfigTypes, EarlyKept
    <3>3. c.role = "client"
      BY <3>1 DEF quic_rpk_client_config, End, Early, Kept
    <3>4. QED BY <3>2, <3>3
  <2>4. CASE c \in {Kept(quic_client_config(Roots, p)) : p \in Alpn}
    <3>1. PICK p \in Alpn : c = Kept(quic_client_config(Roots, p))
      BY <2>4
    <3>2. c \in Ends
      BY <3>1, ConfigTypes, EarlyKept
    <3>3. c.role = "client"
      BY <3>1 DEF quic_client_config, End, Early, Kept
    <3>4. QED BY <3>2, <3>3
  <2>5. CASE c = Kept(client_config(Roots))
    <3>1. c \in Ends
      BY <2>5, ConfigTypes, EarlyKept
    <3>2. c.role = "client"
      BY <2>5 DEF client_config, End, Kept
    <3>3. QED BY <3>1, <3>2
  <2>6. CASE c \in {Stranger("client", raw, p) : raw \in BOOLEAN, p \in Alpn \union {None}}
    <3>1. PICK raw \in BOOLEAN, p \in Alpn \union {None} : c = Stranger("client", raw, p)
      BY <2>6
    <3>2. "client" \in {"client", "server"}
      OBVIOUS
    <3>3. c \in Ends
      BY <3>1, <3>2, ConfigTypes
    <3>4. c.role = "client"
      BY <3>1 DEF Stranger, End
    <3>5. QED BY <3>3, <3>4
  <2>7. QED BY <2>1, <2>2, <2>3, <2>4, <2>5, <2>6 DEF ClientEnds
<1>6. ASSUME NEW s \in ServerEnds PROVE s \in Ends /\ s.role = "server"
  <2>1. CASE s \in {e \in {conns[i].end : i \in DOMAIN conns} \union {hs.server} : e.role = "server"}
    BY <1>3, <2>1
  <2>2. CASE s \in {Kept(rpk_server_config(id)) : id \in OurRpk}
    <3>1. PICK id \in OurRpk : s = Kept(rpk_server_config(id))
      BY <2>2
    <3>2. s \in Ends
      BY <3>1, OurRpkType, ConfigTypes, EarlyKept
    <3>3. s.role = "server"
      BY <3>1 DEF rpk_server_config, End, Early, Kept
    <3>4. QED BY <3>2, <3>3
  <2>3. CASE s \in {Kept(quic_rpk_server_config(id, p)) : id \in OurRpk, p \in Alpn}
    <3>1. PICK id \in OurRpk, p \in Alpn : s = Kept(quic_rpk_server_config(id, p))
      BY <2>3
    <3>2. s \in Ends
      BY <3>1, OurRpkType, ConfigTypes, EarlyKept
    <3>3. s.role = "server"
      BY <3>1 DEF quic_rpk_server_config, End, Early, Kept
    <3>4. QED BY <3>2, <3>3
  <2>4. CASE s \in {Kept(quic_server_config(id, p)) : id \in identities, p \in Alpn}
    <3>1. PICK id \in identities, p \in Alpn : s = Kept(quic_server_config(id, p))
      BY <2>4
    <3>2. s \in Ends
      BY <1>4, <3>1, ConfigTypes, EarlyKept
    <3>3. s.role = "server"
      BY <3>1 DEF quic_server_config, End, Early, Kept
    <3>4. QED BY <3>2, <3>3
  <2>5. CASE s \in {Kept(server_config(id)) : id \in identities}
    <3>1. PICK id \in identities : s = Kept(server_config(id))
      BY <2>5
    <3>2. s \in Ends
      BY <1>4, <3>1, ConfigTypes, EarlyKept
    <3>3. s.role = "server"
      BY <3>1 DEF server_config, End, Kept
    <3>4. QED BY <3>2, <3>3
  <2>6. CASE s \in {Stranger("server", raw, p) : raw \in BOOLEAN, p \in Alpn \union {None}}
    <3>1. PICK raw \in BOOLEAN, p \in Alpn \union {None} : s = Stranger("server", raw, p)
      BY <2>6
    <3>2. "server" \in {"client", "server"}
      OBVIOUS
    <3>3. s \in Ends
      BY <3>1, <3>2, ConfigTypes
    <3>4. s.role = "server"
      BY <3>1 DEF Stranger, End
    <3>5. QED BY <3>3, <3>4
  <2>7. QED BY <2>1, <2>2, <2>3, <2>4, <2>5, <2>6 DEF ServerEnds
<1>7. QED BY <1>5, <1>6

\* No handshake has begun.
LEMMA IdleType ==
  /\ Idle \in Handshakes /\ Idle.client.role = "client" /\ Idle.server.role = "server"
  /\ NoTicket \in Tickets
<1> DEFINE c == Stranger("client", FALSE, None)
           s == Stranger("server", FALSE, None)
<1>1. c \in Ends /\ s \in Ends
  <2>1. FALSE \in BOOLEAN /\ None \in Alpn \union {None}
    OBVIOUS
  <2>2. "client" \in {"client", "server"} /\ "server" \in {"client", "server"}
    OBVIOUS
  <2>3. QED BY <2>1, <2>2, ConfigTypes
<1>2. c.role = "client" /\ s.role = "server"
  BY DEF Stranger, End
<1> HIDE DEF c, s
<1>3. NoSignature \in Signatures
  BY DEF NoSignature, Signatures
<1>4. /\ <<>> \in Seq(Certificates) /\ "idle" \in Phases /\ 0 \in Nat
  BY DEF Phases
<1>5. FALSE \in BOOLEAN
  OBVIOUS
<1>6. NoTicket \in Tickets
  <2>1. NoTicket = [no |-> 0, nth |-> 0, root |-> 0, client |-> c, server |-> s,
                    chain |-> <<>>, cchain |-> <<>>]
    BY Zenon DEF NoTicket, Ticket, c, s
  <2>2. QED BY <1>1, <1>4, <2>1 DEF Tickets
<1>7. Idle.client = c /\ Idle.server = s
  BY DEF Idle, c, s
<1>8. Idle = [no |-> 0, phase |-> "idle", client |-> c, server |-> s, broke |-> FALSE,
              chain |-> <<>>, sig |-> NoSignature, cchain |-> <<>>, csig |-> NoSignature,
              cdone |-> FALSE, sdone |-> FALSE,
              offer |-> NoTicket, resumed |-> FALSE, root |-> 0]
  BY Zenon DEF Idle, c, s
<1>9. Idle \in Handshakes
  BY <1>1, <1>3, <1>4, <1>5, <1>8, <1>6 DEF Handshakes
<1>10. QED BY <1>2, <1>7, <1>9, <1>6

\* A new handshake keeps nothing of the one before but the signatures made.
LEMMA MeetKeeps ==
  ASSUME WiringTypeOK, HandshakeInv, StoreInv, NEW c \in ClientEnds, NEW s \in ServerEnds,
         NEW offer \in Offers(c) \union {NoTicket}, Meet(c, s, offer)
  PROVE  WiringTypeOK' /\ WiringInv' /\ HandshakeInv' /\ StoreInv'
<1>1. /\ hs' = [Idle EXCEPT !.no = hs.no + 1, !.phase = "hello", !.client = c, !.server = s,
                            !.offer = offer, !.root = hs.no + 1]
      /\ signed' = signed
  BY DEF Meet
<1>2. HandshakeTypeOK
  BY DEF HandshakeInv
<1>3. c \in Ends /\ c.role = "client" /\ s \in Ends /\ s.role = "server"
  BY <1>2, MeetingEnds
<1>4. hs.no \in Nat /\ "hello" \in Phases /\ signed \subseteq Signatures
  BY <1>2 DEF HandshakeTypeOK, Handshakes, Phases
<1>5. Idle.csig = NoSignature /\ Idle.cdone = FALSE /\ Idle.sdone = FALSE /\ Idle.resumed = FALSE
  BY DEF Idle
<1>6. /\ offer \in Tickets
      /\ offer # NoTicket => /\ offer \in sessions \union offered
                             /\ TicketOK(signed, offer)
                             /\ ~IsStranger(c) => c = offer.client
  <2>1. offer # NoTicket => /\ offer \in sessions \union offered
                            /\ ~IsStranger(c) => c = offer.client
    BY DEF Offers
  <2>2. QED BY <2>1, IdleType DEF StoreInv, SessionTypeOK
<1>7. /\ hs' \in Handshakes /\ hs'.phase = "hello" /\ hs'.no = hs.no + 1
      /\ hs'.client = c /\ hs'.server = s /\ hs'.csig = NoSignature
      /\ hs'.offer = offer /\ hs'.root = hs.no + 1
  <2>1. hs'.phase = "hello" /\ hs'.no = hs.no + 1 /\ hs'.client = c /\ hs'.server = s
        /\ hs'.offer = offer /\ hs'.root = hs.no + 1
    BY <1>1, IdleType DEF Handshakes
  <2>2. hs'.csig = NoSignature
    BY <1>1, <1>5, IdleType DEF Handshakes
  <2>3. hs.no + 1 \in Nat
    BY <1>4
  <2>4. hs' \in Handshakes
    BY <1>1, <1>3, <1>4, <1>6, <2>3, IdleType DEF Handshakes
  <2>5. QED BY <2>1, <2>2, <2>4
<1>8. hs'.cdone = FALSE /\ hs'.sdone = FALSE /\ hs'.resumed = FALSE
  BY <1>1, <1>5, IdleType DEF Handshakes
<1>9. HandshakeTypeOK'
  BY <1>1, <1>3, <1>4, <1>7 DEF HandshakeTypeOK
<1>10. hs'.no > 0
  BY <1>4, <1>7
<1>11. FlightInv'
  BY <1>7, <1>8, <1>10 DEF FlightInv
<1>12. Authenticated'
  BY <1>8, Zenon DEF Authenticated
<1>13. CompatibleMeet'
  BY <1>7 DEF CompatibleMeet
<1>14. OfferInv'
  BY <1>1, <1>7, <1>8, <1>6, Zenon DEF OfferInv, IsStranger
<1>15. HandshakeInv'
  BY <1>9, <1>11, <1>12, <1>13, <1>14 DEF HandshakeInv
<1>16. WiringTypeOK' /\ WiringInv'
  <2>1. /\ signer' = NoSigner /\ identities' = {} /\ identity' = NoIdentity
        /\ wired' = NotWired /\ wirings' = <<>> /\ conns' = <<>>
    BY DEF Meet, Forget
  <2>2. /\ wirings' \in Seq(Wiring)
        /\ conns' \in Seq([send : Nat, receive : Nat, end : Ends, at : Nat])
    BY <2>1
  <2>3. DOMAIN wirings' = {} /\ DOMAIN conns' = {}
    BY <2>1
  <2>4. wired' \in [Dirs -> Nat] /\ \A d \in Dirs : wired'[d] = 0
    BY <2>1 DEF NotWired
  <2>5. WiringTypeOK'
    BY <2>1, <2>2, <2>4 DEF WiringTypeOK, WiringShape
  <2>6. WiringInv'
    BY <2>3, <2>4 DEF WiringInv, HeldInv, ConnInv, OnceInv, Distinct
  <2>7. QED BY <2>5, <2>6
<1>17. StoreInv'
  <2>1. /\ sessions' = sessions /\ taken' = taken
        /\ offered' \subseteq offered \union ({offer} \ {NoTicket})
    BY DEF Meet
  <2>2. SessionTypeOK'
    BY <1>6, <2>1 DEF StoreInv, SessionTypeOK
  <2>3. \A t \in sessions' \union offered' : TicketOK(signed', t)
    BY <1>1, <1>6, <2>1 DEF StoreInv
  <2>4. ASSUME NEW t \in Tickets, Issued(t)
        PROVE  t.no <= hs'.no /\ t.no # hs'.no
    <3>1. t.no \in Nat
      BY DEF Tickets
    <3>2. QED BY <1>4, <1>7, <2>4, <3>1 DEF Issued
  <2>5. \A i \in DOMAIN taken : taken[i] \in Tickets
    BY LenProperties, ElementOfSeq DEF StoreInv, SessionTypeOK
  <2>6. QED BY <2>1, <2>2, <2>3, <2>4, <2>5, Zenon DEF StoreInv, SessionTypeOK, Issued, EarlyDataOnce
<1>18. QED BY <1>15, <1>16, <1>17

-----------------------------------------------------------------------------
(* What is kept between handshakes *)

\* A step that takes nothing new leaves the stores as good as they were.
LEMMA StoreStays ==
  ASSUME HandshakeTypeOK, StoreInv, Goes, hs.phase # "done",
         sessions' \subseteq sessions, offered' = offered, taken' = taken
  PROVE  StoreInv'
<1>1. SessionTypeOK'
  BY DEF StoreInv, SessionTypeOK
<1>2. \A t \in sessions \union offered : TicketOK(signed', t)
  BY TicketStays DEF StoreInv, Goes
<1>3. \A t : Issued(t) => t.no <= hs'.no /\ t.no # hs'.no
  BY Zenon DEF Issued, Goes
<1>4. QED BY <1>1, <1>2, <1>3, Zenon DEF StoreInv, Issued, EarlyDataOnce

\* A server that resumes takes the session out, and its early data once.
LEMMA ServerResumesStore ==
  ASSUME HandshakeTypeOK, StoreInv, Goes, ServerResumes
  PROVE  StoreInv'
<1>1. /\ hs.phase = "hello" /\ hs.offer \in sessions /\ sessions' = sessions \ {hs.offer}
      /\ offered' = offered
  BY DEF ServerResumes, Remaining
<1>2. CASE taken' = taken
  BY <1>1, <1>2, StoreStays
<1>3. CASE taken' = Append(taken, hs.offer)
  <2> DEFINE N == Len(taken)
  <2>1. /\ taken \in Seq(Tickets) /\ N \in Nat /\ DOMAIN taken = 1..N /\ hs.offer \in Tickets
    BY <1>1, LenProperties DEF StoreInv, SessionTypeOK
  <2>2. /\ taken' \in Seq(Tickets) /\ DOMAIN taken' = 1..(N + 1)
        /\ \A i \in 1..N : taken'[i] = taken[i]
        /\ taken'[N + 1] = hs.offer
    BY <1>3, <2>1
  <2>3. \A i \in 1..(N + 1) : i \in 1..N \/ i = N + 1
    BY <2>1
  <2>4. \A i \in 1..N : taken[i] \notin sessions /\ Issued(taken[i])
    BY <2>1 DEF StoreInv
  <2>5. Issued(hs.offer)
    BY <1>1 DEF StoreInv
  <2>6. \A t : Issued(t) => t.no <= hs'.no /\ t.no # hs'.no
    <3>1. hs.phase # "done"
      BY <1>1
    <3>2. QED BY <3>1, Zenon DEF Issued, Goes
  <2>7. SessionTypeOK'
    BY <1>1, <2>2 DEF StoreInv, SessionTypeOK
  <2>8. \A t \in sessions \union offered : TicketOK(signed', t)
    BY TicketStays DEF StoreInv, Goes
  <2>9. EarlyDataOnce'
    <3>1. ASSUME NEW i \in 1..(N + 1), NEW j \in 1..(N + 1), taken'[i] = taken'[j] PROVE i = j
      <4>1. CASE i \in 1..N /\ j \in 1..N
        <5>1. taken[i] = taken[j]
          BY <2>2, <3>1, <4>1
        <5>2. QED BY <2>1, <4>1, <5>1 DEF StoreInv, EarlyDataOnce
      <4>2. CASE i \in 1..N /\ j = N + 1
        BY <1>1, <2>2, <2>4, <3>1, <4>2
      <4>3. CASE j \in 1..N /\ i = N + 1
        BY <1>1, <2>2, <2>4, <3>1, <4>3
      <4>4. QED BY <2>3, <4>1, <4>2, <4>3
    <3>2. QED BY <2>2, <3>1, Zenon DEF EarlyDataOnce
  <2>10. ASSUME NEW i \in 1..(N + 1)
         PROVE  /\ taken'[i].no <= hs'.no /\ taken'[i].no # hs'.no
                /\ taken'[i] \notin sessions'
    <3>1. CASE i \in 1..N
      BY <1>1, <2>2, <2>4, <2>6, <3>1
    <3>2. CASE i = N + 1
      BY <1>1, <2>2, <2>5, <2>6, <3>2
    <3>3. QED BY <2>3, <3>1, <3>2
  <2>11. \A t \in sessions' : t.no <= hs'.no /\ t.no # hs'.no
    BY <1>1, <2>6 DEF StoreInv
  <2>12. \A t \in sessions' \union offered' : TicketOK(signed', t)
    BY <1>1, <2>8
  <2>13. QED BY <2>2, <2>7, <2>9, <2>10, <2>11, <2>12, Zenon DEF StoreInv, Issued
<1>4. QED BY <1>2, <1>3 DEF ServerResumes

\* The tickets of a handshake that ends well stand for what its ends have
\* authenticated, and none of them was used.
LEMMA ServerFinishStore ==
  ASSUME HandshakeInv, HandshakeInv', StoreInv, Goes, ServerFinish
  PROVE  StoreInv'
<1>1. hs.phase = "answered" /\ hs.phase # "done" /\ offered' = offered /\ taken' = taken
  BY DEF ServerFinish
<1>2. HandshakeTypeOK /\ hs \in Handshakes
  BY DEF HandshakeInv, HandshakeTypeOK
<1>3. CASE sessions' = sessions
  BY <1>1, <1>2, <1>3, StoreStays
<1>4. ASSUME NEW n \in 0..TicketsSent, sessions' = sessions \union NewTickets(n),
             hs' = [hs EXCEPT !.phase = "done", !.sdone = ~IsStranger(hs.server)]
      PROVE  StoreInv'
  <2>1. /\ hs'.phase = "done" /\ hs'.no = hs.no /\ hs'.root = hs.root
        /\ hs'.client = hs.client /\ hs'.server = hs.server
        /\ hs'.chain = hs.chain /\ hs'.cchain = hs.cchain
    BY <1>2, <1>4 DEF Handshakes
  <2>2. hs'.cdone = hs.cdone /\ hs'.sdone = ~IsStranger(hs.server)
    BY <1>2, <1>4 DEF Handshakes
  <2>3. /\ hs.no \in Nat /\ hs.root \in Nat /\ hs.client \in Ends /\ hs.server \in Ends
        /\ hs.chain \in Seq(Certificates) /\ hs.cchain \in Seq(Certificates)
    BY <1>2 DEF Handshakes
  <2>4. ASSUME NEW t \in NewTickets(n)
        PROVE  /\ t \in Tickets /\ t.no = hs.no /\ TicketOK(signed', t)
    <3>1. PICK i \in 1..n :
            t = Ticket(hs.no, i, hs.root, hs.client, hs.server, hs.chain, hs.cchain)
      BY Zenon DEF NewTickets
    <3>2. i \in Nat
      BY TicketsAssumption
    <3>3. t \in Tickets
      BY <2>3, <3>1, <3>2 DEF Ticket, Tickets
    <3>4. /\ t.no = hs.no /\ t.root = hs'.root /\ t.client = hs'.client /\ t.server = hs'.server
          /\ t.chain = hs'.chain /\ t.cchain = hs'.cchain
      BY <2>1, <3>1 DEF Ticket
    <3>5. Authenticated'
      BY DEF HandshakeInv
    <3>6. ~IsStranger(hs'.client) => hs'.cdone
      BY <1>1, <2>1, <2>2, Zenon DEF HandshakeInv, FlightInv
    <3>7. ~IsStranger(hs'.server) => hs'.sdone
      BY <2>1, <2>2, Zenon
    <3>8. TicketOK(signed', t)
      BY <3>4, <3>5, <3>6, <3>7, Zenon
        DEF TicketOK, RestsOn, TrustedKey, Authenticated, ProvedBy, peer_public_key, IsStranger
    <3>9. QED BY <3>3, <3>4, <3>8
  <2>5. \A t \in sessions \union offered : TicketOK(signed', t)
    BY TicketStays DEF StoreInv, Goes
  <2>6. SessionTypeOK'
    BY <1>1, <1>4, <2>4 DEF StoreInv, SessionTypeOK
  <2>7. \A t \in sessions' \union offered' : TicketOK(signed', t)
    BY <1>1, <1>4, <2>4, <2>5
  <2>8. \A t : Issued(t) => t.no <= hs'.no /\ t.no # hs.no
    BY <1>1, <2>1, Zenon DEF Issued
  <2>9. hs.no <= hs'.no
    BY <2>1, <2>3
  <2>10. ASSUME NEW t \in sessions' PROVE t.no <= hs'.no
    BY <1>4, <2>4, <2>8, <2>9 DEF StoreInv
  <2>11. ASSUME NEW i \in DOMAIN taken PROVE taken[i].no <= hs'.no /\ taken[i] \notin sessions'
    <3>1. Issued(taken[i]) /\ taken[i] \notin sessions
      BY DEF StoreInv
    <3>2. taken[i] \notin NewTickets(n)
      BY <2>4, <2>8, <3>1
    <3>3. QED BY <1>4, <2>8, <3>1, <3>2
  <2>12. EarlyDataOnce'
    BY <1>1 DEF StoreInv, EarlyDataOnce
  <2>13. QED BY <1>1, <2>1, <2>6, <2>7, <2>10, <2>11, <2>12, Zenon DEF StoreInv, Issued
<1>5. QED BY <1>3, <1>4, Zenon DEF ServerFinish


-----------------------------------------------------------------------------
(* Theorems *)

\* The inductive invariant of the component's wirings and of the handshakes:
\* a direction holds its last wiring, a connection runs two wirings of its own,
\* a flight that is judged carries a signature of the endpoint it names or of a
\* stranger, an endpoint that finished has authenticated its peer, and a session
\* stands for what its ends authenticated in the handshake it goes back to.
THEOREM HandshakeInvCorrect == Spec => [](WiringTypeOK /\ WiringInv /\ HandshakeInv /\ StoreInv)
<1> DEFINE Inv == WiringTypeOK /\ WiringInv /\ HandshakeInv /\ StoreInv
<1>1. Init => Inv
  <2> SUFFICES ASSUME Init PROVE Inv
    OBVIOUS
  <2>1. WiringTypeOK /\ WiringInv
    BY NothingWired DEF Init, WiringInit
  <2>2. hs = Idle /\ signed = {} /\ sessions = {} /\ offered = {} /\ taken = <<>>
    BY DEF Init
  <2>3. HandshakeTypeOK
    BY <2>2, IdleType DEF HandshakeTypeOK
  <2>4. hs.phase = "idle" /\ hs.csig = NoSignature /\ hs.offer = NoTicket /\ hs.root = hs.no
    BY <2>2 DEF Idle
  <2>5. hs.cdone = FALSE /\ hs.sdone = FALSE /\ hs.resumed = FALSE
    BY <2>2 DEF Idle
  <2>6. FlightInv /\ Authenticated /\ CompatibleMeet
    BY <2>4, <2>5 DEF FlightInv, Authenticated, CompatibleMeet
  <2>7. OfferInv
    BY <2>4, <2>5, Zenon DEF OfferInv
  <2>8. StoreInv
    <3>1. DOMAIN taken = {} /\ taken \in Seq(Tickets)
      BY <2>2
    <3>2. QED BY <2>2, <3>1 DEF StoreInv, SessionTypeOK, EarlyDataOnce
  <2>9. QED BY <2>1, <2>3, <2>6, <2>7, <2>8 DEF HandshakeInv
<1>2. ASSUME UNCHANGED vars, WiringTypeOK, WiringInv PROVE WiringTypeOK' /\ WiringInv'
  BY <1>2 DEF vars, idVars, resourceVars, wiringVars, WiringTypeOK, WiringShape,
              WiringInv, HeldInv, ConnInv, OnceInv
<1>3. ASSUME UNCHANGED hsVars, HandshakeInv, StoreInv PROVE HandshakeInv' /\ StoreInv'
  <2>1. hs' = hs /\ signed' = signed
    BY <1>3 DEF hsVars
  <2>2. sessions' = sessions /\ offered' = offered /\ taken' = taken
    BY <1>3 DEF hsVars, sessionVars
  <2>3. OfferInv'
    BY <1>3, <2>1, Zenon DEF HandshakeInv, OfferInv, FromTicket
  <2>4. StoreInv'
    BY <1>3, <2>1, <2>2, Zenon DEF StoreInv, SessionTypeOK, Issued, EarlyDataOnce
  <2>5. HandshakeTypeOK' /\ FlightInv'
    BY <1>3, <2>1, Zenon DEF HandshakeInv, HandshakeTypeOK, FlightInv, Given, SignedAs
  <2>6. Authenticated' /\ CompatibleMeet'
    BY <1>3, <2>1, Zenon DEF HandshakeInv, Authenticated, ProvedBy, peer_public_key, CompatibleMeet
  <2>7. QED BY <2>5, <2>6, <2>3, <2>4 DEF HandshakeInv
<1>4. Inv /\ [Next]_allVars => Inv'
  <2> SUFFICES ASSUME Inv, [Next]_allVars PROVE Inv'
    OBVIOUS
  <2>1. CASE hs.no = 0 /\ WiringNext /\ UNCHANGED hsVars
    BY <1>3, <2>1, WiringStep
  <2>2. ASSUME NEW c \in ClientEnds, NEW s \in ServerEnds,
               NEW offer \in Offers(c) \union {NoTicket}, Meet(c, s, offer)
        PROVE  Inv'
    BY <2>2, MeetKeeps
  <2>3. HandshakeTypeOK
    BY DEF HandshakeInv
  <2>4. CASE ServerFlight
    <3>1. /\ UNCHANGED <<vars, offered, taken>> /\ sessions' \subseteq sessions
          /\ hs.phase # "done"
      BY <2>4 DEF ServerFlight
    <3>2. HandshakeInv' /\ Goes
      BY <2>4, ServerFlightKeeps
    <3>3. QED BY <1>2, <2>3, <3>1, <3>2, StoreStays
  <2>5. CASE ServerResumes
    <3>1. HandshakeInv' /\ Goes /\ UNCHANGED vars
      BY <2>5, ServerResumesKeeps DEF ServerResumes
    <3>2. QED BY <1>2, <2>3, <2>5, <3>1, ServerResumesStore
  <2>6. CASE StrangerServes
    <3>1. UNCHANGED <<vars, sessionVars>> /\ hs.phase # "done"
      BY <2>6 DEF StrangerServes
    <3>2. HandshakeInv' /\ Goes
      BY <2>6, StrangerServesKeeps
    <3>3. QED BY <1>2, <2>3, <3>1, <3>2, StoreStays DEF sessionVars
  <2>7. CASE ClientFlight
    <3>1. UNCHANGED <<vars, sessionVars>> /\ hs.phase # "done"
      BY <2>7 DEF ClientFlight
    <3>2. HandshakeInv' /\ Goes
      BY <2>7, ClientFlightKeeps
    <3>3. QED BY <1>2, <2>3, <3>1, <3>2, StoreStays DEF sessionVars
  <2>8. CASE StrangerAnswers
    <3>1. UNCHANGED <<vars, sessionVars>> /\ hs.phase # "done"
      BY <2>8 DEF StrangerAnswers
    <3>2. HandshakeInv' /\ Goes
      BY <2>8, StrangerAnswersKeeps
    <3>3. QED BY <1>2, <2>3, <3>1, <3>2, StoreStays DEF sessionVars
  <2>9. CASE ClientResumes
    <3>1. UNCHANGED <<vars, sessionVars>> /\ hs.phase # "done"
      BY <2>9 DEF ClientResumes
    <3>2. HandshakeInv' /\ Goes
      BY <2>9, ClientResumesKeeps
    <3>3. QED BY <1>2, <2>3, <3>1, <3>2, StoreStays DEF sessionVars
  <2>10. CASE ServerFinish
    <3>1. HandshakeInv' /\ Goes /\ UNCHANGED vars
      BY <2>10, ServerFinishKeeps DEF ServerFinish
    <3>2. QED BY <1>2, <2>10, <3>1, ServerFinishStore
  <2>11. CASE UNCHANGED allVars
    BY <1>2, <1>3, <2>11 DEF allVars
  <2>12. QED BY <2>1, <2>2, <2>4, <2>5, <2>6, <2>7, <2>8, <2>9, <2>10, <2>11 DEF Next, HandshakeStep
<1>5. QED BY <1>1, <1>4, PTL DEF Spec

\* However send, receive, connect and accept are called, and whatever they
\* refuse, a wiring is in one place, and a connection runs the last ones
\* (Wired of rust/component/src/pump.rs).
THEOREM WiredOnce == Spec => []EachWiringOnce
<1>1. WiringInv => EachWiringOnce
  BY OnceParts DEF WiringInv
<1>2. QED BY <1>1, HandshakeInvCorrect, PTL

\* An endpoint that completes a handshake has met the holder of the key it
\* trusts, in it or in the full handshake it resumes, whoever the peer is and
\* whatever it saw before; and in the guest only Ed25519 keys sign (rust/tls/src/rpk.rs, rust/profile/src/lib.rs).
THEOREM TrustAlwaysKept == Spec => []TrustKept
<1>1. WiringTypeOK /\ HandshakeInv => TrustKept
  <2> SUFFICES ASSUME WiringTypeOK, HandshakeInv PROVE TrustKept
    OBVIOUS
  <2>1. hs.client \in Ends /\ hs.server \in Ends
    BY DEF HandshakeInv, HandshakeTypeOK, Handshakes
  <2>2. ASSUME NEW id \in identities, id.posture = "in-guest" PROVE id.key \in Ed25519Keys
    <3>1. id \in GuestId \/ id \in ExternalId
      BY DEF WiringTypeOK, WebId
    <3>2. id \notin ExternalId
      BY <2>2 DEF ExternalId
    <3>3. QED BY <3>1, <3>2 DEF GuestId
  <2>3. GuestSignsEd25519
    BY <2>1, <2>2, EndFacts DEF GuestSignsEd25519
  <2>4. QED BY <2>3 DEF TrustKept, HandshakeInv
<1>2. QED BY <1>1, HandshakeInvCorrect, PTL

\* No hello makes a server take its early data twice, whoever copies it and
\* however many tickets a server hands out (rust/quic/src/lib.rs).
THEOREM EarlyDataAlwaysOnce == Spec => []EarlyDataOnce
<1>1. StoreInv => EarlyDataOnce
  BY DEF StoreInv
<1>2. QED BY <1>1, HandshakeInvCorrect, PTL

\* Endpoints that agree, each presenting the key it signs with, never refuse
\* each other, in whatever order a signer lists its schemes.
THEOREM CompatibleAlwaysMeet == Spec => []CompatibleMeet
<1>1. HandshakeInv => CompatibleMeet
  BY DEF HandshakeInv
<1>2. QED BY <1>1, HandshakeInvCorrect, PTL
=============================================================================
