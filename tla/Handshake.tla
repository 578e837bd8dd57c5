----------------------------- MODULE Handshake -----------------------------
(***************************************************************************)
(* Whom a handshake authenticates.  The endpoints are the ones TlsWiring's *)
(* connectors and acceptors hand to their pumps, the raw-public-key        *)
(* endpoints of rust/tls and the endpoints of rust/quic; each meets        *)
(* another of them, or a stranger: a peer that is not built from this code *)
(* and may present any certificate, but makes signatures only with its own *)
(* keys.  rustls runs the handshake; the verifiers, keys and signers it    *)
(* calls back into are Identity's.                                         *)
(*                                                                         *)
(* No configuration of this code changes rustls's session store, so an     *)
(* endpoint whose configuration is kept for more connections resumes: a    *)
(* server that finished hands out tickets, each good for one handshake     *)
(* without certificates or signatures, and over QUIC for early data that   *)
(* the server takes before the client has answered.                        *)
(***************************************************************************)
EXTENDS TlsWiring

CONSTANTS
  StrangerKeys,  \* private keys only strangers hold
  Alpn,          \* protocols of the QUIC endpoints
  TicketsSent,   \* tickets a server hands out when it finishes
  MaxMeetings,   \* bound: the handshakes that may begin without a ticket
  MaxSessions,   \* bound: sessions held where such a handshake begins
  MaxHandshakes  \* bound: handshakes, one after the other

ASSUME StrangerAssumption == StrangerKeys \subseteq Keys
ASSUME TicketsAssumption == TicketsSent \in Nat

VARIABLES
  hs,        \* the current handshake
  signed,    \* the signatures endpoints of this code made: key, scheme, handshake
  sessions,  \* the tickets whose session the server still holds
  offered,   \* the tickets clients of this code have taken from their store
  taken      \* the tickets whose early data a server of this code took, in order

sessionVars == <<sessions, offered, taken>>
hsVars == <<hs, signed, sessionVars>>
allVars == <<vars, hsVars>>

NoSignature == [by |-> NoKey, scheme |-> None, over |-> 0]

Ours == Keys \ StrangerKeys

Stranger(role, raw, alpn) ==
  End(role, raw, {}, NoKey, [NoIdentity EXCEPT !.posture = "stranger"], alpn)

IsStranger(end) == end.id.posture = "stranger"

\* The identities a program of the Rust library can have: in the guest, or
\* around a signer.
OurRpk == {id \in RpkIdentities(Signers) : id.key \in Ours}

\* The endpoint that connect or accept has just handed to its pump.
Handed == IF answer = "handshake" THEN {conns[Len(conns)].end} ELSE {}

\* What meets: endpoints run by the component, which builds a configuration
\* for every call; endpoints built directly, as the tunnel host's connector
\* is, and kept; those of the handshake before; and strangers.
ClientEnds ==
  {e \in {conns[i].end : i \in DOMAIN conns} \union {hs.client} : e.role = "client"}
    \union {Kept(rpk_client_config(id, pin)) : id \in OurRpk, pin \in Ed25519Keys}
    \union {Kept(quic_rpk_client_config(id, pin, p)) :
              id \in OurRpk, pin \in Ed25519Keys, p \in Alpn}
    \union {Kept(quic_client_config(Roots, p)) : p \in Alpn}
    \union {Kept(client_config(Roots))}
    \union {Stranger("client", raw, p) : raw \in BOOLEAN, p \in Alpn \union {None}}

ServerEnds ==
  {e \in {conns[i].end : i \in DOMAIN conns} \union {hs.server} : e.role = "server"}
    \union {Kept(rpk_server_config(id)) : id \in OurRpk}
    \union {Kept(quic_rpk_server_config(id, p)) : id \in OurRpk, p \in Alpn}
    \union {Kept(quic_server_config(id, p)) : id \in identities, p \in Alpn}
    \union {Kept(server_config(id)) : id \in identities}
    \union {Stranger("server", raw, p) : raw \in BOOLEAN, p \in Alpn \union {None}}

\* A ticket and what both ends store with it: the chains of the full handshake
\* `root` it goes back to.  `no` and `nth` tell tickets apart.
Ticket(no, nth, root, c, s, chain, cchain) ==
  [no |-> no, nth |-> nth, root |-> root, client |-> c, server |-> s,
   chain |-> chain, cchain |-> cchain]

NoTicket ==
  Ticket(0, 0, 0, Stranger("client", FALSE, None), Stranger("server", FALSE, None), <<>>, <<>>)

Idle ==
  [no |-> 0, phase |-> "idle", client |-> Stranger("client", FALSE, None),
   server |-> Stranger("server", FALSE, None), broke |-> FALSE,
   chain |-> <<>>, sig |-> NoSignature, cchain |-> <<>>, csig |-> NoSignature,
   cdone |-> FALSE, sdone |-> FALSE,
   offer |-> NoTicket, resumed |-> FALSE, root |-> 0]

Init ==
  /\ WiringInit /\ hs = Idle /\ signed = {}
  /\ sessions = {} /\ offered = {} /\ taken = <<>>

\* The calls made so far are not read again once handshakes begin, and are
\* forgotten; no call depends on the handshake of another connection.
Forget ==
  /\ signer' = NoSigner /\ identities' = {}
  /\ made' = 0 /\ server' = FALSE /\ alive' = FALSE /\ identity' = NoIdentity
  /\ wired' = NotWired /\ wirings' = <<>> /\ conns' = <<>> /\ calls' = 0
  /\ answer' = None

\* The tickets a client's hello may carry: one it has, which it takes from its
\* store, so that it offers it once; a stranger one of its own, or the one of
\* a hello it has seen, copied.
Offers(c) ==
  IF ~IsStranger(c) THEN {t \in sessions : t.client = c /\ t \notin offered}
  ELSE {t \in sessions : t.client = c}
         \union {t \in offered : t.client.raw = c.raw /\ t.client.alpn = c.alpn}

\* The last handshake has ended, and there is an endpoint that could begin one.
MayMeet ==
  /\ hs.no < MaxHandshakes /\ hs.phase \in {"idle", "done", "failed"}
  /\ made = 0 \/ Handed # {}

\* A handshake begins: of an endpoint just handed over, or of endpoints that
\* were built without the component; or another one, the last having ended.
\* A client's ticket is for a server name: the hello may reach another server.
Meet(c, s, offer) ==
  /\ hs.no < MaxHandshakes /\ hs.phase \in {"idle", "done", "failed"}
  /\ offer = NoTicket => hs.no < MaxMeetings /\ Cardinality(sessions) <= MaxSessions
  /\ made = 0 \/ c \in Handed \/ s \in Handed
  /\ ~(IsStranger(c) /\ IsStranger(s))
  /\ c.quic = s.quic
  /\ hs' = [Idle EXCEPT !.no = hs.no + 1, !.phase = "hello", !.client = c, !.server = s,
                         !.offer = offer, !.root = hs.no + 1]
  /\ offered' = IF IsStranger(c) \/ offer = NoTicket THEN offered ELSE offered \union {offer}
  /\ Forget
  /\ UNCHANGED <<signed, sessions, taken>>

Fail == hs' = [hs EXCEPT !.phase = "failed"] /\ UNCHANGED signed

SignerBroke == hs' = [hs EXCEPT !.phase = "failed", !.broke = TRUE] /\ UNCHANGED signed

Signature(key, scheme) == [by |-> key, scheme |-> scheme, over |-> hs.no]

\* What a stranger may answer a challenge with: a signature of its own, or one
\* that was made before.
StrangerSignatures == {Signature(k, s) : k \in StrangerKeys, s \in SIGNATURE_VERIFICATION_SCHEMES}

StrangerChains ==
  {<<c>> : c \in Certificates} \union {<<c, c>> : c \in Certificates} \union {<<>>}

Negotiates == hs.client.raw = hs.server.raw /\ hs.client.alpn = hs.server.alpn

\* The client's hello and the server's flight up to CertificateVerify.  The
\* kinds of certificate and the protocols are negotiated first; rustls then
\* asks the identity for a signer of one of the schemes the client offered.
\* A ticket the server does not know, or no longer, changes nothing.
ServerFlight ==
  /\ hs.phase = "hello" /\ ~IsStranger(hs.server)
  /\ \E offer \in IF IsStranger(hs.client)
                  THEN {{"ed25519"}, {"pss256"}, SIGNATURE_VERIFICATION_SCHEMES}
                  ELSE {Offered(hs.client.raw)} :
       LET id == hs.server.id
           scheme == choose_scheme(id, offer)
       IN  IF ~Negotiates \/ scheme = None
           THEN Fail
           ELSE \E outcome \in SignOutcomes(id, scheme) :
                  IF outcome = "failed" THEN SignerBroke
                  ELSE /\ signed' = signed \union {Signature(id.key, scheme)}
                       /\ hs' = [hs EXCEPT !.phase = "served", !.chain = id.chain,
                                           !.sig = Signature(id.key, scheme)]
  /\ sessions' = IF hs.offer.server = hs.server THEN sessions \ {hs.offer} ELSE sessions
  /\ UNCHANGED <<vars, offered, taken>>

\* The hello is resumed: both ends go on with what they stored.
Resumed == [hs EXCEPT !.phase = "served", !.resumed = TRUE, !.root = hs.offer.root,
                      !.chain = hs.offer.chain, !.cchain = hs.offer.cchain]

\* Mutant: the session is looked up and stays where it is.
RemainingAll(t) == sessions

\* The session is taken out of the server's cache (rustls's default store).
Remaining(t) == sessions \ {t}

\* The server resumes a session it holds.  Early data is taken at once if both
\* configurations allow it; when the ticket is not fresh it is not.
ServerResumes ==
  /\ hs.phase = "hello" /\ ~IsStranger(hs.server) /\ Negotiates
  /\ hs.offer \in sessions /\ hs.offer.server = hs.server
  /\ hs' = Resumed
  /\ sessions' = Remaining(hs.offer)
  /\ \/ taken' = taken
     \/ hs.offer.client.early /\ hs.server.early /\ taken' = Append(taken, hs.offer)
  /\ UNCHANGED <<vars, signed, offered>>

StrangerServes ==
  /\ hs.phase = "hello" /\ IsStranger(hs.server)
  /\ \/ \E chain \in StrangerChains, sig \in StrangerSignatures \union signed :
          hs' = [hs EXCEPT !.phase = "served", !.chain = chain, !.sig = sig]
     \/ hs.offer # NoTicket /\ hs.offer.server = hs.server /\ hs' = Resumed
  /\ UNCHANGED <<vars, signed, sessionVars>>

\* The client verifies the flight and, when keys are mutual, answers with its
\* own chain and signature, or with nothing when it has no scheme to sign with.
\* It has then finished; the server may still refuse it.
ClientFlight ==
  /\ hs.phase = "served" /\ ~hs.resumed /\ ~IsStranger(hs.client)
  /\ LET id == hs.client.id
         scheme == choose_scheme(id, Offered(TRUE))
     IN  IF \/ ~AcceptsServer(hs.client, hs.chain)
            \/ ~VerifiesUnder(hs.sig, hs.chain[1], hs.no)
         THEN Fail
         ELSE IF ~hs.client.raw \/ scheme = None
         THEN hs' = [hs EXCEPT !.phase = "answered", !.cdone = TRUE] /\ UNCHANGED signed
         ELSE \E outcome \in SignOutcomes(id, scheme) :
                IF outcome = "failed" THEN SignerBroke
                ELSE /\ signed' = signed \union {Signature(id.key, scheme)}
                     /\ hs' = [hs EXCEPT !.phase = "answered", !.cchain = id.chain,
                                         !.csig = Signature(id.key, scheme), !.cdone = TRUE]
  /\ UNCHANGED <<vars, sessionVars>>

\* A certificate that the server did not ask for ends the handshake.
StrangerAnswers ==
  /\ hs.phase = "served" /\ ~hs.resumed /\ IsStranger(hs.client)
  /\ \E chain \in StrangerChains, sig \in StrangerSignatures \union signed :
       /\ hs.server.raw \/ chain = <<>>
       /\ hs' = [hs EXCEPT !.phase = "answered", !.cchain = chain, !.csig = sig]
  /\ UNCHANGED <<vars, signed, sessionVars>>

\* Of a resumed handshake the client verifies and sends only the Finished
\* messages, which take the secret of the session: not a copied ticket.
ClientResumes ==
  /\ hs.phase = "served" /\ hs.resumed
  /\ IF hs.offer.client = hs.client
     THEN hs' = [hs EXCEPT !.phase = "answered", !.cdone = ~IsStranger(hs.client)] /\ UNCHANGED signed
     ELSE Fail
  /\ UNCHANGED <<vars, sessionVars>>

\* Client authentication is mandatory for raw public keys, and absent otherwise;
\* a resumed session keeps the one it has.
ClientAdmitted ==
  \/ hs.resumed \/ ~hs.server.raw
  \/ RpkClientVerifier(hs.cchain) /\ VerifiesUnder(hs.csig, hs.cchain[1], hs.no)

Keeps(end) == IsStranger(end) \/ end.kept

\* The tickets of the handshake that ends now, of which the client gets the
\* first n, where both ends keep them.
NewTickets(n) ==
  IF Keeps(hs.client) /\ Keeps(hs.server)
  THEN {Ticket(hs.no, i, hs.root, hs.client, hs.server, hs.chain, hs.cchain) : i \in 1..n}
  ELSE {}

ServerFinish ==
  /\ hs.phase = "answered"
  /\ IF IsStranger(hs.server) \/ ClientAdmitted
     THEN /\ hs' = [hs EXCEPT !.phase = "done", !.sdone = ~IsStranger(hs.server)]
          /\ \E n \in 0..TicketsSent : sessions' = sessions \union NewTickets(n)
          /\ UNCHANGED signed
     ELSE Fail /\ UNCHANGED sessions
  /\ UNCHANGED <<vars, offered, taken>>

HandshakeStep ==
  \/ ServerFlight \/ ServerResumes \/ StrangerServes
  \/ ClientFlight \/ StrangerAnswers \/ ClientResumes
  \/ ServerFinish

Next ==
  \/ hs.no = 0 /\ WiringNext /\ UNCHANGED hsVars
  \/ /\ MayMeet
     /\ \E c \in ClientEnds, s \in ServerEnds :
          \E offer \in Offers(c) \union {NoTicket} : Meet(c, s, offer)
  \/ HandshakeStep

Spec == Init /\ [][Next]_allVars

-----------------------------------------------------------------------------
(* Properties *)

\* The key an endpoint authenticated: the pin or the leaf's key for a client,
\* what peer_public_key reads for a server.
peer_public_key == public_key_from_ed25519_spki(hs.cchain[1])

\* The holder of the key signed handshake hs.root: the current one or, when it
\* was resumed, the full handshake its session goes back to.
ProvedBy(key) ==
  \/ \E s \in signed : s.by = key /\ s.over = hs.root
  \/ key \in StrangerKeys /\ (IsStranger(hs.client) \/ IsStranger(hs.server))

\* A handshake that an endpoint completed rests on a signature, made in it or
\* in the full handshake it was resumed from, with the key the endpoint trusts:
\* the pinned key and no other for a raw-key client (rust/tls/src/rpk.rs), the
\* key of a certificate issued under the roots for a connector, and the key
\* peer_public_key reports for a raw-key server.  A peer whose holder is not
\* part of it cannot stand in for it, also with certificates, chains,
\* signatures and tickets taken from other handshakes.
Authenticated ==
  /\ hs.cdone => ProvedBy(IF hs.client.raw THEN hs.client.pin ELSE hs.chain[1].key)
  /\ hs.cdone /\ ~hs.client.raw => hs.chain[1].issuer \in hs.client.roots
  /\ hs.sdone /\ hs.server.raw => peer_public_key # NoKey /\ ProvedBy(peer_public_key)

\* An RSA key never signs in the guest, whatever was passed to a constructor
\* (the signing policy of rust/profile/src/lib.rs).
GuestSignsEd25519 ==
  \A id \in identities \union {hs.client.id, hs.server.id} :
    id.posture = "in-guest" => id.key \in Ed25519Keys

TrustKept == Authenticated /\ GuestSignsEd25519

\* Early data is taken once: whoever copies a hello of a QUIC client and sends
\* it again, to a server with max_early_data_size set, does not make the server
\* take the data of that hello again (rust/quic/src/lib.rs, server_config).
EarlyDataOnce == \A i, j \in DOMAIN taken : taken[i] = taken[j] => i = j

\* Two endpoints that agree on raw keys and protocols, each presenting the
\* key it signs with, the server the one the client trusts.  A raw-key identity
\* may be built around a signer without a scheme (RpkIdentity::external does
\* not ask); identity::delegated refuses such a signer.
Signs(id) == id.chain[1].key = id.key /\ \A i \in DOMAIN id.schemes : id.schemes[i] \in SchemesOf(id.key)

Compatible(c, s) ==
  /\ c.raw = s.raw /\ c.alpn = s.alpn
  /\ Signs(s.id) /\ AcceptsServer(c, s.id.chain)
  /\ c.raw => /\ Signs(c.id) /\ public_key_from_ed25519_spki(c.id.chain[1]) # NoKey
              /\ c.id.schemes # <<>> /\ s.id.schemes # <<>>

\* Compatible endpoints never refuse each other: unless a signer itself fails,
\* their handshake succeeds whatever the order of the signer's schemes.
CompatibleMeet ==
  hs.phase = "failed" /\ ~hs.broke /\ ~IsStranger(hs.client) /\ ~IsStranger(hs.server)
    => ~Compatible(hs.client, hs.server)
=============================================================================
