----------------------------- MODULE TlsWiring -----------------------------
(***************************************************************************)
(* The resources of the component before the pumps run: the identities,    *)
(* connectors and acceptors of rust/component/src/component.rs, and        *)
(* `Wired` of rust/component/src/pump.rs.                                  *)
(*                                                                         *)
(* A wiring is what one call of send or receive sets up: two stream ends   *)
(* and the writer of the direction's future.  Its three parts are stored,  *)
(* taken and dropped together.  A future whose writer is dropped unused    *)
(* resolves to its default, Ok(()).  What happens to a wiring that runs is *)
(* TlsPump's subject; whom its handshake authenticates is Handshake's.     *)
(***************************************************************************)
EXTENDS Identity, FiniteSets

CONSTANTS
  Signers,     \* signers the component may be composed with; `told` is the
               \* public key they report, which this component never asks for
  Roots,       \* trust anchors of the connectors
  MaxWirings,  \* bound: calls of send and receive
  MaxCalls,    \* bound: calls of connect or accept
  MaxIdentities, \* bound: identities built
  MaxResources   \* bound: connectors and acceptors built, one at a time

ASSUME WiringAssumption ==
  MaxWirings \in Nat /\ MaxCalls \in Nat /\ Roots \subseteq Authorities

\* A signer lists its schemes in its own order, possibly none, and may report
\* any public key or none.
ASSUME SignersAssumption ==
  Signers \subseteq [key : Keys, schemes : Seq(SignerSchemes), told : Keys \union {NoKey}]

NoSigner == [key |-> NoKey, schemes |-> <<>>, told |-> NoKey]

VARIABLES
  signer,      \* the composed signer, NoSigner in the `tls` world
  identities,  \* the identity resources
  made,        \* resources built so far
  server,      \* the resource is an acceptor, not a connector
  alive,       \* the resource exists
  identity,    \* the identity the acceptor still holds
  wired,       \* Wired: per direction, the wiring stored there (0: none)
  wirings,     \* every wiring made: its direction and what became of it
  conns,       \* what was handed to pump::run, in order
  calls,       \* connect and accept calls so far
  answer       \* answer of the last call that can fail

idVars == <<signer, identities>>
resourceVars == <<made, server, alive, identity>>
wiringVars == <<wired, wirings, conns, calls>>
vars == <<idVars, resourceVars, wiringVars, answer>>

Dirs == {"send", "receive"}

NotWired == [d \in Dirs |-> 0]

WiringInit ==
  /\ signer \in Signers \union {NoSigner}
  /\ identities = {}
  /\ made = 0 /\ server = FALSE /\ alive = FALSE /\ identity = NoIdentity
  /\ wired = NotWired /\ wirings = <<>> /\ conns = <<>> /\ calls = 0
  /\ answer = None

-----------------------------------------------------------------------------
(* Identities *)

\* identity::ed25519
MakeEd25519(chain, doc) ==
  /\ IF from_pkcs8_der(doc)
     THEN identities' = identities \union {Ed25519Identity(chain, doc)} /\ answer' = "identity"
     ELSE identities' = identities /\ answer' = "refused"
  /\ UNCHANGED <<signer, resourceVars, wiringVars>>

\* identity::delegated, which asks the signer for its schemes once
MakeDelegated(chain) ==
  /\ IF signer # NoSigner /\ signer.schemes # <<>>
     THEN identities' = identities \union {DelegatedIdentity(chain, signer)} /\ answer' = "identity"
     ELSE identities' = identities /\ answer' = "refused"
  /\ UNCHANGED <<signer, resourceVars, wiringVars>>

\* The chains a deployment passes: an X.509 certificate, of any key.
MakeIdentity ==
  /\ Cardinality(identities) < MaxIdentities
  /\ \E cert \in {X509(k, a) : k \in Keys, a \in Authorities} :
       \/ \E doc \in Keys \union {Malformed} : MakeEd25519(<<cert>>, doc)
       \/ MakeDelegated(<<cert>>)

-----------------------------------------------------------------------------
(* Connectors and acceptors *)

NewConnector ==
  /\ ~alive /\ made < MaxResources
  /\ made' = made + 1 /\ alive' = TRUE /\ server' = FALSE /\ identity' = NoIdentity
  /\ UNCHANGED <<idVars, wiringVars, answer>>

\* Acceptor::new builds its own copy: the identity serves further acceptors.
NewAcceptor(id) ==
  /\ ~alive /\ made < MaxResources
  /\ made' = made + 1 /\ alive' = TRUE /\ server' = TRUE
  /\ identity' = IF id.posture = "external" \/ from_pkcs8_der(id.key) THEN id ELSE NoIdentity
  /\ UNCHANGED <<idVars, wiringVars, answer>>

\* The wirings with those in ws given the fate f.
Become(ws, f) ==
  [w \in DOMAIN wirings |->
     IF w \in ws THEN [wirings[w] EXCEPT !.fate = f] ELSE wirings[w]]

\* Mutant: a second call does not replace the first one's streams.
WireFirst(d) ==
  /\ alive /\ Len(wirings) < MaxWirings
  /\ wirings' = Append(wirings, [dir |-> d, fate |-> "wired"])
  /\ wired' = [wired EXCEPT ![d] = IF @ = 0 THEN Len(wirings) + 1 ELSE @]
  /\ UNCHANGED <<idVars, resourceVars, conns, calls, answer>>

\* wire_send and wire_receive: what the direction held before is dropped.
Wire(d) ==
  /\ alive /\ Len(wirings) < MaxWirings
  /\ wirings' = Append(Become({wired[d]}, "dropped"), [dir |-> d, fate |-> "wired"])
  /\ wired' = [wired EXCEPT ![d] = Len(wirings) + 1]
  /\ UNCHANGED <<idVars, resourceVars, conns, calls, answer>>

\* What pump::run is handed: both wirings, and the configured endpoint.
Connection(end) ==
  [send |-> wired["send"], receive |-> wired["receive"], end |-> end, at |-> Len(wirings)]

\* take_complete, and pump::run with what it returns.  The send parts are
\* taken first: when only the receive parts are missing, the send parts are
\* dropped with the incomplete value; when the send parts are missing,
\* nothing is taken.
TakeComplete(end) ==
  \/ /\ wired["send"] # 0 /\ wired["receive"] # 0
     /\ conns' = Append(conns, Connection(end))
     /\ wirings' = Become({wired["send"], wired["receive"]}, "run")
     /\ wired' = NotWired
     /\ answer' = "handshake"
  \/ /\ wired["send"] # 0 /\ wired["receive"] = 0
     /\ wirings' = Become({wired["send"]}, "dropped")
     /\ wired' = [wired EXCEPT !["send"] = 0]
     /\ answer' = "not-wired"
     /\ UNCHANGED conns
  \/ /\ wired["send"] = 0
     /\ answer' = "not-wired"
     /\ UNCHANGED <<wirings, wired, conns>>

Refused ==
  /\ answer' = "refused"
  /\ UNCHANGED <<wirings, wired, conns>>

\* A root or a server name that is refused returns before the wiring is
\* touched.
Connect(valid) ==
  /\ alive /\ ~server /\ calls < MaxCalls
  /\ calls' = calls + 1
  /\ IF valid THEN TakeComplete(client_config(Roots)) ELSE Refused
  /\ UNCHANGED <<idVars, resourceVars>>

\* accept takes the identity before anything else; server_config may refuse an
\* Ed25519 identity whose chain does not go with its key.
Accept(valid) ==
  /\ alive /\ server /\ calls < MaxCalls
  /\ calls' = calls + 1
  /\ identity' = NoIdentity
  /\ IF identity # NoIdentity /\ (valid \/ identity.posture = "external")
     THEN TakeComplete(server_config(identity)) ELSE Refused
  /\ UNCHANGED <<idVars, made, server, alive>>

\* The resource is dropped, and the parts it still holds with it.
DropResource ==
  /\ alive
  /\ alive' = FALSE
  /\ wirings' = Become({wired[d] : d \in Dirs}, "dropped")
  /\ wired' = NotWired
  /\ UNCHANGED <<idVars, made, server, identity, conns, calls, answer>>

WiringNext ==
  \/ MakeIdentity
  \/ NewConnector
  \/ \E id \in identities : NewAcceptor(id)
  \/ \E d \in Dirs : Wire(d)
  \/ \E valid \in BOOLEAN : Connect(valid) \/ Accept(valid)
  \/ DropResource

-----------------------------------------------------------------------------
(* Properties *)

\* A wiring is held by the resource, run by one connection, or released so
\* that whoever holds the other ends is told; it is never in two places, and
\* a connection runs over the streams passed last, whatever was wired, refused
\* or left half wired before (Wired of pump.rs).
EachWiringOnce ==
  /\ \A w \in DOMAIN wirings :
       /\ wirings[w].fate = "wired" <=> wired[wirings[w].dir] = w
       /\ wirings[w].fate = "run" <=> \E i \in DOMAIN conns : conns[i][wirings[w].dir] = w
       /\ \A i \in DOMAIN conns : w <= conns[i].at => w <= conns[i][wirings[w].dir]
  /\ \A i, j \in DOMAIN conns : \A d \in Dirs :
       conns[i][d] = conns[j][d] => i = j
=============================================================================
