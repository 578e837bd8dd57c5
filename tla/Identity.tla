------------------------------ MODULE Identity ------------------------------
(***************************************************************************)
(* Who an endpoint is and whom it trusts, as the code builds it: the       *)
(* algorithm profile (rust/profile), the WebPKI and raw-public-key         *)
(* configurations (rust/tls, rust/quic), the delegated key of the          *)
(* component and the signers it is composed with.                          *)
(*                                                                         *)
(* A private key stands for its pair.  A certificate is an encoding of a   *)
(* public key: "x509" (issued by a certification authority) or "spki" (a   *)
(* bare SubjectPublicKeyInfo).  An identity is a chain and a way to sign:  *)
(* `key` makes the signatures, under one of `schemes`, in the guest or     *)
(* behind an external signer.                                              *)
(***************************************************************************)
EXTENDS Naturals, Sequences

CONSTANTS
  Ed25519Keys,  \* private keys: Ed25519
  RsaKeys,      \* private keys: RSA, whose schemes differ in the hash
  Authorities   \* issuers of X.509 certificates

Keys == Ed25519Keys \union RsaKeys
NoKey == "no key"
Malformed == "not a key document"
None == "none"

\* The schemes a signature by key k can verify under.
SchemesOf(k) ==
  IF k \in Ed25519Keys THEN {"ed25519"} ELSE {"pss256", "pss384", "pss512"}

\* SIGNATURE_VERIFICATION_SCHEMES, as far as the keys here tell them apart.
SIGNATURE_VERIFICATION_SCHEMES == {"ed25519", "pss256", "pss384", "pss512"}

\* The schemes a signer may list: also ones no endpoint here verifies.
SignerSchemes == SIGNATURE_VERIFICATION_SCHEMES \union {"unsupported"}

X509(k, issuer) == [form |-> "x509", key |-> k, issuer |-> issuer]

ed25519_spki(k) == [form |-> "spki", key |-> k, issuer |-> None]

Certificates ==
  {X509(k, a) : k \in Keys, a \in Authorities} \union {ed25519_spki(k) : k \in Keys}

\* The key in cert when it is the SPKI of an Ed25519 key.
public_key_from_ed25519_spki(cert) ==
  IF cert.form = "spki" /\ cert.key \in Ed25519Keys THEN cert.key ELSE NoKey

-----------------------------------------------------------------------------
(* Identities *)

\* The check of Ed25519Identity::from_pkcs8_der and RpkIdentity::from_pkcs8_der.
from_pkcs8_der(doc) == doc \in Ed25519Keys

Ed25519Identity(chain, key) ==
  [posture |-> "in-guest", chain |-> chain, key |-> key, schemes |-> <<"ed25519">>]

\* ServerIdentity::External around a DelegatedKey of the composed signer.
DelegatedIdentity(chain, signer) ==
  [posture |-> "external", chain |-> chain, key |-> signer.key, schemes |-> signer.schemes]

\* RpkIdentity from a document, and from a signer that reports the key `told`.
\* Both present the SPKI of the public key alone (certified_key).
RpkInGuest(key) == Ed25519Identity(<<ed25519_spki(key)>>, key)
RpkExternal(told, signer) == DelegatedIdentity(<<ed25519_spki(told)>>, signer)

RpkIdentities(signers) ==
  {RpkInGuest(doc) : doc \in {k \in Keys : from_pkcs8_der(k)}}
    \union {RpkExternal(s.told, s) :
              s \in {t \in signers : t.told # NoKey /\
                       public_key_from_ed25519_spki(ed25519_spki(t.told)) # NoKey}}

\* The first scheme of the identity, in its own order, that the peer offered.
choose_scheme(id, offered) ==
  LET usable == {i \in DOMAIN id.schemes : id.schemes[i] \in offered}
  IN  IF usable = {} THEN None
      ELSE id.schemes[CHOOSE i \in usable : \A j \in usable : i <= j]

\* sign of a composed signer: it refuses a scheme that is not its key's, and
\* may fail.
SignerSign(key, scheme) ==
  IF scheme \in SchemesOf(key) THEN {"signed", "failed"} ELSE {"failed"}

\* Signer::sign: in the guest by the loaded key, else by the composed signer.
SignOutcomes(id, scheme) ==
  IF id.posture = "in-guest" THEN {"signed"} ELSE SignerSign(id.key, scheme)

-----------------------------------------------------------------------------
(* Endpoints: what the configurations make of an identity and a trust rule *)

NoIdentity == [posture |-> None, chain |-> <<>>, key |-> NoKey, schemes |-> <<>>]

\* raw: raw public keys on both sides; roots and pin: whom a client accepts;
\* early: early data is sent or accepted; kept: the configuration, and with it
\* rustls's store of sessions, serves more than one connection.
End(role, raw, roots, pin, id, alpn) ==
  [role |-> role, raw |-> raw, roots |-> roots, pin |-> pin, id |-> id,
   quic |-> alpn # None, alpn |-> alpn, early |-> FALSE, kept |-> FALSE]

\* enable_early_data of a client, max_early_data_size of a server.
Early(end) == [end EXCEPT !.early = TRUE]

\* A program that builds a configuration once and connects with it repeatedly.
Kept(end) == [end EXCEPT !.kept = TRUE]

client_config(roots) == End("client", FALSE, roots, NoKey, NoIdentity, None)
server_config(id) == End("server", FALSE, {}, NoKey, id, None)
rpk_client_config(id, pin) == End("client", TRUE, {}, pin, id, None)
rpk_server_config(id) == End("server", TRUE, {}, NoKey, id, None)

\* The QUIC configurations differ in the suites, in the protocols they must
\* agree on, and in the early data they send and accept.
quic_client_config(roots, alpn) == Early(End("client", FALSE, roots, NoKey, NoIdentity, alpn))
quic_server_config(id, alpn) == Early(End("server", FALSE, {}, NoKey, id, alpn))
quic_rpk_client_config(id, pin, alpn) == Early(End("client", TRUE, {}, pin, id, alpn))
quic_rpk_server_config(id, alpn) == Early(End("server", TRUE, {}, NoKey, id, alpn))

\* Mutant: a client offers only the scheme endpoints sign with in the guest.
OfferedInGuest(raw) == {"ed25519"}

\* supported_verify_schemes: of the raw-key verifiers, and of the provider.
Offered(raw) == IF raw THEN {"ed25519"} ELSE SIGNATURE_VERIFICATION_SCHEMES

-----------------------------------------------------------------------------
(* Verification *)

\* verify_tls13_signature: over this handshake, by the key in the certificate.
VerifiesUnder(sig, cert, no) ==
  sig.by = cert.key /\ sig.scheme \in SchemesOf(cert.key) /\ sig.over = no

\* Mutant: the raw key is checked for its form and not against the pin.
RpkServerVerifierUnpinned(end, chain) ==
  Len(chain) = 1 /\ public_key_from_ed25519_spki(chain[1]) # NoKey

RpkServerVerifier(end, chain) ==
  Len(chain) = 1 /\ chain[1] = ed25519_spki(end.pin)

RpkClientVerifier(chain) ==
  Len(chain) = 1 /\ public_key_from_ed25519_spki(chain[1]) # NoKey

\* rustls's WebPKI verifier over the connector's roots.
WebPkiVerifier(end, chain) ==
  Len(chain) > 0 /\ chain[1].form = "x509" /\ chain[1].issuer \in end.roots

AcceptsServer(end, chain) ==
  IF end.raw THEN RpkServerVerifier(end, chain) ELSE WebPkiVerifier(end, chain)
=============================================================================
