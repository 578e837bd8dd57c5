----------------------------- MODULE QuicCrypto -----------------------------
(***************************************************************************)
(* QUIC packet protection and the endpoint keys (rust/quic/src/packet.rs,  *)
(* keys.rs, suites.rs).  A sender seals packets and protects their         *)
(* headers, a network keeps, repeats, reorders and damages them, and a     *)
(* receiver unprotects and opens them; a server hands out retry tokens and *)
(* reset signatures and later judges what comes back.                      *)
(*                                                                         *)
(* A byte is the set of its one bits, so `^' is the symmetric difference   *)
(* and `&' the intersection; path ids, packet numbers and nonces are sets  *)
(* of bits as well.  An AEAD box is symbolic: it opens only under the key, *)
(* the nonce and the header it was sealed with and with its ciphertext     *)
(* intact.  Framing (how noq-proto lays a packet out, chooses packet       *)
(* numbers and samples) is external: a header carries the low bytes of the *)
(* number, and the receiver completes them from the number it expects.     *)
(***************************************************************************)
EXTENDS Naturals, Sequences, FiniteSets

CONSTANTS
    Suite,          \* the negotiated suite: "AES_128_GCM" or "CHACHA20_POLY1305"
    Iv,             \* the packet key's IV, a set of bits of 0..95
    MaskOf,         \* suite -> sample -> the 5 mask bytes of the header key
    Samples,        \* the ciphertext samples that can occur
    Leads,          \* what the first three ciphertext bytes can be
    Paths,          \* path ids, sets of bits of 0..31; {} is path 0
    PacketNumbers,  \* packet numbers, sets of bits of 0..63
    Expected,       \* the number the receiver expects, whose high bits it adds
    FirstBytes,     \* first bytes of plain headers
    TokenNonces,    \* nonces of retry tokens
    Data,           \* contents of tokens, subjects of reset signatures
    MaxSeals,       \* bound: packets, tokens and signatures made
    MaxDamaged      \* bound: packets, tokens and signatures altered on the way

Byte == SUBSET (0..7)
Xor(a, b) == (a \ b) \cup (b \ a)

ASSUME QuicAssumption ==
    /\ Suite \in {"AES_128_GCM", "CHACHA20_POLY1305"}
    /\ Iv \subseteq 0..95
    /\ MaskOf \in [{"AES_128_GCM", "CHACHA20_POLY1305"} ->
                     [Samples -> [1..5 -> Byte]]]
    /\ Leads \subseteq [1..3 -> Byte]
    /\ Paths \subseteq SUBSET (0..31)
    /\ PacketNumbers \subseteq SUBSET (0..63)
    /\ Expected \subseteq 0..63
    /\ FirstBytes \subseteq Byte
    /\ MaxSeals \in Nat /\ MaxDamaged \in Nat

VARIABLES
    sealed,    \* every packet sealed, with the plain header it was built from
    wire,      \* packets in the network
    opened,    \* packets the receiver opened
    rejected,  \* packets the receiver refused
    issued,    \* tokens and signatures issued
    accepted,  \* tokens and signatures accepted
    aeadUses,  \* one <<key, nonce, seal>> for every AEAD encryption
    damaged    \* number of alterations so far

vars == <<sealed, wire, opened, rejected, issued, accepted, aeadUses, damaged>>

-----------------------------------------------------------------------------
(* Header protection                                                       *)

LONG_HEADER_FORM == 7

\* The bits of the first byte that are masked: four in a long header (0x0f),
\* five in a short one (0x1f).
bits(first) == IF LONG_HEADER_FORM \in first THEN 0..3 ELSE 0..4

pn_len(first) ==
    1 + (IF 0 \in first THEN 1 ELSE 0) + (IF 1 \in first THEN 2 ELSE 0)

\* Mutant: the length bits are read as they stand, masked or not.
XorReadsMasked(mask, first, packet_number, masked) ==
    [ok |-> Len(packet_number) <= 4,
     first |-> Xor(first, mask[1] \cap bits(first)),
     packet_number |->
        [i \in 1..Len(packet_number) |->
            IF i <= pn_len(first) THEN Xor(packet_number[i], mask[i + 1])
                                  ELSE packet_number[i]]]

\* xor_in_place: the first byte and the packet number bytes after masking.
xor_in_place(mask, first, packet_number, masked) ==
    LET first_mask  == mask[1] \cap bits(first)
        first_plain == IF masked THEN Xor(first, first_mask) ELSE first
    IN  [ok |-> Len(packet_number) <= 4,
         first |-> Xor(first, first_mask),
         packet_number |->
            [i \in 1..Len(packet_number) |->
                IF i <= pn_len(first_plain) THEN Xor(packet_number[i], mask[i + 1])
                                            ELSE packet_number[i]]]

\* The encryption level of a header: a long one names it in its type bits (a
\* retry packet has no keys at all), a short one is of the data level.
LevelOf(first) ==
    CASE LONG_HEADER_FORM \notin first -> "data"
      [] LONG_HEADER_FORM \in first /\ first \cap {4, 5} = {} -> "initial"
      [] LONG_HEADER_FORM \in first /\ first \cap {4, 5} = {4} -> "early"
      [] LONG_HEADER_FORM \in first /\ first \cap {4, 5} = {5} -> "handshake"
      [] OTHER -> "retry"

\* Initial keys are always AES (RFC 9001 5.2); every other level, with a long
\* header or a short one, has the negotiated suite's.
SuiteOf(first) == IF LevelOf(first) = "initial" THEN "AES_128_GCM" ELSE Suite

AesMask(sample) == MaskOf["AES_128_GCM"][sample]
ChaChaMask(sample) == MaskOf["CHACHA20_POLY1305"][sample]
mask_of(first, sample) ==
    IF SuiteOf(first) = "AES_128_GCM" THEN AesMask(sample) ELSE ChaChaMask(sample)

header_encrypt_in_place(sample, first, packet_number) ==
    xor_in_place(mask_of(first, sample), first, packet_number, FALSE)
header_decrypt_in_place(sample, first, packet_number) ==
    xor_in_place(mask_of(first, sample), first, packet_number, TRUE)

-----------------------------------------------------------------------------
(* Packet protection                                                       *)

\* The key of a packet: rustls keeps one for every level.
KeyOf(first) == [cipher |-> SuiteOf(first), level |-> LevelOf(first)]

\* RFC 9001: the IV XOR the packet number.
Nonce(pn) == Xor(Iv, pn)

\* Mutant: the path id lands on the packet number's own bits.
NonceOverlaps(path, pn) == Xor(Iv, pn \cup path)

\* Multipath: the IV XOR the 96-bit concatenation of path id and packet number.
NonceForPath(path, pn) == Xor(Iv, pn \cup {64 + b : b \in path})

Seal(first, nonce, header, lead, sample) ==
    [key |-> KeyOf(first), nonce |-> nonce, aad |-> header,
     lead |-> lead, sample |-> sample]

encrypt_in_place(first, pn, header, lead, sample) ==
    Seal(first, Nonce(pn), header, lead, sample)
encrypt_in_place_for_path(first, path, pn, header, lead, sample) ==
    Seal(first, NonceForPath(path, pn), header, lead, sample)

\* Mutant: the header is not given to the AEAD as associated data.
OpensAnyHeader(first, nonce, header, payload) ==
    /\ ~payload.short
    /\ payload.box.key = KeyOf(first)
    /\ payload.box.nonce = nonce
    /\ \A i \in 1..Len(payload.lead) : payload.lead[i] = payload.box.lead[i]

\* A payload shorter than the tag, a wrong key, nonce or header, and a changed
\* ciphertext are all the one DecryptError.
Opens(first, nonce, header, payload) ==
    /\ ~payload.short
    /\ payload.box.key = KeyOf(first)
    /\ payload.box.nonce = nonce
    /\ payload.box.aad = header
    /\ \A i \in 1..Len(payload.lead) : payload.lead[i] = payload.box.lead[i]

decrypt_in_place(first, pn, header, payload) ==
    Opens(first, Nonce(pn), header, payload)
decrypt_in_place_for_path(first, path, pn, header, payload) ==
    Opens(first, NonceForPath(path, pn), header, payload)

-----------------------------------------------------------------------------
(* Framing, as noq-proto does it                                           *)

\* The packet number field: the low 8 * n bits, most significant byte first.
\* The receiver takes the bits above them from the number it expects, which
\* is right for the numbers near it, and the sender makes the field as long as
\* that takes (Fits).
PnBytes(pn, n) == [i \in 1..n |-> {b \in 0..7 : 8 * (n - i) + b \in pn}]
High(pn, n) == {k \in pn : k >= 8 * n}
PnOf(bytes) ==
    {k \in 0..31 : /\ k \div 8 < Len(bytes)
                   /\ k % 8 \in bytes[Len(bytes) - k \div 8]}
      \cup High(Expected, Len(bytes))
Fits(pn, n) == High(pn, n) = High(Expected, n)

Header(path, first, pn_bytes) ==
    [path |-> path, first |-> first, packet_number |-> pn_bytes]

\* What the receiver makes of a packet: the header unmasked over the full
\* four-byte region, then the payload opened by the one call it makes, the
\* plain one or the one for the packet's path.
Unprotect(p, plain) ==
    LET un      == header_decrypt_in_place(p.box.sample, p.first, p.region)
        n       == pn_len(un.first)
        pn      == PnOf(SubSeq(un.packet_number, 1, n))
        header  == Header(p.path, un.first, SubSeq(un.packet_number, 1, n))
        payload == [short |-> p.short, box |-> p.box,
                    lead |-> SubSeq(un.packet_number, n + 1, 4)]
    IN  [ok |-> /\ un.ok
                /\ IF plain
                   THEN decrypt_in_place(un.first, pn, header, payload)
                   ELSE decrypt_in_place_for_path(un.first, p.path, pn, header, payload),
         path |-> p.path, pn |-> pn, first |-> un.first]

-----------------------------------------------------------------------------
(* Endpoint keys                                                           *)

\* The MAC of a subject under the reset key, and the check of one.
ResetSign(data) == [mac |-> data]
ResetVerify(data, signature) == signature = ResetSign(data)

ZERO_NONCE == {}

\* A fresh AES-256-GCM key expanded from the token nonce.
derive_aead(token_nonce) == [cipher |-> "AES_256_GCM", level |-> token_nonce]

TokenSeal(token_nonce, data) ==
    [key |-> derive_aead(token_nonce), nonce |-> ZERO_NONCE, data |-> data]

\* Mutant: the token is opened under the key it was sealed with, whatever
\* nonce it came back with.
TokenOpenUnkeyed(token_nonce, token) == ~token.short /\ token.box.nonce = ZERO_NONCE

TokenOpen(token_nonce, token) ==
    /\ ~token.short
    /\ token.box.key = derive_aead(token_nonce)
    /\ token.box.nonce = ZERO_NONCE

-----------------------------------------------------------------------------
(* Actions                                                                 *)

Init ==
    /\ sealed = {} /\ wire = {} /\ opened = {} /\ rejected = {}
    /\ issued = {} /\ accepted = {} /\ aeadUses = {} /\ damaged = 0

MadeSoFar == Cardinality(sealed) + Cardinality(issued)

\* The sender seals a packet with a number it has not used on this path and
\* protects its header.  Long headers travel on path 0; a peer without
\* multipath uses the plain calls there.
SendPacket(path, pn, first, lead, sample, plain) ==
    LET n      == pn_len(first)
        header == Header(path, first, PnBytes(pn, n))
        box    == IF plain THEN encrypt_in_place(first, pn, header, lead, sample)
                  ELSE encrypt_in_place_for_path(first, path, pn, header, lead, sample)
        prot   == header_encrypt_in_place(sample, first, PnBytes(pn, n))
        packet == [path |-> path, first |-> prot.first, box |-> box, short |-> FALSE,
                   region |-> [i \in 1..4 |-> IF i <= n THEN prot.packet_number[i]
                                                       ELSE lead[i - n]]]
        origin == [path |-> path, pn |-> pn, first |-> first, packet |-> packet]
    IN  /\ MadeSoFar < MaxSeals
        /\ LevelOf(first) # "retry"
        /\ plain \/ LONG_HEADER_FORM \in first => path = {}
        /\ Fits(pn, n)
        /\ \A s \in sealed : ~(s.path = path /\ s.pn = pn /\ KeyOf(s.first) = KeyOf(first))
        /\ prot.ok
        /\ sealed' = sealed \cup {origin}
        /\ wire' = wire \cup {packet}
        /\ aeadUses' = aeadUses \cup {<<box.key, box.nonce, <<path, pn>>>>}
        /\ UNCHANGED <<opened, rejected, issued, accepted, damaged>>

\* The receiver takes any packet of the network, in any order and repeatedly;
\* whether it makes the plain call on path 0 is its own choice, not the sender's.
ReceivePacket(p, plain) ==
    LET un == Unprotect(p, plain)
    IN  /\ plain => p.path = {}
        /\ IF un.ok
           THEN /\ opened' = opened \cup {[path |-> un.path, pn |-> un.pn, first |-> un.first]}
                /\ UNCHANGED rejected
           ELSE rejected' = rejected \cup {p} /\ UNCHANGED opened
        /\ UNCHANGED <<sealed, wire, issued, accepted, aeadUses, damaged>>

\* The network delivers a damaged copy: a flipped header bit, a changed path
\* (its connection id), or a payload cut short of the tag.
Damage(p) ==
    /\ damaged < MaxDamaged
    /\ \E q \in {[p EXCEPT !.short = TRUE]}
                \cup {[p EXCEPT !.path = other] : other \in Paths \ {p.path}}
                \cup {[p EXCEPT !.first = Xor(p.first, {b})] : b \in 0..7}
                \cup {[p EXCEPT !.region[i] = Xor(p.region[i], {0})] : i \in 1..4} :
         wire' = wire \cup {q}
    /\ damaged' = damaged + 1
    /\ UNCHANGED <<sealed, opened, rejected, issued, accepted, aeadUses>>

\* The server issues a token under a fresh nonce, which travels in the clear.
IssueToken(token_nonce, data) ==
    LET box == TokenSeal(token_nonce, data)
    IN  /\ MadeSoFar < MaxSeals
        /\ \A t \in issued : t.kind = "token" => t.nonce # token_nonce
        /\ issued' = issued \cup {[kind |-> "token", nonce |-> token_nonce, data |-> data]}
        /\ aeadUses' = aeadUses \cup {<<box.key, box.nonce, <<"token", token_nonce>>>>}
        /\ UNCHANGED <<sealed, wire, opened, rejected, accepted, damaged>>

\* A token comes back with the nonce it was issued with, another one, or cut
\* short; the server believes what it opens.
ReturnToken(t, token_nonce, short) ==
    LET token == [box |-> TokenSeal(t.nonce, t.data), short |-> short]
        altered == token_nonce # t.nonce \/ short
    IN  /\ t.kind = "token"
        /\ altered => damaged < MaxDamaged
        /\ damaged' = IF altered THEN damaged + 1 ELSE damaged
        /\ accepted' = IF TokenOpen(token_nonce, token)
                       THEN accepted \cup {[kind |-> "token", nonce |-> token_nonce,
                                            data |-> token.box.data]}
                       ELSE accepted
        /\ UNCHANGED <<sealed, wire, opened, rejected, issued, aeadUses>>

\* The endpoint signs a subject with the reset key ...
IssueReset(data) ==
    /\ MadeSoFar < MaxSeals
    /\ issued' = issued \cup {[kind |-> "reset", nonce |-> ZERO_NONCE, data |-> data]}
    /\ UNCHANGED <<sealed, wire, opened, rejected, accepted, aeadUses, damaged>>

\* ... and judges a signature presented for some subject.
ReturnReset(r, data) ==
    /\ r.kind = "reset"
    /\ data # r.data => damaged < MaxDamaged
    /\ damaged' = IF data # r.data THEN damaged + 1 ELSE damaged
    /\ accepted' = IF ResetVerify(data, ResetSign(r.data))
                   THEN accepted \cup {[kind |-> "reset", nonce |-> ZERO_NONCE, data |-> data]}
                   ELSE accepted
    /\ UNCHANGED <<sealed, wire, opened, rejected, issued, aeadUses>>

Next ==
    \/ \E path \in Paths, pn \in PacketNumbers, first \in FirstBytes, lead \in Leads,
          sample \in Samples, plain \in BOOLEAN :
         SendPacket(path, pn, first, lead, sample, plain)
    \/ \E p \in wire, plain \in BOOLEAN : ReceivePacket(p, plain)
    \/ \E p \in wire : Damage(p)
    \/ \E n \in TokenNonces, d \in Data : IssueToken(n, d)
    \/ \E t \in issued, n \in TokenNonces, short \in BOOLEAN : ReturnToken(t, n, short)
    \/ \E d \in Data : IssueReset(d)
    \/ \E r \in issued, d \in Data : ReturnReset(r, d)

Spec == Init /\ [][Next]_vars

-----------------------------------------------------------------------------
(* Properties                                                              *)

\* The packets as the sender put them on the wire.
Sent == {s.packet : s \in sealed}

\* A packet that arrives as it was sent is never refused: unmasking the full
\* four-byte region restores the first byte and exactly the packet number
\* bytes, and leaves the payload bytes behind them alone, whatever the mask
\* and the number's length, and whichever of the plain and the per-path call
\* each side makes on path 0 (packet.rs, xor_in_place and "Path 0 reduces to
\* the RFC 9001 nonce").
IntactIsOpened == rejected \cap Sent = {}

\* The receiver opens only what was sealed, and sees the path, the packet
\* number and the first byte it was sealed with, even when a damaged copy
\* still unmasks to some header (packet.rs, decrypt_in_place_for_path).
OpenedAsSealed ==
    opened \subseteq {[path |-> s.path, pn |-> s.pn, first |-> s.first] : s \in sealed}

\* No AEAD key is used twice with the same nonce: not by two paths that count
\* the same packet numbers, and not by tokens, whose nonce is always zero
\* (packet.rs, Nonce::for_path; keys.rs, "each (key, nonce) pair is unique").
NonceUsedOnce ==
    \A u, v \in aeadUses : u[1] = v[1] /\ u[2] = v[2] => u = v

\* What the server accepts back it has issued: a token's contents come back
\* only under the token's own nonce, a signature only for its own subject
\* (keys.rs, open and verify).
AcceptedWasIssued == accepted \subseteq issued

=============================================================================
