-------------------------- MODULE QuicCryptoProofs --------------------------
(***************************************************************************)
(* Theorems about QuicCrypto, for every mask, IV, path id, packet number,  *)
(* header form and length, and any number of packets, tokens and damages.  *)
(***************************************************************************)
EXTENDS QuicCrypto, SequenceTheorems, TLAPS

-----------------------------------------------------------------------------
(* Bytes and masks *)

\* XORing twice with the same bits changes nothing (xor_in_place is its own
\* inverse, byte by byte).
LEMMA XorTwice ==
  ASSUME NEW a, NEW b
  PROVE  Xor(Xor(a, b), b) = a
BY DEF Xor

\* A byte XORed with a byte is a byte.
LEMMA XorByte ==
  ASSUME NEW a \in Byte, NEW b \in Byte
  PROVE  Xor(a, b) \in Byte
BY DEF Xor, Byte

\* Equal nonces come from equal inputs: XOR with the IV loses nothing.
LEMMA XorInjective ==
  ASSUME NEW a, NEW b, NEW c, Xor(c, a) = Xor(c, b)
  PROVE  a = b
<1>1. ASSUME NEW x PROVE x \in a <=> x \in b
  <2>1. x \in Xor(c, a) <=> x \in Xor(c, b)
    OBVIOUS
  <2>2. QED BY <2>1 DEF Xor
<1>2. QED BY <1>1

\* The masked bits of the first byte never touch its header form, nor a long
\* header's type bits: the peer reads the same form and level, hence the same
\* masked bits, the same suite and key set, from the protected byte.
LEMMA MaskKeepsForm ==
  ASSUME NEW first, NEW mask
  PROVE  LET masked == Xor(first, mask \cap bits(first))
         IN  /\ LONG_HEADER_FORM \in masked <=> LONG_HEADER_FORM \in first
             /\ bits(masked) = bits(first)
             /\ SuiteOf(masked) = SuiteOf(first)
<1> DEFINE masked == Xor(first, mask \cap bits(first))
<1>1. LONG_HEADER_FORM \notin bits(first)
  BY DEF bits, LONG_HEADER_FORM
<1>2. LONG_HEADER_FORM \in masked <=> LONG_HEADER_FORM \in first
  BY <1>1 DEF Xor
<1>3. bits(masked) = bits(first)
  BY <1>2 DEF bits
<1>4. LONG_HEADER_FORM \in first => masked \cap {4, 5} = first \cap {4, 5}
  <2>1. LONG_HEADER_FORM \in first => 4 \notin bits(first) /\ 5 \notin bits(first)
    BY DEF bits
  <2>2. QED BY <2>1 DEF Xor
<1> HIDE DEF masked
<1>5. LevelOf(masked) = LevelOf(first)
  <2>1. CASE LONG_HEADER_FORM \in first
    <3>1. masked \cap {4, 5} = first \cap {4, 5} /\ LONG_HEADER_FORM \in masked
      BY <1>2, <1>4, <2>1
    <3>2. QED BY <2>1, <3>1 DEF LevelOf
  <2>2. CASE LONG_HEADER_FORM \notin first
    BY <1>2, <2>2 DEF LevelOf
  <2>3. QED BY <2>1, <2>2
<1>6. SuiteOf(masked) = SuiteOf(first)
  BY <1>5 DEF SuiteOf
<1>7. QED BY <1>2, <1>3, <1>6 DEF masked

\* A packet number field is one to four bytes long.
LEMMA PnLen ==
  ASSUME NEW first
  PROVE  pn_len(first) \in 1..4
BY DEF pn_len

\* Both suites' masks are five bytes.
LEMMA MaskType ==
  ASSUME NEW first, NEW sample \in Samples
  PROVE  mask_of(first, sample) \in [1..5 -> Byte]
BY QuicAssumption DEF mask_of, AesMask, ChaChaMask

-----------------------------------------------------------------------------
(* Packet numbers and nonces *)

\* The packet number field is so many bytes.
LEMMA PnBytesType ==
  ASSUME NEW pn, NEW n \in 1..4
  PROVE  PnBytes(pn, n) \in Seq(Byte) /\ Len(PnBytes(pn, n)) = n
BY DEF PnBytes, Byte

\* A packet number that fits its field is read back from it.
LEMMA PnRoundTrip ==
  ASSUME NEW pn \in SUBSET (0..63), NEW n \in 1..4, Fits(pn, n)
  PROVE  PnOf(PnBytes(pn, n)) = pn
<1> DEFINE bytes == PnBytes(pn, n)
           low == {k \in 0..31 : k \div 8 < n /\ k % 8 \in bytes[n - k \div 8]}
<1>1. Len(bytes) = n
  BY PnBytesType
<1>2. ASSUME NEW k \in 0..31, k \div 8 < n
      PROVE  k % 8 \in bytes[n - k \div 8] <=> k \in pn
  <2>1. k % 8 \in 0..7 /\ k \div 8 \in 0..3 /\ k = 8 * (k \div 8) + (k % 8)
    OBVIOUS
  <2>2. n - k \div 8 \in 1..n /\ n - (n - k \div 8) = k \div 8
    BY <1>2, <2>1
  <2>3. bytes[n - k \div 8] = {b \in 0..7 : 8 * (k \div 8) + b \in pn}
    BY <2>2 DEF PnBytes
  <2>4. QED BY <2>1, <2>3
<1>3. ASSUME NEW k \in 0..63 PROVE k < 8 * n <=> (k \in 0..31 /\ k \div 8 < n)
  OBVIOUS
<1> HIDE DEF bytes
<1>4. PnOf(bytes) = low \cup High(pn, n)
  <2>1. High(Expected, n) = High(pn, n)
    BY DEF Fits
  <2>2. PnOf(bytes) = {k \in 0..31 : /\ k \div 8 < n
                                     /\ k % 8 \in bytes[n - k \div 8]}
                        \cup High(Expected, n)
    BY <1>1, Zenon DEF PnOf
  <2>3. QED BY <2>1, <2>2
<1>5. ASSUME NEW k PROVE k \in low \/ k \in High(pn, n) <=> k \in pn
  <2>1. CASE k \in 0..63 /\ k < 8 * n
    <3>1. k \in 0..31 /\ k \div 8 < n
      BY <1>3, <2>1
    <3>2. k \in low <=> k \in pn
      BY <1>2, <3>1
    <3>3. k \notin High(pn, n)
      BY <2>1 DEF High
    <3>4. QED BY <3>2, <3>3
  <2>2. CASE k \in 0..63 /\ ~(k < 8 * n)
    <3>1. k \notin low
      BY <1>3, <2>2
    <3>2. k >= 8 * n
      BY <2>2
    <3>3. QED BY <3>1, <3>2 DEF High
  <2>3. CASE k \notin 0..63
    <3>1. k \notin pn
      BY <2>3
    <3>2. k \notin low
      <4>1. 0..31 \subseteq 0..63
        OBVIOUS
      <4>2. QED BY <2>3, <4>1
    <3>3. k \notin High(pn, n)
      BY <3>1 DEF High
    <3>4. QED BY <3>1, <3>2, <3>3
  <2>4. QED BY <2>1, <2>2, <2>3
<1>6. QED BY <1>4, <1>5 DEF bytes

\* Distinct (path, packet number) pairs get distinct nonces: the path id and
\* the packet number never share a bit (Nonce::for_path).
LEMMA NonceInjective ==
  ASSUME NEW p \in SUBSET (0..31), NEW q \in SUBSET (0..31),
         NEW pn \in SUBSET (0..63), NEW qn \in SUBSET (0..63),
         NonceForPath(p, pn) = NonceForPath(q, qn)
  PROVE  p = q /\ pn = qn
<1> DEFINE hi(path) == {64 + b : b \in path}
<1>1. pn \cup hi(p) = qn \cup hi(q)
  BY XorInjective DEF NonceForPath
<1>2. \A b \in 0..31 : 64 + b \in Int /\ 64 + b \notin 0..63
  OBVIOUS
<1>3. hi(p) \cap (0..63) = {} /\ hi(q) \cap (0..63) = {}
  BY <1>2
<1>4. pn = qn
  <2>1. (pn \cup hi(p)) \cap (0..63) = pn /\ (qn \cup hi(q)) \cap (0..63) = qn
    BY <1>3
  <2>2. QED BY <1>1, <2>1
<1>5. hi(p) = hi(q)
  <2>1. (pn \cup hi(p)) \ (0..63) = hi(p) /\ (qn \cup hi(q)) \ (0..63) = hi(q)
    BY <1>3
  <2>2. QED BY <1>1, <2>1
<1>6. p = q
  <2>1. \A b \in 0..31 : b \in p <=> 64 + b \in hi(p)
    OBVIOUS
  <2>2. \A b \in 0..31 : b \in q <=> 64 + b \in hi(q)
    OBVIOUS
  <2>3. QED BY <1>5, <2>1, <2>2
<1>7. QED BY <1>4, <1>6

\* On path 0 the plain and the per-path nonce agree.
LEMMA NonceOfPathZero ==
  ASSUME NEW pn
  PROVE  NonceForPath({}, pn) = Nonce(pn)
BY DEF NonceForPath, Nonce

-----------------------------------------------------------------------------
(* Protecting a packet and unprotecting it *)

\* The box, the packet and the record of one SendPacket.
HeaderOf(path, pn, first) == Header(path, first, PnBytes(pn, pn_len(first)))
BoxOf(path, pn, first, lead, sample, plain) ==
  IF plain
  THEN encrypt_in_place(first, pn, HeaderOf(path, pn, first), lead, sample)
  ELSE encrypt_in_place_for_path(first, path, pn, HeaderOf(path, pn, first), lead, sample)
ProtOf(pn, first, sample) ==
  header_encrypt_in_place(sample, first, PnBytes(pn, pn_len(first)))
RegionOf(pn, first, lead, sample) ==
  [i \in 1..4 |-> IF i <= pn_len(first) THEN ProtOf(pn, first, sample).packet_number[i]
                  ELSE lead[i - pn_len(first)]]
PacketOf(path, pn, first, lead, sample, plain) ==
  [path |-> path, first |-> ProtOf(pn, first, sample).first,
   box |-> BoxOf(path, pn, first, lead, sample, plain), short |-> FALSE,
   region |-> RegionOf(pn, first, lead, sample)]
OriginOf(path, pn, first, lead, sample, plain) ==
  [path |-> path, pn |-> pn, first |-> first,
   packet |-> PacketOf(path, pn, first, lead, sample, plain)]

\* The sender's choices that SendPacket allows.
Sendable(path, pn, first, plain) ==
  /\ (plain \/ LONG_HEADER_FORM \in first) => path = {}
  /\ Fits(pn, pn_len(first))

\* What protection does to a header: the masked first byte, and the packet
\* number masked byte by byte.
LEMMA ProtectedHeader ==
  ASSUME NEW pn, NEW first, NEW sample
  PROVE  ProtOf(pn, first, sample)
           = [ok |-> TRUE,
              first |-> Xor(first, mask_of(first, sample)[1] \cap bits(first)),
              packet_number |->
                [i \in 1..pn_len(first) |->
                   Xor(PnBytes(pn, pn_len(first))[i], mask_of(first, sample)[i + 1])]]
<1> DEFINE m == mask_of(first, sample)
           n == pn_len(first)
           b == PnBytes(pn, n)
           r == ProtOf(pn, first, sample)
<1>1. n \in 1..4
  BY PnLen
<1>2. Len(b) = n
  BY <1>1, PnBytesType
<1> HIDE DEF m, n, b
<1>3. r = [ok |-> Len(b) <= 4,
           first |-> Xor(first, m[1] \cap bits(first)),
           packet_number |-> [i \in 1..Len(b) |->
                                IF i <= n THEN Xor(b[i], m[i + 1]) ELSE b[i]]]
  BY DEF ProtOf, header_encrypt_in_place, xor_in_place, m, n, b
<1>4. Len(b) <= 4
  BY <1>1, <1>2
<1>5. [i \in 1..n |-> IF i <= n THEN Xor(b[i], m[i + 1]) ELSE b[i]]
        = [i \in 1..n |-> Xor(b[i], m[i + 1])]
  BY <1>1
<1>6. (Len(b) <= 4) = TRUE
  BY <1>4
<1>7. r = [ok |-> TRUE, first |-> Xor(first, m[1] \cap bits(first)),
           packet_number |-> [i \in 1..n |-> Xor(b[i], m[i + 1])]]
  BY <1>2, <1>3, <1>5, <1>6, Zenon
<1>8. QED BY <1>7 DEF m, n, b

\* The region behind a protected first byte is four bytes.
LEMMA RegionType ==
  ASSUME NEW pn, NEW first, NEW lead \in Leads, NEW sample \in Samples
  PROVE  RegionOf(pn, first, lead, sample) \in [1..4 -> Byte]
<1> DEFINE m == mask_of(first, sample)
           n == pn_len(first)
           b == PnBytes(pn, n)
<1>1. n \in 1..4 /\ m \in [1..5 -> Byte] /\ lead \in [1..3 -> Byte]
  BY PnLen, MaskType, QuicAssumption
<1>2. \A i \in 1..n : b[i] \in Byte
  BY <1>1, PnBytesType
<1>3. ProtOf(pn, first, sample).packet_number = [i \in 1..n |-> Xor(b[i], m[i + 1])]
  BY ProtectedHeader
<1> HIDE DEF m, n, b
<1>4. ASSUME NEW i \in 1..4 PROVE RegionOf(pn, first, lead, sample)[i] \in Byte
  <2>1. CASE i <= n
    <3>1. RegionOf(pn, first, lead, sample)[i] = Xor(b[i], m[i + 1])
      BY <1>1, <1>3, <2>1 DEF RegionOf, n
    <3>2. i \in 1..n /\ i + 1 \in 1..5
      BY <1>1, <2>1
    <3>3. QED BY <1>1, <1>2, <3>1, <3>2, XorByte
  <2>2. CASE ~(i <= n)
    <3>1. RegionOf(pn, first, lead, sample)[i] = lead[i - n]
      BY <1>1, <2>2 DEF RegionOf, n
    <3>2. i - n \in 1..3
      BY <1>1, <2>2
    <3>3. QED BY <1>1, <3>1, <3>2
  <2>3. QED BY <2>1, <2>2
<1>5. QED BY <1>4 DEF RegionOf

\* Unmasking the full four-byte region of a protected header restores the
\* first byte and the packet number's bytes and leaves the payload bytes
\* behind them as they were: the length is read from the unmasked first byte
\* (xor_in_place with masked = true).
LEMMA HeaderRoundTrip ==
  ASSUME NEW pn, NEW first, NEW lead \in Leads, NEW sample \in Samples
  PROVE  header_decrypt_in_place(sample, ProtOf(pn, first, sample).first,
                                 RegionOf(pn, first, lead, sample))
           = [ok |-> TRUE, first |-> first,
              packet_number |->
                [i \in 1..4 |-> IF i <= pn_len(first) THEN PnBytes(pn, pn_len(first))[i]
                                ELSE lead[i - pn_len(first)]]]
<1> DEFINE m  == mask_of(first, sample)
           n  == pn_len(first)
           b  == PnBytes(pn, n)
           f  == ProtOf(pn, first, sample).first
           r  == RegionOf(pn, first, lead, sample)
           un == header_decrypt_in_place(sample, f, r)
<1>1. n \in 1..4
  BY PnLen
<1>2. f = Xor(first, m[1] \cap bits(first))
  BY ProtectedHeader
<1>3. ProtOf(pn, first, sample).packet_number = [i \in 1..n |-> Xor(b[i], m[i + 1])]
  BY ProtectedHeader
<1>4. bits(f) = bits(first) /\ SuiteOf(f) = SuiteOf(first)
  BY <1>2, MaskKeepsForm
<1>5. mask_of(f, sample) = m
  BY <1>4 DEF mask_of
<1>6. Xor(f, m[1] \cap bits(f)) = first
  BY <1>2, <1>4, XorTwice
<1>7. r \in [1..4 -> Byte]
  BY RegionType
<1>8. Len(r) = 4
  BY <1>7
<1>9. un = [ok |-> Len(r) <= 4, first |-> first,
            packet_number |-> [i \in 1..Len(r) |->
                                 IF i <= n THEN Xor(r[i], m[i + 1]) ELSE r[i]]]
  BY <1>5, <1>6 DEF header_decrypt_in_place, xor_in_place
<1>10. ASSUME NEW i \in 1..4
       PROVE  (IF i <= n THEN Xor(r[i], m[i + 1]) ELSE r[i])
                = (IF i <= n THEN b[i] ELSE lead[i - n])
  <2> HIDE DEF m, n, b
  <2>1. CASE i <= n
    <3>1. r[i] = Xor(b[i], m[i + 1])
      BY <1>1, <1>3, <2>1 DEF RegionOf, n
    <3>2. Xor(r[i], m[i + 1]) = b[i]
      BY <3>1, XorTwice
    <3>3. QED BY <2>1, <3>2
  <2>2. CASE ~(i <= n)
    BY <1>1, <2>2 DEF RegionOf, n
  <2>3. QED BY <2>1, <2>2
<1> HIDE DEF m, n, b, f, r, un
<1>11. [i \in 1..4 |-> IF i <= n THEN Xor(r[i], m[i + 1]) ELSE r[i]]
         = [i \in 1..4 |-> IF i <= n THEN b[i] ELSE lead[i - n]]
  BY <1>10
<1>12. un = [ok |-> TRUE, first |-> first,
             packet_number |-> [i \in 1..4 |-> IF i <= n THEN b[i] ELSE lead[i - n]]]
  <2>1. (Len(r) <= 4) = TRUE
    BY <1>8
  <2>2. QED BY <1>8, <1>9, <1>11, <2>1, Zenon
<1>13. QED BY <1>12 DEF m, n, b, f, r, un

\* The box of an allowed packet: sealed under the nonce of its path and number.
LEMMA BoxShape ==
  ASSUME NEW path \in Paths, NEW pn \in PacketNumbers, NEW first \in FirstBytes,
         NEW lead \in Leads, NEW sample \in Samples, NEW plain \in BOOLEAN,
         Sendable(path, pn, first, plain)
  PROVE  BoxOf(path, pn, first, lead, sample, plain)
           = [key |-> KeyOf(first), nonce |-> NonceForPath(path, pn),
              aad |-> HeaderOf(path, pn, first), lead |-> lead, sample |-> sample]
<1>1. CASE plain
  <2>1. path = {}
    BY <1>1 DEF Sendable
  <2>2. NonceForPath(path, pn) = Nonce(pn)
    BY <2>1, NonceOfPathZero
  <2>3. QED BY <1>1, <2>2 DEF BoxOf, encrypt_in_place, Seal
<1>2. CASE ~plain
  BY <1>2 DEF BoxOf, encrypt_in_place_for_path, Seal
<1>3. QED BY <1>1, <1>2

\* A packet that arrives as it was sent opens, by whichever call the receiver
\* makes (the plain one only on path 0).
LEMMA IntactOpens ==
  ASSUME NEW path \in Paths, NEW pn \in PacketNumbers, NEW first \in FirstBytes,
         NEW lead \in Leads, NEW sample \in Samples, NEW plain \in BOOLEAN,
         Sendable(path, pn, first, plain),
         NEW call \in BOOLEAN, call => path = {}
  PROVE  Unprotect(PacketOf(path, pn, first, lead, sample, plain), call).ok = TRUE
<1> DEFINE n   == pn_len(first)
           b   == PnBytes(pn, n)
           p   == PacketOf(path, pn, first, lead, sample, plain)
           num == [i \in 1..4 |-> IF i <= n THEN b[i] ELSE lead[i - n]]
           un  == header_decrypt_in_place(p.box.sample, p.first, p.region)
           box == BoxOf(path, pn, first, lead, sample, plain)
           hd  == HeaderOf(path, pn, first)
           body == [short |-> FALSE, box |-> box, lead |-> SubSeq(num, n + 1, 4)]
<1>1. n \in 1..4 /\ lead \in [1..3 -> Byte]
  BY PnLen, QuicAssumption
<1>2. b \in Seq(Byte) /\ Len(b) = n
  BY <1>1, PnBytesType
<1>3. pn \in SUBSET (0..63) /\ Fits(pn, n)
  BY QuicAssumption DEF Sendable
<1>4. box = [key |-> KeyOf(first), nonce |-> NonceForPath(path, pn), aad |-> hd,
             lead |-> lead, sample |-> sample]
  BY BoxShape
<1>5. /\ p.path = path /\ p.first = ProtOf(pn, first, sample).first
      /\ p.box = box /\ p.region = RegionOf(pn, first, lead, sample)
  BY DEF PacketOf
<1>6. p.short = FALSE
  BY DEF PacketOf
<1>7. p.box.sample = sample
  BY <1>4, <1>5
<1> HIDE DEF n, b, p, num, un, box, hd, body
<1>8. un = [ok |-> TRUE, first |-> first, packet_number |-> num]
  BY <1>5, <1>7, HeaderRoundTrip DEF un, num, n, b
<1>9. SubSeq(num, 1, n) = b
  <2>1. \A i \in 1..n : num[i] \in Byte /\ num[i] = b[i]
    BY <1>1, <1>2 DEF num
  <2>2. /\ SubSeq(num, 1, n) \in Seq(Byte) /\ Len(SubSeq(num, 1, n)) = n
        /\ \A i \in 1..n : SubSeq(num, 1, n)[i] = num[i]
    BY <1>1, <2>1, SubSeqProperties
  <2>3. QED BY <1>2, <2>1, <2>2, SeqEqual
<1>10. \A i \in 1..Len(SubSeq(num, n + 1, 4)) : SubSeq(num, n + 1, 4)[i] = lead[i]
  <2>1. \A i \in (n + 1)..4 : num[i] \in Byte /\ num[i] = lead[i - n]
    BY <1>1 DEF num
  <2>2. CASE n < 4
    <3>1. /\ Len(SubSeq(num, n + 1, 4)) = 4 - n
          /\ \A i \in 1..(4 - n) : SubSeq(num, n + 1, 4)[i] = num[n + i]
      <4>1. n + 1 \in Int /\ 4 \in Int /\ n + 1 <= 4 /\ 4 - (n + 1) + 1 = 4 - n
        BY <1>1, <2>2
      <4>2. /\ Len(SubSeq(num, n + 1, 4)) = IF n + 1 <= 4 THEN 4 - (n + 1) + 1 ELSE 0
            /\ \A i \in 1..(4 - (n + 1) + 1) : SubSeq(num, n + 1, 4)[i] = num[n + 1 + i - 1]
        BY <2>1, <4>1, SubSeqProperties
      <4>3. \A i \in 1..(4 - n) : n + 1 + i - 1 = n + i
        BY <1>1
      <4>4. QED BY <4>1, <4>2, <4>3
    <3>2. \A i \in 1..(4 - n) : n + i \in (n + 1)..4 /\ (n + i) - n = i
      BY <1>1
    <3>3. \A i \in 1..(4 - n) : num[n + i] = lead[i]
      <4> TAKE i \in 1..(4 - n)
      <4>1. n + i \in (n + 1)..4 /\ (n + i) - n = i
        BY <3>2
      <4>2. num[n + i] = lead[(n + i) - n]
        BY <2>1, <4>1, Zenon
      <4>3. QED BY <4>1, <4>2, Zenon
    <3>4. \A i \in 1..(4 - n) : SubSeq(num, n + 1, 4)[i] = lead[i]
      BY <3>1, <3>3
    <3>5. QED BY <3>1, <3>4, Zenon
  <2>3. CASE n = 4
    <3>1. SubSeq(num, n + 1, 4) = <<>>
      BY <2>3, SubSeqEmpty
    <3>2. Len(SubSeq(num, n + 1, 4)) = 0
      BY <3>1, EmptySeq, Zenon
    <3>3. 1..0 = {}
      OBVIOUS
    <3>4. QED BY <3>2, <3>3, Zenon
  <2>4. QED BY <1>1, <2>2, <2>3
<1>11. PnOf(b) = pn
  BY <1>1, <1>3, PnRoundTrip DEF b
<1>12. Header(path, first, b) = hd
  BY DEF hd, HeaderOf, b, n
<1>13. /\ decrypt_in_place_for_path(first, path, pn, hd, body) = TRUE
       /\ path = {} => decrypt_in_place(first, pn, hd, body) = TRUE
  <2>1. body.short = FALSE /\ body.box = box /\ body.lead = SubSeq(num, n + 1, 4)
    BY DEF body
  <2>2. box.key = KeyOf(first) /\ box.nonce = NonceForPath(path, pn) /\ box.aad = hd
        /\ box.lead = lead
    BY <1>4
  <2>3. \A i \in 1..Len(body.lead) : body.lead[i] = body.box.lead[i]
    BY <1>10, <2>1, <2>2
  <2>4. decrypt_in_place_for_path(first, path, pn, hd, body)
    BY <2>1, <2>2, <2>3 DEF decrypt_in_place_for_path, Opens
  <2>5. decrypt_in_place_for_path(first, path, pn, hd, body) \in BOOLEAN
    BY DEF decrypt_in_place_for_path, Opens
  <2>6. ASSUME path = {} PROVE decrypt_in_place(first, pn, hd, body) = TRUE
    <3>1. Nonce(pn) = NonceForPath(path, pn)
      BY <2>6, NonceOfPathZero
    <3>2. decrypt_in_place(first, pn, hd, body)
      BY <2>1, <2>2, <2>3, <3>1 DEF decrypt_in_place, Opens
    <3>3. decrypt_in_place(first, pn, hd, body) \in BOOLEAN
      BY DEF decrypt_in_place, Opens
    <3>4. QED BY <3>2, <3>3
  <2>7. QED BY <2>4, <2>5, <2>6
<1>14. un.ok = TRUE /\ un.first = first /\ un.packet_number = num
  BY <1>8
<1>15. Unprotect(p, call).ok =
         (/\ un.ok
          /\ IF call THEN decrypt_in_place(first, pn, hd, body)
             ELSE decrypt_in_place_for_path(first, path, pn, hd, body))
  <2>1. Unprotect(p, call) =
          [ok |-> /\ un.ok
                  /\ IF call THEN decrypt_in_place(first, pn, hd, body)
                     ELSE decrypt_in_place_for_path(first, path, pn, hd, body),
           path |-> path, pn |-> pn, first |-> first]
    BY <1>5, <1>6, <1>9, <1>11, <1>12, <1>14, Zenon DEF Unprotect, un, body, n
  <2>2. QED BY <2>1
<1>16. QED BY <1>13, <1>14, <1>15, Zenon DEF p

\* A packet that opens, damaged or not, shows the path, packet number and
\* first byte its box was sealed with: they are the associated data.
LEMMA OpensAsSealed ==
  ASSUME NEW p,
         NEW path \in Paths, NEW pn \in PacketNumbers, NEW first \in FirstBytes,
         NEW lead \in Leads, NEW sample \in Samples, NEW plain \in BOOLEAN,
         NEW call \in BOOLEAN,
         Sendable(path, pn, first, plain),
         p.box = BoxOf(path, pn, first, lead, sample, plain),
         Unprotect(p, call).ok
  PROVE  /\ Unprotect(p, call).path = path /\ Unprotect(p, call).pn = pn
         /\ Unprotect(p, call).first = first
<1> DEFINE un  == header_decrypt_in_place(p.box.sample, p.first, p.region)
           n   == pn_len(un.first)
           sub == SubSeq(un.packet_number, 1, n)
           hd  == Header(p.path, un.first, sub)
           body == [short |-> p.short, box |-> p.box,
                    lead |-> SubSeq(un.packet_number, n + 1, 4)]
           k   == pn_len(first)
<1> HIDE DEF un, n, sub, hd, body, k
<1>1. Unprotect(p, call) =
        [ok |-> /\ un.ok
                /\ IF call THEN decrypt_in_place(un.first, PnOf(sub), hd, body)
                   ELSE decrypt_in_place_for_path(un.first, p.path, PnOf(sub), hd, body),
         path |-> p.path, pn |-> PnOf(sub), first |-> un.first]
  BY Zenon DEF Unprotect, un, n, sub, hd, body
<1>2. /\ Unprotect(p, call).path = p.path /\ Unprotect(p, call).pn = PnOf(sub)
      /\ Unprotect(p, call).first = un.first
  BY <1>1
<1>3. \/ decrypt_in_place_for_path(un.first, p.path, PnOf(sub), hd, body)
      \/ decrypt_in_place(un.first, PnOf(sub), hd, body)
  <2>1. Unprotect(p, call).ok =
          (/\ un.ok
           /\ IF call THEN decrypt_in_place(un.first, PnOf(sub), hd, body)
              ELSE decrypt_in_place_for_path(un.first, p.path, PnOf(sub), hd, body))
    BY <1>1
  <2>2. QED BY <2>1, Zenon
<1>4. body.box.aad = hd
  BY <1>3, Zenon DEF decrypt_in_place, decrypt_in_place_for_path, Opens
<1>5. body.box = p.box
  BY DEF body
<1>6. p.box.aad = HeaderOf(path, pn, first)
  BY BoxShape
<1>7. HeaderOf(path, pn, first) = hd
  BY <1>4, <1>5, <1>6
<1>8. p.path = path /\ un.first = first /\ sub = PnBytes(pn, k)
  BY <1>7 DEF HeaderOf, Header, hd, k
<1>9. PnOf(PnBytes(pn, k)) = pn
  BY PnLen, PnRoundTrip, QuicAssumption DEF Sendable, k
<1>10. QED BY <1>2, <1>8, <1>9

-----------------------------------------------------------------------------
(* The inductive invariant *)

\* What was sealed is what SendPacket builds from choices it allows.
SealedInv ==
  \A s \in sealed :
    \E path \in Paths, pn \in PacketNumbers, first \in FirstBytes, lead \in Leads,
       sample \in Samples, plain \in BOOLEAN :
      /\ Sendable(path, pn, first, plain)
      /\ s = OriginOf(path, pn, first, lead, sample, plain)

PacketWith(boxes) ==
  [path : Paths, first : Byte, box : boxes, short : BOOLEAN, region : [1..4 -> Byte]]

\* The network may change everything of a packet but its box: no packet on
\* the wire carries a box the sender did not seal.
WireInv == wire \subseteq PacketWith({s.packet.box : s \in sealed})

\* What the receiver refused did not open by the call it made.
RejectedInv ==
  \A p \in rejected : \E call \in BOOLEAN :
    (call => p.path = {}) /\ Unprotect(p, call).ok = FALSE

PacketUse(first, path, pn) == <<KeyOf(first), NonceForPath(path, pn), <<path, pn>>>>
TokenUse(n) == <<derive_aead(n), ZERO_NONCE, <<"token", n>>>>

\* Every AEAD encryption was a packet's, under its path's nonce, or a token's,
\* under the token's own key.
UsesInv ==
  \A u \in aeadUses :
    \/ \E first \in FirstBytes, path \in Paths, pn \in PacketNumbers :
         u = PacketUse(first, path, pn)
    \/ \E n \in TokenNonces : u = TokenUse(n)

\* Tokens carry their nonce, reset signatures none.
IssuedInv ==
  issued \subseteq [kind : {"token"}, nonce : TokenNonces, data : Data]
                     \cup [kind : {"reset"}, nonce : {ZERO_NONCE}, data : Data]

QuicInv ==
  /\ SealedInv
  /\ WireInv
  /\ RejectedInv
  /\ UsesInv
  /\ IssuedInv
  /\ OpenedAsSealed
  /\ AcceptedWasIssued

\* What one SendPacket does, in the terms above.
LEMMA SendStep ==
  ASSUME NEW path \in Paths, NEW pn \in PacketNumbers, NEW first \in FirstBytes,
         NEW lead \in Leads, NEW sample \in Samples, NEW plain \in BOOLEAN,
         SendPacket(path, pn, first, lead, sample, plain)
  PROVE  /\ Sendable(path, pn, first, plain)
         /\ sealed' = sealed \cup {OriginOf(path, pn, first, lead, sample, plain)}
         /\ wire' = wire \cup {PacketOf(path, pn, first, lead, sample, plain)}
         /\ aeadUses' = aeadUses \cup {PacketUse(first, path, pn)}
         /\ UNCHANGED <<opened, rejected, issued, accepted, damaged>>
<1> DEFINE box == BoxOf(path, pn, first, lead, sample, plain)
<1>1. Sendable(path, pn, first, plain)
  BY DEF SendPacket, Sendable
<1>2. sealed' = sealed \cup {OriginOf(path, pn, first, lead, sample, plain)}
  BY Zenon DEF SendPacket, OriginOf, PacketOf, BoxOf, ProtOf, RegionOf, HeaderOf
<1>3. wire' = wire \cup {PacketOf(path, pn, first, lead, sample, plain)}
  BY Zenon DEF SendPacket, PacketOf, BoxOf, ProtOf, RegionOf, HeaderOf
<1>4. aeadUses' = aeadUses \cup {<<box.key, box.nonce, <<path, pn>>>>}
  BY Zenon DEF SendPacket, BoxOf, HeaderOf
<1>5. box.key = KeyOf(first) /\ box.nonce = NonceForPath(path, pn)
  BY <1>1, BoxShape
<1>6. UNCHANGED <<opened, rejected, issued, accepted, damaged>>
  BY Zenon DEF SendPacket
<1>7. QED BY <1>1, <1>2, <1>3, <1>4, <1>5, <1>6, Zenon DEF PacketUse

\* A packet as sent is a packet of the wire's kind.
LEMMA PacketType ==
  ASSUME NEW path \in Paths, NEW pn \in PacketNumbers, NEW first \in FirstBytes,
         NEW lead \in Leads, NEW sample \in Samples, NEW plain \in BOOLEAN, NEW boxes,
         BoxOf(path, pn, first, lead, sample, plain) \in boxes
  PROVE  PacketOf(path, pn, first, lead, sample, plain) \in PacketWith(boxes)
<1> DEFINE f == ProtOf(pn, first, sample).first
           r == RegionOf(pn, first, lead, sample)
           m == mask_of(first, sample)
<1>1. r \in [1..4 -> Byte]
  BY RegionType
<1>2. f = Xor(first, m[1] \cap bits(first))
  BY ProtectedHeader
<1>3. first \in Byte /\ m[1] \cap bits(first) \in Byte
  BY MaskType, QuicAssumption DEF Byte
<1>4. f \in Byte
  BY <1>2, <1>3, XorByte
<1> HIDE DEF f, r
<1>5. FALSE \in BOOLEAN
  OBVIOUS
<1>6. [path |-> path, first |-> f, box |-> BoxOf(path, pn, first, lead, sample, plain),
       short |-> FALSE, region |-> r] \in PacketWith(boxes)
  BY <1>1, <1>4, <1>5 DEF PacketWith
<1>7. QED BY <1>6 DEF PacketOf, f, r

\* Every damage leaves a packet of the same kind, with the same box.
LEMMA DamageType ==
  ASSUME NEW boxes, NEW p \in PacketWith(boxes),
         NEW q \in {[p EXCEPT !.short = TRUE]}
                     \cup {[p EXCEPT !.path = other] : other \in Paths \ {p.path}}
                     \cup {[p EXCEPT !.first = Xor(p.first, {b})] : b \in 0..7}
                     \cup {[p EXCEPT !.region[i] = Xor(p.region[i], {0})] : i \in 1..4}
  PROVE  q \in PacketWith(boxes)
<1> USE DEF PacketWith
<1>1. \A b \in 0..7 : {b} \in Byte
  BY DEF Byte
<1>2. CASE q = [p EXCEPT !.short = TRUE]
  BY <1>2
<1>3. CASE \E other \in Paths : q = [p EXCEPT !.path = other]
  BY <1>3
<1>4. CASE \E b \in 0..7 : q = [p EXCEPT !.first = Xor(p.first, {b})]
  <2>1. PICK b \in 0..7 : q = [p EXCEPT !.first = Xor(p.first, {b})]
    BY <1>4
  <2>2. Xor(p.first, {b}) \in Byte
    BY <1>1, XorByte
  <2>3. QED BY <2>1, <2>2
<1>5. CASE \E i \in 1..4 : q = [p EXCEPT !.region[i] = Xor(p.region[i], {0})]
  <2>1. PICK i \in 1..4 : q = [p EXCEPT !.region[i] = Xor(p.region[i], {0})]
    BY <1>5
  <2>2. p.region[i] \in Byte /\ {0} \in Byte
    BY <1>1
  <2>3. Xor(p.region[i], {0}) \in Byte
    BY <2>2, XorByte
  <2>4. QED BY <2>1, <2>3
<1>6. QED BY <1>2, <1>3, <1>4, <1>5

-----------------------------------------------------------------------------
(* The theorems *)

\* The inductive invariant holds of every behaviour.
THEOREM QuicInvCorrect == Spec => []QuicInv
<1>1. Init => QuicInv
  BY DEF Init, QuicInv, SealedInv, WireInv, RejectedInv, UsesInv, IssuedInv,
         OpenedAsSealed, AcceptedWasIssued
<1>2. QuicInv /\ [Next]_vars => QuicInv'
  <2> SUFFICES ASSUME QuicInv, [Next]_vars PROVE QuicInv'
    OBVIOUS
  <2> USE DEF QuicInv
  <2>1. ASSUME NEW path \in Paths, NEW pn \in PacketNumbers, NEW first \in FirstBytes,
               NEW lead \in Leads, NEW sample \in Samples, NEW plain \in BOOLEAN,
               SendPacket(path, pn, first, lead, sample, plain)
        PROVE  QuicInv'
    <3> DEFINE o == OriginOf(path, pn, first, lead, sample, plain)
               p == PacketOf(path, pn, first, lead, sample, plain)
               boxes == {s.packet.box : s \in sealed}
    <3>1. /\ Sendable(path, pn, first, plain)
          /\ sealed' = sealed \cup {o} /\ wire' = wire \cup {p}
          /\ aeadUses' = aeadUses \cup {PacketUse(first, path, pn)}
          /\ UNCHANGED <<opened, rejected, issued, accepted, damaged>>
      BY <2>1, SendStep
    <3>2. SealedInv'
      BY <3>1 DEF SealedInv
    <3>3. WireInv'
      <4>1. o.packet = p /\ p.box = BoxOf(path, pn, first, lead, sample, plain)
        BY DEF OriginOf, PacketOf
      <4> HIDE DEF o, p
      <4>2. o \in sealed'
        BY <3>1
      <4>3. BoxOf(path, pn, first, lead, sample, plain) \in boxes'
        BY <4>1, <4>2
      <4>4. p \in PacketWith(boxes')
        BY <4>3, PacketType DEF p
      <4>5. boxes \subseteq boxes'
        BY <3>1
      <4>6. PacketWith(boxes) \subseteq PacketWith(boxes')
        BY <4>5 DEF PacketWith
      <4>7. QED BY <3>1, <4>4, <4>6 DEF WireInv
    <3>4. RejectedInv'
      BY <3>1 DEF RejectedInv
    <3>5. UsesInv'
      BY <3>1 DEF UsesInv
    <3>6. IssuedInv' /\ AcceptedWasIssued'
      BY <3>1 DEF IssuedInv, AcceptedWasIssued
    <3>7. OpenedAsSealed'
      BY <3>1 DEF OpenedAsSealed
    <3>8. QED BY <3>2, <3>3, <3>4, <3>5, <3>6, <3>7
  <2>2. ASSUME NEW p \in wire, NEW call \in BOOLEAN, ReceivePacket(p, call) PROVE QuicInv'
    <3> DEFINE un == Unprotect(p, call)
    <3>1. UNCHANGED <<sealed, wire, issued, accepted, aeadUses, damaged>>
      BY <2>2, Zenon DEF ReceivePacket
    <3>2. SealedInv' /\ WireInv' /\ UsesInv' /\ IssuedInv' /\ AcceptedWasIssued'
      BY <3>1 DEF SealedInv, WireInv, UsesInv, IssuedInv, AcceptedWasIssued
    <3>3. un.ok \in BOOLEAN
      <4>1. un.ok \in {TRUE, FALSE}
        BY DEF Unprotect
      <4>2. QED BY <4>1
    <3>4. CASE un.ok
      <4>1. /\ opened' = opened \cup {[path |-> un.path, pn |-> un.pn, first |-> un.first]}
            /\ rejected' = rejected
        BY <2>2, <3>4, Zenon DEF ReceivePacket
      <4>2. PICK s \in sealed : p.box = s.packet.box
        BY DEF WireInv, PacketWith
      <4>3. PICK path \in Paths, pn \in PacketNumbers, first \in FirstBytes, lead \in Leads,
                 sample \in Samples, plain \in BOOLEAN :
              /\ Sendable(path, pn, first, plain)
              /\ s = OriginOf(path, pn, first, lead, sample, plain)
        BY DEF SealedInv
      <4>4. /\ s.path = path /\ s.pn = pn /\ s.first = first
            /\ s.packet.box = BoxOf(path, pn, first, lead, sample, plain)
        BY <4>3 DEF OriginOf, PacketOf
      <4>5. un.path = path /\ un.pn = pn /\ un.first = first
        BY <3>4, <4>2, <4>3, <4>4, OpensAsSealed
      <4> HIDE DEF un
      <4>6. OpenedAsSealed'
        BY <3>1, <4>1, <4>4, <4>5 DEF OpenedAsSealed
      <4>7. RejectedInv'
        BY <4>1 DEF RejectedInv
      <4>8. QED BY <3>2, <4>6, <4>7
    <3>5. CASE ~un.ok
      <4>1. rejected' = rejected \cup {p} /\ opened' = opened
        BY <2>2, <3>5, Zenon DEF ReceivePacket
      <4>2. un.ok = FALSE /\ (call => p.path = {})
        BY <2>2, <3>3, <3>5 DEF ReceivePacket
      <4>3. RejectedInv'
        BY <4>1, <4>2 DEF RejectedInv
      <4>4. OpenedAsSealed'
        BY <3>1, <4>1 DEF OpenedAsSealed
      <4>5. QED BY <3>2, <4>3, <4>4
    <3>6. QED BY <3>4, <3>5
  <2>3. ASSUME NEW p \in wire, Damage(p) PROVE QuicInv'
    <3>1. UNCHANGED <<sealed, opened, rejected, issued, accepted, aeadUses>>
      BY <2>3 DEF Damage
    <3>2. /\ SealedInv' /\ RejectedInv' /\ UsesInv' /\ IssuedInv' /\ OpenedAsSealed'
          /\ AcceptedWasIssued'
      BY <3>1 DEF SealedInv, RejectedInv, UsesInv, IssuedInv, OpenedAsSealed,
                  AcceptedWasIssued
    <3>3. PICK q \in {[p EXCEPT !.short = TRUE]}
                \cup {[p EXCEPT !.path = other] : other \in Paths \ {p.path}}
                \cup {[p EXCEPT !.first = Xor(p.first, {b})] : b \in 0..7}
                \cup {[p EXCEPT !.region[i] = Xor(p.region[i], {0})] : i \in 1..4} :
            wire' = wire \cup {q}
      BY <2>3, Zenon DEF Damage
    <3>4. p \in PacketWith({s.packet.box : s \in sealed})
      BY DEF WireInv
    <3>5. q \in PacketWith({s.packet.box : s \in sealed})
      BY <3>4, DamageType
    <3>6. WireInv'
      BY <3>1, <3>3, <3>5 DEF WireInv
    <3>7. QED BY <3>2, <3>6
  <2>4. ASSUME NEW n \in TokenNonces, NEW d \in Data, IssueToken(n, d) PROVE QuicInv'
    <3>1. /\ issued' = issued \cup {[kind |-> "token", nonce |-> n, data |-> d]}
          /\ UNCHANGED <<sealed, wire, opened, rejected, accepted, damaged>>
      BY <2>4 DEF IssueToken
    <3>2. aeadUses' = aeadUses \cup {TokenUse(n)}
      BY <2>4 DEF IssueToken, TokenUse, TokenSeal
    <3>3. SealedInv' /\ WireInv' /\ RejectedInv' /\ OpenedAsSealed'
      BY <3>1 DEF SealedInv, WireInv, RejectedInv, OpenedAsSealed
    <3>4. IssuedInv' /\ AcceptedWasIssued'
      BY <3>1 DEF IssuedInv, AcceptedWasIssued
    <3>5. UsesInv'
      BY <3>2 DEF UsesInv
    <3>6. QED BY <3>3, <3>4, <3>5
  <2>5. ASSUME NEW t \in issued, NEW n \in TokenNonces, NEW short \in BOOLEAN,
               ReturnToken(t, n, short)
        PROVE  QuicInv'
    <3> DEFINE token == [box |-> TokenSeal(t.nonce, t.data), short |-> short]
    <3>1. /\ t.kind = "token"
          /\ UNCHANGED <<sealed, wire, opened, rejected, issued, aeadUses>>
      BY <2>5 DEF ReturnToken
    <3>2. accepted' = IF TokenOpen(n, token)
                      THEN accepted \cup {[kind |-> "token", nonce |-> n,
                                           data |-> token.box.data]}
                      ELSE accepted
      BY <2>5, Zenon DEF ReturnToken
    <3>3. SealedInv' /\ WireInv' /\ RejectedInv' /\ OpenedAsSealed' /\ IssuedInv' /\ UsesInv'
      BY <3>1 DEF SealedInv, WireInv, RejectedInv, OpenedAsSealed, IssuedInv, UsesInv
    <3>4. ASSUME TokenOpen(n, token)
          PROVE  [kind |-> "token", nonce |-> n, data |-> token.box.data] = t
      <4>1. token.box.key = derive_aead(n)
        BY <3>4 DEF TokenOpen
      <4>2. token.box.key = derive_aead(t.nonce) /\ token.box.data = t.data
        BY DEF TokenSeal
      <4>3. t.nonce = n
        BY <4>1, <4>2 DEF derive_aead
      <4>4. t = [kind |-> t.kind, nonce |-> t.nonce, data |-> t.data]
        BY DEF IssuedInv
      <4>5. QED BY <3>1, <4>2, <4>3, <4>4
    <3>5. AcceptedWasIssued'
      <4>1. CASE TokenOpen(n, token)
        BY <3>1, <3>2, <3>4, <4>1 DEF AcceptedWasIssued
      <4>2. CASE ~TokenOpen(n, token)
        BY <3>1, <3>2, <4>2 DEF AcceptedWasIssued
      <4>3. QED BY <4>1, <4>2
    <3>6. QED BY <3>3, <3>5
  <2>6. ASSUME NEW d \in Data, IssueReset(d) PROVE QuicInv'
    <3>1. /\ issued' = issued \cup {[kind |-> "reset", nonce |-> ZERO_NONCE, data |-> d]}
          /\ UNCHANGED <<sealed, wire, opened, rejected, accepted, aeadUses, damaged>>
      BY <2>6 DEF IssueReset
    <3>2. SealedInv' /\ WireInv' /\ RejectedInv' /\ OpenedAsSealed' /\ UsesInv'
      BY <3>1 DEF SealedInv, WireInv, RejectedInv, OpenedAsSealed, UsesInv
    <3>3. IssuedInv' /\ AcceptedWasIssued'
      BY <3>1 DEF IssuedInv, AcceptedWasIssued
    <3>4. QED BY <3>2, <3>3
  <2>7. ASSUME NEW r \in issued, NEW d \in Data, ReturnReset(r, d) PROVE QuicInv'
    <3>1. /\ r.kind = "reset"
          /\ accepted' = IF ResetVerify(d, ResetSign(r.data))
                         THEN accepted \cup {[kind |-> "reset", nonce |-> ZERO_NONCE,
                                              data |-> d]}
                         ELSE accepted
          /\ UNCHANGED <<sealed, wire, opened, rejected, issued, aeadUses>>
      BY <2>7 DEF ReturnReset
    <3>2. SealedInv' /\ WireInv' /\ RejectedInv' /\ OpenedAsSealed' /\ IssuedInv' /\ UsesInv'
      BY <3>1 DEF SealedInv, WireInv, RejectedInv, OpenedAsSealed, IssuedInv, UsesInv
    <3>3. ASSUME ResetVerify(d, ResetSign(r.data))
          PROVE  [kind |-> "reset", nonce |-> ZERO_NONCE, data |-> d] = r
      <4>1. r.data = d
        BY <3>3 DEF ResetVerify, ResetSign
      <4>2. r = [kind |-> r.kind, nonce |-> r.nonce, data |-> r.data]
            /\ r.nonce = ZERO_NONCE
        BY <3>1 DEF IssuedInv
      <4>3. QED BY <3>1, <4>1, <4>2
    <3>4. AcceptedWasIssued'
      BY <3>1, <3>3 DEF AcceptedWasIssued
    <3>5. QED BY <3>2, <3>4
  <2>8. CASE UNCHANGED vars
    BY <2>8 DEF vars, SealedInv, WireInv, RejectedInv, UsesInv, IssuedInv,
                OpenedAsSealed, AcceptedWasIssued
  <2>9. QED BY <2>1, <2>2, <2>3, <2>4, <2>5, <2>6, <2>7, <2>8 DEF Next
<1>3. QED BY <1>1, <1>2, PTL DEF Spec

\* The receiver opens only what was sealed and sees the path, packet number
\* and first byte it was sealed with (packet.rs, decrypt_in_place_for_path).
THEOREM OpensOnlySealed == Spec => []OpenedAsSealed
<1>1. QuicInv => OpenedAsSealed
  BY DEF QuicInv
<1>2. QED BY <1>1, QuicInvCorrect, PTL

\* The server accepts back only tokens and reset signatures it issued
\* (keys.rs, open and verify).
THEOREM AcceptsOnlyIssued == Spec => []AcceptedWasIssued
<1>1. QuicInv => AcceptedWasIssued
  BY DEF QuicInv
<1>2. QED BY <1>1, QuicInvCorrect, PTL

\* A packet that arrives as it was sent is never refused, whatever mask its
\* sample gives, however long its number is and whichever of the plain and
\* per-path calls sealed it and opens it (packet.rs, xor_in_place).
THEOREM NoFalseReject == Spec => []IntactIsOpened
<1>1. QuicInv => IntactIsOpened
  <2> SUFFICES ASSUME QuicInv, NEW s \in sealed, s.packet \in rejected PROVE FALSE
    BY DEF IntactIsOpened, Sent
  <2>1. PICK path \in Paths, pn \in PacketNumbers, first \in FirstBytes, lead \in Leads,
             sample \in Samples, plain \in BOOLEAN :
          /\ Sendable(path, pn, first, plain)
          /\ s = OriginOf(path, pn, first, lead, sample, plain)
    BY DEF QuicInv, SealedInv
  <2>2. s.packet = PacketOf(path, pn, first, lead, sample, plain)
    BY <2>1 DEF OriginOf
  <2>3. s.packet.path = path
    BY <2>2 DEF PacketOf
  <2>4. PICK call \in BOOLEAN : (call => path = {}) /\ Unprotect(s.packet, call).ok = FALSE
    BY <2>3 DEF QuicInv, RejectedInv
  <2>5. Unprotect(PacketOf(path, pn, first, lead, sample, plain), call).ok = TRUE
    BY <2>1, <2>4, IntactOpens, Zenon
  <2>6. QED BY <2>2, <2>4, <2>5
<1>2. QED BY <1>1, QuicInvCorrect, PTL

\* No AEAD key is used twice with one nonce: the per-path nonce is injective,
\* and a token's zero nonce is under a key of the token's own (packet.rs,
\* Nonce::for_path; keys.rs, derive_aead).
THEOREM NoncesNeverRepeat == Spec => []NonceUsedOnce
<1>1. QuicInv => NonceUsedOnce
  <2> SUFFICES ASSUME QuicInv, NEW u \in aeadUses, NEW v \in aeadUses,
                      u[1] = v[1], u[2] = v[2]
               PROVE  u = v
    BY DEF NonceUsedOnce
  <2> DEFINE IsPacket(w) == \E first \in FirstBytes, path \in Paths, pn \in PacketNumbers :
                              w = PacketUse(first, path, pn)
             IsToken(w) == \E n \in TokenNonces : w = TokenUse(n)
  <2>1. IsPacket(u) \/ IsToken(u)
    BY DEF QuicInv, UsesInv
  <2>2. IsPacket(v) \/ IsToken(v)
    BY DEF QuicInv, UsesInv
  <2>3. ASSUME NEW w, IsPacket(w) PROVE w[1].cipher # "AES_256_GCM"
    BY <2>3, QuicAssumption DEF PacketUse, KeyOf, SuiteOf
  <2>4. ASSUME NEW w, IsToken(w) PROVE w[1].cipher = "AES_256_GCM"
    BY <2>4 DEF TokenUse, derive_aead
  <2>5. CASE IsPacket(u) /\ IsPacket(v)
    <3>1. PICK f \in FirstBytes, p \in Paths, pn \in PacketNumbers : u = PacketUse(f, p, pn)
      BY <2>5
    <3>2. PICK g \in FirstBytes, q \in Paths, qn \in PacketNumbers : v = PacketUse(g, q, qn)
      BY <2>5
    <3>3. NonceForPath(p, pn) = NonceForPath(q, qn) /\ KeyOf(f) = KeyOf(g)
      BY <3>1, <3>2 DEF PacketUse
    <3>4. /\ p \in SUBSET (0..31) /\ q \in SUBSET (0..31)
          /\ pn \in SUBSET (0..63) /\ qn \in SUBSET (0..63)
      BY QuicAssumption
    <3>5. p = q /\ pn = qn
      BY <3>3, <3>4, NonceInjective
    <3>6. QED BY <3>1, <3>2, <3>3, <3>5 DEF PacketUse
  <2>6. CASE IsToken(u) /\ IsToken(v)
    <3>1. PICK m \in TokenNonces : u = TokenUse(m)
      BY <2>6
    <3>2. PICK n \in TokenNonces : v = TokenUse(n)
      BY <2>6
    <3>3. derive_aead(m) = derive_aead(n)
      BY <3>1, <3>2 DEF TokenUse
    <3>4. m = n
      BY <3>3 DEF derive_aead
    <3>5. QED BY <3>1, <3>2, <3>4
  <2>7. QED BY <2>1, <2>2, <2>3, <2>4, <2>5, <2>6
<1>2. QED BY <1>1, QuicInvCorrect, PTL

=============================================================================
