-------------------------------- MODULE Der ---------------------------------
(***************************************************************************)
(* DER: the writer of RSA keys (der.rs), and the reader that finds a key   *)
(* or a nonce in a certificate (attestation.rs).  The reader searches the  *)
(* octets of the certificate for an identifier and reads on from there;    *)
(* it does not parse the certificate.                                      *)
(***************************************************************************)
EXTENDS Octets

CONSTANTS WordOctets    \* octets in a usize; scaled down in the runs

ASSUME WordAssumption == WordOctets \in Nat \ {0}

-----------------------------------------------------------------------------
(***************************************************************************)
(* The writer.                                                             *)
(***************************************************************************)

\* The last n octets of a number.
Low(number, n) == [i \in 1 .. n |-> Octet((number \div 256 ^ (n - i)) % 256)]

\* Mutant: a length of 128 in one octet.
DerLengthShort(len) ==
    IF len <= 128 THEN Low(len, 1)
    ELSE IF len <= 255 THEN <<Octet(129)>> \o Low(len, 1)
    ELSE IF len <= 65535 THEN <<Octet(130)>> \o Low(len, 2)
    ELSE <<Octet(132)>> \o Low(len, 4)

DerLength(len) ==
    IF len < 128 THEN Low(len, 1)
    ELSE IF len <= 255 THEN <<Octet(129)>> \o Low(len, 1)
    ELSE IF len <= 65535 THEN <<Octet(130)>> \o Low(len, 2)
    ELSE <<Octet(132)>> \o Low(len, 4)

DerSequence(contents) == <<Octet(48)>> \o DerLength(Len(contents)) \o contents

\* Padded where the first bit would be read as a sign.
DerInteger(value) ==
    LET needs_pad == value # <<>> /\ value[1].byte >= 128
        contents == IF needs_pad THEN <<Octet(0)>> \o value ELSE value
    IN  <<Octet(2)>> \o DerLength(Len(contents)) \o contents

\* No unused bits.
DerBitString(contents) ==
    <<Octet(3)>> \o DerLength(Len(contents) + 1) \o <<Octet(0)>> \o contents

DerOid(oid) == <<Octet(6)>> \o DerLength(Len(oid)) \o oid

DerNull == Raw(<<5, 0>>)

RsaComponentsToDer(n, e) ==
    Read(FirstError(<< Check(n = <<>>, "InvalidPublicKey"), Check(e = <<>>, "InvalidPublicKey") >>),
         {DerSequence(DerInteger(n) \o DerInteger(e))}, 0)

-----------------------------------------------------------------------------
(***************************************************************************)
(* The reader.  None is the empty set.                                     *)
(***************************************************************************)

\* (len << 8) | b drops what is shifted out of the word.
Accumulate(octets) ==
    FoldLeft(LAMBDA len, octet : 256 * (len % 256 ^ (WordOctets - 1)) + octet.byte, 0, octets)

\* checked_add does not fail: a buffer is shorter than the word can count.
DerParseTlv(data) ==
    LET long   == data[2].byte >= 128
        octets == IF long THEN data[2].byte - 128 ELSE 0
        header == 2 + octets
        len    == IF long THEN Accumulate(SubSeq(data, 3, header)) ELSE data[2].byte
    IN  IF Len(data) < 2 THEN {}
        ELSE IF long /\ (octets = 0 \/ Len(data) < header) THEN {}
        ELSE IF Len(data) < header + len THEN {}
        ELSE {[ tag   |-> data[1].byte,
                value |-> SubSeq(data, header + 1, header + len),
                rest  |-> Drop(data, header + len) ]}

DerUnwrap(data, tag) == {tlv.value : tlv \in {t \in DerParseTlv(data) : t.tag = tag}}
DerUnwrapSequence(data) == DerUnwrap(data, 48)
DerUnwrapOctetString(data) == DerUnwrap(data, 4)

RsaEncryption == Raw(<<42, 134, 72, 134, 247, 13, 1, 1, 1>>)
AppleNonceOid == Raw(<<42, 134, 72, 134, 247, 99, 100, 8, 2>>)

\* What follows the first occurrence of an identifier.
After(data, pattern) ==
    LET at == Find(data, pattern)
    IN  IF at = 0 THEN {} ELSE {Drop(data, at + Len(pattern) - 1)}

\* The only element of a set of at most one, or an error.
Found(set) == Read(IF set = {} THEN "InvalidAttestationObject" ELSE Ok, set, 0)

\* The OID, the parameters of the algorithm, and the BIT STRING without its
\* count of unused bits.
ExtractRsaPublicKey(cert) ==
    LET params == UNION {DerParseTlv(oid) : oid \in After(cert, DerOid(RsaEncryption))}
        bits   == UNION {DerUnwrap(p.rest, 3) : p \in params}
    IN  Found({Drop(b, 1) : b \in bits \ {<<>>}})

\* A criticality flag is taken to have three octets.
ExtractAppleNonce(cert) ==
    LET value(oid) == IF oid # <<>> /\ oid[1].byte = 1 THEN Drop(oid, 3) ELSE oid
        content == UNION {DerUnwrapOctetString(value(oid)) : oid \in After(cert, DerOid(AppleNonceOid))}
        outer   == UNION {DerUnwrapSequence(c) : c \in content}
        inner   == UNION {DerUnwrapSequence(o) : o \in outer}
        nonce   == UNION {DerUnwrapOctetString(i) : i \in inner}
    IN  Found({n \in nonce : Len(n) = 32})

\* SubjectPublicKeyInfo of an uncompressed P-256 point, the prefix of the
\* point included.
SpkiPrefix ==
    Raw(<<48, 89, 48, 19, 6, 7, 42, 134, 72, 206, 61, 2, 1, 6, 8,
          42, 134, 72, 206, 61, 3, 1, 7, 3, 66, 0, 4>>)

ExtractEcP256PublicKey(cert) ==
    Found({Octets(1, 4) \o SubSeq(point, 1, 64) :
             point \in {p \in After(cert, SpkiPrefix) : Len(p) >= 64}})
=============================================================================
