-------------------------------- MODULE Wire --------------------------------
(***************************************************************************)
(* Octets from an authenticator, damaged on their way to the parsers: one  *)
(* source of one kind is written, its octets are damaged a few times, and  *)
(* the parser of that kind reads what arrives.                             *)
(*                                                                         *)
(*   authData   authenticator data          parse_authenticator_data       *)
(*   attObj     an attestation object       parse_attestation_object       *)
(*   rsaCert    a certificate of an RSA key extract_rsa_public_key_der...  *)
(*   appleCert  one with Apple's nonce      extract_apple_nonce_from_cert  *)
(*   ecCert     one of a P-256 key          extract_ec_p256_public_key...  *)
(*   pubArea    a TPM's public area         verify_pub_area_matches...     *)
(*   certInfo   what a TPM certifies        verify_cert_info               *)
(***************************************************************************)
EXTENDS SoftwareAuthenticator, Extensions, Der, Tpm

CONSTANTS
    Sources,     \* what is written: [kind, data, expect, spots]
    Cuts,        \* lengths a truncated buffer has
    Damages,     \* octets written over those at a source's spots
    MaxDamage    \* bound: how many times a buffer is damaged

ASSUME DamageAssumption ==
    MaxDamage \in Nat /\ Damages \subseteq 0 .. 255 /\ Cuts \subseteq Nat

VARIABLES
    source,      \* what was written
    buffer,      \* the octets as they arrive
    damage       \* how many times they were damaged

vars == <<source, buffer, damage>>

Records == INSTANCE Attestation

-----------------------------------------------------------------------------
(***************************************************************************)
(* External: what is written.                                              *)
(***************************************************************************)
\* make_fake_p256_cert and make_fake_apple_cert of the tests.
CertOf(spki) == Raw(<<48, 130, 1, 0>>) \o spki
Spki(point) == SubSeq(SpkiPrefix, 1, 26) \o point
AppleExtension(s) ==
    Raw(<<6, 9>>) \o AppleNonceOid \o (IF s.critical THEN Raw(<<1, 1, 255>>) ELSE <<>>)
      \o Raw(<<4, 38, 48, 36, 48, 34, 4, 32>>) \o s.nonce

\* A certificate around what rsa_components_to_der writes.
RsaSpki(s) ==
    DerOid(RsaEncryption) \o DerNull
      \o DerBitString(CHOOSE der \in RsaComponentsToDer(s.n, s.e).value : TRUE)

Blob(octets) == U16(Len(octets)) \o octets

\* build_tpm_ecc_pub_area of the tests, and the same for a modulus.
PubArea(s) ==
    U16(s.type) \o U16(s.name_alg) \o Octets(4, 0) \o Blob(s.policy)
      \o Octets(IF s.type = 35 THEN 10 ELSE 12, 0)
      \o FlattenSeq([i \in DOMAIN s.unique |-> Blob(s.unique[i])])

\* build_tpm_cert_info of the tests.
CertInfo(s) ==
    LET attest == s.magic \o s.type \o Blob(s.signer) \o Blob(s.extra_data)
                    \o Octets(16, 0) \o Blob(s.name)
    IN  Blob(attest)

\* What is read of a source, and what follows it.
Written(s) ==
    CASE s.kind = "authData"  -> Encode(s.data)
      [] s.kind = "attObj"    -> Cbor(Item(s.data))
      [] s.kind = "rsaCert"   -> CertOf(RsaSpki(s.data))
      [] s.kind = "appleCert" -> CertOf(Spki(s.data.point) \o AppleExtension(s.data))
      [] s.kind = "ecCert"    -> CertOf(Spki(s.data.point))
      [] s.kind = "pubArea"   -> PubArea(s.data)
      [] s.kind = "certInfo"  -> CertInfo(s.data)
Trailer(s) == IF s.kind \in {"rsaCert", "appleCert", "ecCert"} THEN s.data.after ELSE <<>>

Kinds == {"authData", "attObj", "rsaCert", "appleCert", "ecCert", "pubArea", "certInfo"}

\* A list of octets, the items of which are CBOR: a map is a list of entries.
IsList(s) == s \in Seq(Range(s))
IsBuffer(octets) ==
    /\ IsList(octets)
    /\ \A octet \in Range(octets) :
          /\ octet = [byte |-> octet.byte, item |-> octet.item]
          /\ \A item \in octet.item : item.value.type = "map" => IsList(item.value.entries)

\* The fields of a TPM's structures are lists of octets; an ECC key is in two
\* of them and an RSA key in one.
IsPubArea(p) ==
    /\ p.type \in Nat /\ p.name_alg \in Nat /\ IsList(p.policy)
    /\ IsList(p.unique) /\ Len(p.unique) \in 1 .. 2 /\ \A field \in Range(p.unique) : IsList(field)
    /\ (p.type = 35 => Len(p.unique) = 2) /\ (p.type = 1 => Len(p.unique) = 1)
    /\ p.key.kty \in {"EC2", "RSA", "OKP"}
IsCertInfo(c) ==
    /\ \A field \in {c.magic, c.type, c.signer, c.extra_data, c.name} : IsList(field)
    /\ Len(c.magic) = 4 /\ Len(c.type) = 2

ASSUME SourcesAssumption ==
    \A s \in Sources :
        /\ s.kind \in Kinds
        /\ s.kind = "authData" => IsBuffer(Written(s))
        /\ s.kind = "pubArea" => IsPubArea(s.data)
        /\ s.kind = "certInfo" => IsCertInfo(s.data)

-----------------------------------------------------------------------------
(***************************************************************************)
(* External: what may happen on the way.                                   *)
(***************************************************************************)
Init ==
    /\ source \in Sources
    /\ buffer = Written(source) \o Trailer(source)
    /\ damage = 0

Damage(octets) ==
    /\ damage < MaxDamage
    /\ buffer' = octets
    /\ damage' = damage + 1
    /\ UNCHANGED source

Truncate(n) == n < Len(buffer) /\ Damage(SubSeq(buffer, 1, n))

Extend == Damage(Append(buffer, Octet(0)))

FlipFlag(n) ==
    /\ source.kind = "authData"
    /\ Len(buffer) >= 33
    /\ LET byte == buffer[33].byte
       IN  Damage([buffer EXCEPT ![33].byte = IF Bit(byte, n) THEN byte - 2 ^ n ELSE byte + 2 ^ n])

Overwrite(i, byte) == i \in DOMAIN buffer /\ Damage([buffer EXCEPT ![i] = Octet(byte)])

Next ==
    \/ \E n \in Cuts : Truncate(n)
    \/ Extend
    \/ \E n \in 0 .. 7 : FlipFlag(n)
    \/ \E i \in source.spots, byte \in Damages : Overwrite(i, byte)

Spec == Init /\ [][Next]_vars

-----------------------------------------------------------------------------
(***************************************************************************)
(* Properties.                                                             *)
(***************************************************************************)

\* The octets of a TPM are compared, and nothing is returned.
Verdict(verdict) == Read(verdict, {}, 0)

Parsed ==
    CASE source.kind = "authData"  -> ParseAuthenticatorData(buffer)
      [] source.kind = "attObj"    -> ParseAttestationObject(buffer)
      [] source.kind = "rsaCert"   -> ExtractRsaPublicKey(buffer)
      [] source.kind = "appleCert" -> ExtractAppleNonce(buffer)
      [] source.kind = "ecCert"    -> ExtractEcP256PublicKey(buffer)
      [] source.kind = "pubArea"   ->
            Verdict(FirstError(<< Check(ComputePubAreaName(buffer).verdict # Ok,
                                        ComputePubAreaName(buffer).verdict),
                                  Check(VerifyPubAreaMatchesCredential(buffer, source.data.key) # Ok,
                                        "InvalidAttestationObject") >>))
      [] source.kind = "certInfo"  ->
            Verdict(VerifyCertInfo(buffer, source.data.expected_extra_data,
                                   source.data.expected_name))

\* Every reader answers every buffer with a result or one of the errors its
\* documentation names (authenticator_data.rs:172-177, 245-257;
\* registration.rs:732-785; attestation.rs:1512-1760).
TypeOK ==
    /\ source \in Sources
    /\ damage \in 0 .. MaxDamage
    /\ Parsed.verdict \in {Ok} \union
          CASE source.kind = "authData" -> {"InvalidAuthenticatorData", "CborDecodeError",
                                            "InvalidPublicKey", "UnsupportedAlgorithm"}
            [] source.kind = "attObj"   -> {"InvalidAttestationObject", "CborDecodeError"}
            [] OTHER                    -> {"InvalidAttestationObject"}

\* What a parser must make of authenticator data.
Meaning(s) ==
    [ rp_id           |-> Digest(s.rp_id, 32),
      user_present    |-> s.user_present,
      user_verified   |-> s.user_verified,
      backup_eligible |-> s.backup_eligible,
      backup_state    |-> s.backup_state,
      sign_count      |-> s.sign_count,
      attested        |-> {[aaguid |-> c.aaguid, id |-> c.id,
                            public_key |-> CoseKey(c.key.value)] : c \in s.attested},
      extensions      |-> {ExtensionMap(item.value) : item \in s.extensions} ]

ReadBack(value) ==
    CASE source.kind = "authData"  -> value = Meaning(source.data)
      [] source.kind = "attObj"    -> value = source.object
      [] source.kind = "rsaCert"   ->
            ExtractRsaComponents(value) = [n |-> source.data.n, e |-> source.data.e]
      [] source.kind = "appleCert" -> value = source.data.nonce
      [] source.kind = "ecCert"    -> value = source.data.point

\* What was written is read back, field by field and octet by octet, at every
\* length where the form of a DER length or of a key changes; and what should
\* not have been written is refused with the error that names the defect
\* (authenticator_data.rs:178-244, der.rs:21-129, attestation.rs:1523-1690).
RoundTrip ==
    damage = 0 =>
        /\ Parsed.verdict = source.expect
        /\ \A value \in Parsed.value : ReadBack(value)

\* The typed answers are what the authenticator wrote: a number that does not
\* fit is no answer, never another number; within an extension the first of
\* two entries counts, among extensions the last (extensions.rs:112-260).
ExtensionsReadBack ==
    damage = 0 /\ source.kind = "authData" =>
        \A ad \in Parsed.value : \A map \in ad.extensions : Views(map) = source.views

\* The records by which module Attestation represents the TPM's structures
\* lead to the same verdict as their octets, whole or cut short
\* (attestation.rs:1259-1443).
Whole == IF buffer = Written(source) THEN "whole" ELSE "truncated"
Material(kty, octets) == IF kty = "RSA" THEN <<Strip(octets[1])>> ELSE octets

PubAreaRecord(s) ==
    [ form     |-> Whole,
      type     |-> CASE s.type = 35 -> "ECC" [] s.type = 1 -> "RSA" [] OTHER -> "other",
      name_alg |-> CASE s.name_alg = 11 -> "SHA256" [] s.name_alg = 12 -> "SHA384" [] OTHER -> "other",
      unique   |-> Material(IF s.type = 1 THEN "RSA" ELSE "EC2", s.unique) ]
KeyRecord(key) ==
    [ kty |-> key.kty,
      id  |-> Material(key.kty, IF key.kty = "RSA" THEN <<key.n>> ELSE <<key.x, key.y>>) ]
CertInfoRecord(s) ==
    [ form       |-> Whole,
      magic      |-> IF s.magic = TpmGeneratedValue THEN "TPM_GENERATED_VALUE" ELSE "other",
      type       |-> IF s.type = TpmStAttestCertify THEN "TPM_ST_ATTEST_CERTIFY" ELSE "other",
      extra_data |-> s.extra_data, name |-> s.name ]

RecordsAgree ==
    LET s == source.data
    IN  IsPrefix(buffer, Written(source)) =>
          /\ source.kind = "pubArea" =>
                Parsed.verdict = FirstError(Records!VerifyPubAreaMatchesCredential(
                                               PubAreaRecord(s), KeyRecord(s.key)))
          /\ source.kind = "certInfo" =>
                Parsed.verdict = FirstError(Records!VerifyCertInfo(
                                    CertInfoRecord(s), s.expected_extra_data, s.expected_name))

\* The items encoded anywhere in the buffer, and the authenticator data that
\* would be reported as `ad` if these were its key and extensions.
ItemsWithin == UNION {buffer[i].item : i \in DOMAIN buffer}
Readings(ad) ==
    { [ad EXCEPT !.rp_id = source.data.rp_id,
                 !.attested = {[aaguid |-> c.aaguid, id |-> c.id, key |-> key] : c \in ad.attested},
                 !.extensions = {extensions : e \in ad.extensions}] :
      key \in ItemsWithin \union {[value |-> Scalar, len |-> 1]},
      extensions \in ItemsWithin \union {[value |-> Scalar, len |-> 1]} }

\* The reserved flag bits are not reported.
WithoutReserved(octets) ==
    [octets EXCEPT ![33].byte = @ - BitOf(Bit(@, 1), 1) - BitOf(Bit(@, 5), 5)]

\* Every way to write a length, and octets behind a header that declares
\* `skipped` more than their number.
LengthForms(n) ==
    (IF n < 128 THEN {Low(n, 1)} ELSE {})
      \union {<<Octet(128 + k)>> \o Low(n, k) : k \in {j \in 1 .. WordOctets : n < 256 ^ j}}
Declared(tag, skipped, contents, from) ==
    \E i \in from .. Len(buffer) : \E form \in LengthForms(skipped + Len(contents)) :
        /\ Occurs(buffer, Octets(1, tag) \o form, i)
        /\ Occurs(buffer, contents, i + 1 + Len(form) + skipped)

\* However a buffer was damaged, what is accepted stands in it, behind octets
\* that declare its length.  Authenticator data, encoded again, is the buffer
\* up to where the parser stopped; keys and nonces end where their headers
\* say; a TPM's values are compared with whole fields.  A field read at a
\* wrong offset, or past its end, would not (authenticator_data.rs:178-244,
\* 471-559; attestation.rs:1290-1443, 1523-1760).
NothingInvented ==
    CASE source.kind = "authData" ->
            \A ad \in Parsed.value : \E s \in Readings(ad) :
                Meaning(s) = ad /\ IsPrefix(Encode(s), WithoutReserved(buffer))
      [] source.kind = "attObj" ->
            \A object \in Parsed.value : object = source.object
      [] source.kind = "rsaCert" ->
            \A der \in Parsed.value : Declared(3, 1, der, Find(buffer, DerOid(RsaEncryption)))
      [] source.kind = "appleCert" ->
            \A nonce \in Parsed.value : Declared(4, 0, nonce, Find(buffer, AppleNonceOid))
      [] source.kind = "ecCert" ->
            \A point \in Parsed.value : Find(buffer, Spki(point)) # 0
      [] source.kind = "pubArea" ->
            LET key == source.data.key
                fields == IF key.kty = "EC2" THEN {Blob(key.x) \o Blob(key.y)}
                          ELSE {Blob(Octets(zeros, 0) \o Strip(key.n)) : zeros \in 0 .. 1}
            IN  Parsed.verdict = Ok => \E field \in fields : Find(buffer, field) # 0
      [] source.kind = "certInfo" ->
            LET extra_data == Blob(source.data.expected_extra_data)
                name == Blob(source.data.expected_name)
            IN  Parsed.verdict = Ok =>
                    \E i \in DOMAIN buffer : /\ Occurs(buffer, extra_data, i)
                                             /\ Occurs(buffer, name, i + Len(extra_data) + 16)

\* A buffer that ends before what is read of it does is refused
\* (authenticator_data.rs:180, 474, 507, 524, 568; attestation.rs:1446-1510,
\* 1647-1669).
NoPrefixAccepted ==
    IsStrictPrefix(buffer, Written(source)) => Parsed.verdict # Ok

\* Every key the parser lets through is one that registration can turn into
\* a PublicKey of one of the four algorithms: its conversion error
\* (registration.rs:669-676) is never the answer to a parsed key.
KeyAlwaysUsable ==
    source.kind = "authData" =>
        \A ad \in Parsed.value : \A cred \in ad.attested :
            /\ Convertible(cred.public_key)
            /\ CoseAlg(cred.public_key) = cred.public_key.alg

\* The order in which a COSE map is encoded does not matter: read backwards
\* it is the same key, or refused with the same error.  Entries are looked up
\* by a first match, so this rests on the search for duplicates
\* (authenticator_data.rs:270-285).
KeyOrderIrrelevant ==
    \A item \in {i \in ItemsWithin : source.kind = "authData" /\ i.value.type = "map"} :
        LET backwards == CborMap(Reverse(item.value.entries))
            verdict == FirstError(ParseCoseKey(item.value))
        IN  /\ FirstError(ParseCoseKey(backwards)) = verdict
            /\ verdict = Ok => CoseKey(backwards) = CoseKey(item.value)

\* der_parse_tlv is documented to answer None "if the slice is too short", for
\* what its length declares.
DeclaredLength(data) ==
    IF data[2].byte < 128 THEN 2 + data[2].byte
    ELSE 2 + (data[2].byte - 128) + BigEndian(SubSeq(data, 3, data[2].byte - 126))
TooShortIsNone ==
    \A data \in After(buffer, AppleNonceOid) :
        Len(data) >= 2 /\ DeclaredLength(data) > Len(data) => DerParseTlv(data) = {}
=============================================================================
