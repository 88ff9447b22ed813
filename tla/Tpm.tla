-------------------------------- MODULE Tpm ---------------------------------
(***************************************************************************)
(* The structures of a TPM (attestation.rs): pubArea, the public area of   *)
(* the credential key, and certInfo, what the TPM says of it.              *)
(*                                                                         *)
(* A reader starts where the one before it ended, and answers with the     *)
(* octets it read and the position after them; a failure is passed on.     *)
(***************************************************************************)
EXTENDS Octets

Start(pos) == [ok |-> TRUE, octets |-> <<>>, pos |-> pos]
Failed == [ok |-> FALSE, octets |-> <<>>, pos |-> 0]

\* tpm_skip, tpm_read_u16_be and tpm_read_u32_be.
TpmRead(data, from, n) ==
    IF from.ok /\ from.pos + n <= Len(data)
    THEN [ok |-> TRUE, octets |-> SubSeq(data, from.pos + 1, from.pos + n), pos |-> from.pos + n]
    ELSE Failed

\* Two octets of length, and as many octets.
TpmReadBlob(data, from) ==
    LET len == TpmRead(data, from, 2) IN TpmRead(data, len, BigEndian(len.octets))

\* 0x000B and 0x000C are SHA-256 and SHA-384; both hash the whole area.
ComputePubAreaName(pub_area) ==
    IF Len(pub_area) < 4 THEN Read("InvalidAttestationObject", {}, 0) ELSE
    LET name_alg == SubSeq(pub_area, 3, 4)
        size == IF name_alg = U16(11) THEN 32 ELSE 48
    IN  Read(IF name_alg \in {U16(11), U16(12)} THEN Ok ELSE "InvalidAttestationObject",
             {name_alg \o Digest(pub_area, size)}, 0)

\* Without leading zeros.
Strip(octets) ==
    LET first == SelectInSeq(octets, LAMBDA octet : octet.byte # 0)
    IN  IF first = 0 THEN <<>> ELSE Drop(octets, first - 1)

\* 0x0023 is ECC, whose parameters take 10 octets; 0x0001 is RSA, with 12, of
\* which the last four are the exponent, which is skipped with the others.
VerifyPubAreaMatchesCredential(pub_area, key) ==
    IF Len(pub_area) < 10 THEN "InvalidAttestationObject" ELSE
    LET key_type == BigEndian(SubSeq(pub_area, 1, 2))
        params_start == 10 + BigEndian(SubSeq(pub_area, 9, 10))
        x == TpmReadBlob(pub_area, Start(params_start + 10))
        y == TpmReadBlob(pub_area, x)
        modulus == TpmReadBlob(pub_area, Start(params_start + 12))
        matches ==
            CASE key_type = 35 -> y.ok /\ key.kty = "EC2" /\ x.octets = key.x /\ y.octets = key.y
              [] key_type = 1  -> modulus.ok /\ key.kty = "RSA" /\ Strip(modulus.octets) = Strip(key.n)
              [] OTHER         -> FALSE
    IN  IF matches THEN Ok ELSE "InvalidAttestationObject"

TpmGeneratedValue == Raw(<<255, 84, 67, 71>>)
TpmStAttestCertify == Raw(<<128, 23>>)

\* Mutant: extraData is read where qualifiedSigner is.
VerifyCertInfoUnqualified(cert_info, expected_extra_data, expected_name) ==
    LET magic         == TpmRead(cert_info, TpmRead(cert_info, Start(0), 2), 4)
        attest_type   == TpmRead(cert_info, magic, 2)
        extra_data    == TpmReadBlob(cert_info, attest_type)
        attested_name == TpmReadBlob(cert_info, TpmRead(cert_info, extra_data, 16))
    IN  IF /\ attested_name.ok
           /\ magic.octets = TpmGeneratedValue
           /\ attest_type.octets = TpmStAttestCertify
           /\ extra_data.octets = expected_extra_data
           /\ attested_name.octets = expected_name
        THEN Ok ELSE "InvalidAttestationObject"

\* The size, qualifiedSigner, clockInfo and firmwareVersion are skipped, and
\* what follows the name is not read.
VerifyCertInfo(cert_info, expected_extra_data, expected_name) ==
    LET magic         == TpmRead(cert_info, TpmRead(cert_info, Start(0), 2), 4)
        attest_type   == TpmRead(cert_info, magic, 2)
        signer        == TpmReadBlob(cert_info, attest_type)
        extra_data    == TpmReadBlob(cert_info, signer)
        attested_name == TpmReadBlob(cert_info, TpmRead(cert_info, extra_data, 16))
    IN  IF /\ attested_name.ok
           /\ magic.octets = TpmGeneratedValue
           /\ attest_type.octets = TpmStAttestCertify
           /\ extra_data.octets = expected_extra_data
           /\ attested_name.octets = expected_name
        THEN Ok ELSE "InvalidAttestationObject"
=============================================================================
