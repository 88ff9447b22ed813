----------------------------- MODULE Attestation -----------------------------
(***************************************************************************)
(* Attestation statements (attestation.rs): what `verify` answers about    *)
(* one, for each of the seven formats.                                     *)
(*                                                                         *)
(* An attestation object `a` has the format, the statement, the data of    *)
(* the authenticator (a record whose fields include rp_id, credential_id,  *)
(* public_key and aaguid) and the client data.  The hash of the client     *)
(* data is the client data.  A field of a statement is a set: empty when   *)
(* the field is absent, {v} when its value is v; ill_typed has the fields  *)
(* whose CBOR value has another type.                                      *)
(*                                                                         *)
(* `verify` answers with an error or with an AttestationType.              *)
(***************************************************************************)
EXTENDS Certificates

AttestationTypes == {"None", "SelfAttestation", "Basic", "BasicVerified"}

\* Checks one after the other, and what is returned after the last of them.
Then(checks, result) == LET e == FirstError(checks) IN IF e # Ok THEN e ELSE result

\* authData || clientDataHash
ToBeSigned(a) == <<a.auth_data, a.client_data>>

\* A statement that is not a map, lacks a required field, has one of the
\* fields that are read with another type, or an empty chain.
Malformed(stmt, required, optional) ==
    \/ stmt.form # "map"
    \/ stmt.ill_typed \intersect (required \union optional) # {}
    \/ \E name \in required : stmt[name] = {}
    \/ "x5c" \in required \union optional /\ <<>> \in stmt.x5c

The(field) == CHOOSE v \in field : TRUE

-----------------------------------------------------------------------------
(***************************************************************************)
(* The certificate chain.                                                  *)
(***************************************************************************)

\* Mutants: a broken chain with the metadata service's error; the order of the
\* chain looked at only where there are anchors to compare its root with.
VerifyX5cChainOfMds(certs, trust_anchors) ==
    Then(VerifyChainOrder(certs, "MdsChainInvalid"),
         IF trust_anchors = {} THEN "Basic" ELSE "BasicVerified")
VerifyX5cChainIfAnchored(certs, trust_anchors) ==
    IF trust_anchors = {} THEN "Basic"
    ELSE Then(VerifyChainOrder(certs, "AttestationChainInvalid")
                \o << Check(~Last(certs).valid, "AttestationChainInvalid"),
                      Check(\A anchor \in trust_anchors : ~CertSignedBy(Last(certs), anchor),
                            "AttestationRootUntrusted") >>,
              "BasicVerified")

VerifyX5cChain(certs, trust_anchors) ==
    Then(VerifyChainOrder(certs, "AttestationChainInvalid"),
         IF trust_anchors = {} THEN "Basic"
         ELSE Then(<< Check(~Last(certs).valid, "AttestationChainInvalid"),
                      Check(\A anchor \in trust_anchors : ~CertSignedBy(Last(certs), anchor),
                            "AttestationRootUntrusted") >>,
                   "BasicVerified"))

\* Both are passed by a certificate that does not parse.
VerifyCertAaguidExtension(cert, aaguid) ==
    Check(cert.valid /\ \E ext \in cert.aaguid : ext # aaguid, "AttestationAaguidMismatch")
VerifyCertIsNotCa(cert) ==
    Check(cert.valid /\ cert.ca, "AttestationCertIsCa")

\* An uncompressed P-256 point compared with the credential key.
P256Key(key) == IF key.alg = "ES256" THEN {[kind |-> "P256", id |-> key.id]} ELSE {}

-----------------------------------------------------------------------------
(***************************************************************************)
(* packed.                                                                 *)
(***************************************************************************)
VerifyPackedBasic(a, trust_anchors) ==
    LET alg == The(a.stmt.alg)
        leaf == Head(The(a.stmt.x5c))
    IN  Then(<< Check(alg \notin {"ES256", "RS256"}, "UnsupportedAlgorithm") >>
               \o CertVerifies(leaf, alg, ToBeSigned(a), The(a.stmt.sig))
               \o << VerifyCertAaguidExtension(leaf, a.auth_data.aaguid),
                     VerifyCertIsNotCa(leaf) >>,
             VerifyX5cChain(The(a.stmt.x5c), trust_anchors))

\* There is no arm for ES384, which the other key types have.
VerifyPackedSelf(a) ==
    LET alg == The(a.stmt.alg)
        key == a.auth_data.public_key
    IN  Then(<< Check(alg # CoseAlg(key), "InvalidAttestationObject"),
                Check(alg \notin {"ES256", "EdDSA", "RS256"}, "UnsupportedAlgorithm"),
                Verifies(key.id, alg, ToBeSigned(a), The(a.stmt.sig)) >>,
             "SelfAttestation")

VerifyPacked(a, trust_anchors) ==
    IF Malformed(a.stmt, {"alg", "sig"}, {"x5c"}) THEN "InvalidAttestationObject"
    ELSE IF a.stmt.x5c # {} THEN VerifyPackedBasic(a, trust_anchors)
    ELSE VerifyPackedSelf(a)

(***************************************************************************)
(* fido-u2f: the signature covers parts of the authenticator data.         *)
(***************************************************************************)
U2fData(a) ==
    <<a.auth_data.rp_id, a.client_data, a.auth_data.credential_id, a.auth_data.public_key>>

VerifyFidoU2f(a, trust_anchors) ==
    IF Malformed(a.stmt, {"sig", "x5c"}, {}) THEN "InvalidAttestationObject" ELSE
    LET leaf == Head(The(a.stmt.x5c))
    IN  Then(<< Check(P256Key(a.auth_data.public_key) = {}, "InvalidAttestationObject") >>
               \o CertVerifies(leaf, "ES256", U2fData(a), The(a.stmt.sig)),
             VerifyX5cChain(The(a.stmt.x5c), trust_anchors))

(***************************************************************************)
(* android-key and apple: the leaf certifies the credential key itself.    *)
(***************************************************************************)
VerifyAndroidKey(a, trust_anchors) ==
    IF Malformed(a.stmt, {"alg", "sig", "x5c"}, {}) THEN "InvalidAttestationObject" ELSE
    LET leaf == Head(The(a.stmt.x5c))
    IN  Then(<< Check({leaf.key} # P256Key(a.auth_data.public_key), "InvalidAttestationObject") >>
               \o CertVerifies(leaf, "ES256", ToBeSigned(a), The(a.stmt.sig)),
             VerifyX5cChain(The(a.stmt.x5c), trust_anchors))

\* Mutant: the nonce is there, whatever it is of.
VerifyAppleAnyNonce(a, trust_anchors) ==
    IF Malformed(a.stmt, {"x5c"}, {}) THEN "InvalidAttestationObject" ELSE
    LET leaf == Head(The(a.stmt.x5c))
    IN  Then(<< Check(leaf.nonce = {}, "InvalidAttestationObject"),
                Check({leaf.key} # P256Key(a.auth_data.public_key), "InvalidAttestationObject") >>,
             VerifyX5cChain(The(a.stmt.x5c), trust_anchors))

VerifyApple(a, trust_anchors) ==
    IF Malformed(a.stmt, {"x5c"}, {}) THEN "InvalidAttestationObject" ELSE
    LET leaf == Head(The(a.stmt.x5c))
    IN  Then(<< Check(leaf.nonce = {}, "InvalidAttestationObject"),
                Check(\E nonce \in leaf.nonce : nonce # ToBeSigned(a), "InvalidAttestationObject"),
                Check({leaf.key} # P256Key(a.auth_data.public_key), "InvalidAttestationObject") >>,
             VerifyX5cChain(The(a.stmt.x5c), trust_anchors))

(***************************************************************************)
(* tpm.  pubArea and certInfo are records of what is read from them;       *)
(* form = "truncated" is one that ends before its last field.  The RSA     *)
(* exponent in pubArea is not looked at, nor are qualifiedSigner,          *)
(* clockInfo and firmwareVersion in certInfo.                              *)
(***************************************************************************)
PubAreaName(pub_area) == <<pub_area.name_alg, pub_area>>

\* COSE algorithm and key type of the TPM: 0x0023 is ECC, 0x0001 is RSA.
VerifyPubAreaMatchesCredential(pub_area, key) ==
    << Check(pub_area.name_alg \notin {"SHA256", "SHA384"}, "InvalidAttestationObject"),
       Check(pub_area.form = "truncated", "InvalidAttestationObject"),
       Check(pub_area.type \notin {"ECC", "RSA"}, "InvalidAttestationObject"),
       Check(pub_area.type # (IF key.kty = "EC2" THEN "ECC" ELSE key.kty),
             "InvalidAttestationObject"),
       Check(pub_area.unique # key.id, "InvalidAttestationObject") >>

VerifyCertInfo(cert_info, extra_data, name) ==
    << Check(cert_info.form = "truncated", "InvalidAttestationObject"),
       Check(cert_info.magic # "TPM_GENERATED_VALUE", "InvalidAttestationObject"),
       Check(cert_info.type # "TPM_ST_ATTEST_CERTIFY", "InvalidAttestationObject"),
       Check(cert_info.extra_data # extra_data, "InvalidAttestationObject"),
       Check(cert_info.name # name, "InvalidAttestationObject") >>

VerifyTpm(a, trust_anchors) ==
    IF Malformed(a.stmt, {"ver", "alg", "sig", "x5c", "cert_info", "pub_area"}, {})
    THEN "InvalidAttestationObject" ELSE
    LET alg       == The(a.stmt.alg)
        leaf      == Head(The(a.stmt.x5c))
        cert_info == The(a.stmt.cert_info)
        pub_area  == The(a.stmt.pub_area)
    IN  Then(<< Check(The(a.stmt.ver) # "2.0", "InvalidAttestationObject"),
                Check(alg # CoseAlg(a.auth_data.public_key), "InvalidAttestationObject"),
                Check(alg \notin {"ES256", "RS256"}, "UnsupportedAlgorithm"),
                Check(leaf.key.kind # KindOf(alg), "InvalidAttestationObject") >>
               \o VerifyPubAreaMatchesCredential(pub_area, a.auth_data.public_key)
               \o VerifyCertInfo(cert_info, ToBeSigned(a), PubAreaName(pub_area))
               \o CertVerifies(leaf, alg, <<cert_info>>, The(a.stmt.sig)),
             VerifyX5cChain(The(a.stmt.x5c), trust_anchors))

(***************************************************************************)
(* android-safetynet: the response is a JWS with a chain of its own.       *)
(***************************************************************************)
VerifyAndroidSafetynet(a, trust_anchors) ==
    IF Malformed(a.stmt, {"ver", "response"}, {}) THEN "InvalidAttestationObject" ELSE
    LET jws == The(a.stmt.response)
        split == FirstError(SplitJws(jws, "InvalidAttestationObject"))
    IN  IF split # Ok THEN split
        ELSE Then(<< Check(jws.alg \notin {"ES256_JWS", "RS256"}, "InvalidAttestationObject") >>
                    \o CertVerifies(Head(jws.x5c), jws.alg, SigningInput(jws), jws.signature)
                    \o << Check(jws.payload.form = "malformed", "InvalidAttestationObject"),
                          Check(jws.payload.nonce # ToBeSigned(a), "InvalidAttestationObject"),
                          Check(~Head(jws.x5c).valid \/ Head(jws.x5c).host # "attest.android.com",
                                "InvalidAttestationObject") >>,
                  VerifyX5cChain(jws.x5c, trust_anchors))

-----------------------------------------------------------------------------
\* attestation::verify.  A format it does not know is accepted, unattested.
Verify(a, trust_anchors) ==
    CASE a.fmt = "packed"            -> VerifyPacked(a, trust_anchors)
      [] a.fmt = "fido-u2f"          -> VerifyFidoU2f(a, trust_anchors)
      [] a.fmt = "android-key"       -> VerifyAndroidKey(a, trust_anchors)
      [] a.fmt = "apple"             -> VerifyApple(a, trust_anchors)
      [] a.fmt = "tpm"               -> VerifyTpm(a, trust_anchors)
      [] a.fmt = "android-safetynet" -> VerifyAndroidSafetynet(a, trust_anchors)
      [] OTHER                       -> "None"
=============================================================================
