---------------------------- MODULE Certificates ----------------------------
(***************************************************************************)
(* What attestation.rs and metadata.rs share: certificates, the order of   *)
(* an x5c chain, and a JWS that carries one.                               *)
(*                                                                         *)
(* A certificate is a record of what the code looks at: names, the public  *)
(* key, the key that signed it, whether it parses as X.509, and the        *)
(* extensions.  A key in it is [kind, id].  The code finds keys and nonces *)
(* by searching the octets, so they are found in a certificate that does   *)
(* not parse, too.  A signature is the key, the scheme and the data.       *)
(***************************************************************************)
EXTENDS Ceremony

Signature(key_id, scheme, data) == <<key_id, scheme, data>>

\* verify_es256, verify_es256_jws, verify_es384, verify_eddsa, verify_rs256.
Verifies(key_id, scheme, data, signature) ==
    Check(signature # Signature(key_id, scheme, data), "SignatureVerificationFailed")

\* Whether `cert` is signed by `signer`; not an error if either does not parse.
\* Mutant: which of the two signed the other.
CertSigns(cert, signer) == cert.valid /\ signer.valid /\ signer.signer = cert.key
CertSignedBy(cert, signer) == cert.valid /\ signer.valid /\ cert.signer = signer.key

\* One turn of the loop: two neighbours of a chain, leaf first.
Linked(subject, issuer) ==
    /\ subject.valid /\ issuer.valid
    /\ subject.issuer = issuer.subject
    /\ CertSignedBy(subject, issuer)

\* Mutant: the last pair is left out.
VerifyChainOrderShort(certs, invalid_err) ==
    << Check(\E i \in 1 .. Len(certs) - 2 : ~Linked(certs[i], certs[i + 1]), invalid_err) >>

\* Whatever is wrong, and wherever, the error is the caller's.
VerifyChainOrder(certs, invalid_err) ==
    << Check(\E i \in 1 .. Len(certs) - 1 : ~Linked(certs[i], certs[i + 1]), invalid_err) >>

\* The checks of `extract_..._public_key_from_cert`, and the signature by the
\* key that it finds.
KindOf(scheme) == IF scheme = "RS256" THEN "RSA" ELSE "P256"
CertVerifies(cert, scheme, data, signature) ==
    << Check(cert.key.kind # KindOf(scheme), "InvalidAttestationObject"),
       Verifies(cert.key.id, scheme, data, signature) >>

\* split_jws_with_x5c: a JWS that has three base64url segments, a JSON header
\* and a chain.  What is signed is the header and the payload.
SplitJws(jws, malformed_err) ==
    << Check(jws.form = "malformed", malformed_err),
       Check(jws.x5c = <<>>, malformed_err) >>
SigningInput(jws) == <<jws.alg, jws.x5c, jws.payload>>
=============================================================================
