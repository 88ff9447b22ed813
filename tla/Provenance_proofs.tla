-------------------------- MODULE Provenance_proofs --------------------------
(***************************************************************************)
(* Theorems of module Provenance, for every set of attestations and roots, *)
(* chains of any length and any number of edits.                           *)
(*                                                                         *)
(* The first part says what each verifier of a format answers: one error   *)
(* whatever the trust anchors are (Refused), or the grade its chain        *)
(* deserves (Graded), or SelfAttestation (SelfAttested), and in the last   *)
(* two cases which signature or nonce it has seen (BasicEvidence,          *)
(* SelfEvidence).  VerifyAnswer puts the formats together.                 *)
(*                                                                         *)
(* The inductive invariant is IInv.  Its heart is Traceable: whatever the  *)
(* edits, each signature in the message was made by an authenticator and   *)
(* each certificate in a chain has the key and the nonce of one that was   *)
(* issued.  OriginAuthentic is not inductive, since it speaks of messages  *)
(* that are accepted and an edit may turn a refused one into one of those. *)
(* It follows from Traceable: what is accepted shows a signature, whoever  *)
(* made it vouched for data of that shape, and a key that attests itself   *)
(* is in no certificate, so that neither grade can be taken for the other. *)
(*                                                                         *)
(* The last part is the converse, for what authenticators make when they   *)
(* conform (Conforming): no check of any format refuses that.              *)
(***************************************************************************)
EXTENDS Provenance, Ceremony_proofs

-----------------------------------------------------------------------------
(***************************************************************************)
(* What the verifiers answer.                                              *)
(***************************************************************************)

\* Checks with errors of one set answer with one of those, or with what
\* follows them; in that case none of them failed.
LEMMA ThenAnswer ==
    ASSUME NEW E, NEW checks \in Lines(E), NEW result
    PROVE  IF FirstError(checks) = Ok THEN Then(checks, result) = result
           ELSE Then(checks, result) = FirstError(checks) /\ FirstError(checks) \in E
<1>1. CASE FirstError(checks) # Ok
  <2>1. PICK i \in 1 .. Len(checks) : checks[i].error = FirstError(checks)
    BY <1>1, ErrorHasCheck
  <2>2. checks[i] \in Checks(E)
    BY DEF Lines
  <2> QED
    BY <1>1, <2>1, <2>2 DEF Checks, Then
<1> QED
  BY <1>1 DEF Then

\* The chain: whole or not, with or without anchors.
Whole(certs) == \A i \in 1 .. Len(certs) - 1 : Linked(certs[i], certs[i + 1])
Anchored(certs, anchors) == \E anchor \in anchors : CertSignedBy(Last(certs), anchor)
ChainAnswer(certs, anchors) ==
    IF ~Whole(certs) THEN "AttestationChainInvalid"
    ELSE IF anchors = {} THEN "Basic"
    ELSE IF ~Last(certs).valid THEN "AttestationChainInvalid"
    ELSE IF Anchored(certs, anchors) THEN "BasicVerified"
    ELSE "AttestationRootUntrusted"

\* The chain is answered with the first of its three checks that fails, or with
\* the grade it deserves (attestation.rs:262-285).
LEMMA ChainVerdict ==
    ASSUME NEW certs, NEW anchors
    PROVE  VerifyX5cChain(certs, anchors) = ChainAnswer(certs, anchors)
<1> DEFINE o == Check(\E i \in 1 .. Len(certs) - 1 : ~Linked(certs[i], certs[i + 1]),
                      "AttestationChainInvalid")
           v == Check(~Last(certs).valid, "AttestationChainInvalid")
           u == Check(\A anchor \in anchors : ~CertSignedBy(Last(certs), anchor),
                      "AttestationRootUntrusted")
<1>1. /\ o \in Checks(AttestationErrors) /\ v \in Checks(AttestationErrors)
      /\ u \in Checks(AttestationErrors)
  BY DEF Checks, Check, AttestationErrors, Ok
<1>2. FirstError(<<o>>) = IF o.failed THEN "AttestationChainInvalid" ELSE Ok
  <2> HIDE DEF v, u
  <2> QED
    BY <1>1, FirstErrorOf1 DEF Check
<1>3. FirstError(<<v, u>>) = IF v.failed THEN "AttestationChainInvalid"
                             ELSE IF u.failed THEN "AttestationRootUntrusted" ELSE Ok
  <2>1. v.error = "AttestationChainInvalid" /\ u.error = "AttestationRootUntrusted"
    BY DEF Check
  <2> HIDE DEF v, u, o
  <2> QED
    BY <1>1, <2>1, FirstErrorOf2
<1>4. /\ o.failed <=> ~Whole(certs)
      /\ v.failed <=> ~Last(certs).valid
      /\ u.failed <=> ~Anchored(certs, anchors)
  BY DEF Check, Whole, Anchored
<1>5. VerifyX5cChain(certs, anchors) =
        Then(<<o>>, IF anchors = {} THEN "Basic" ELSE Then(<<v, u>>, "BasicVerified"))
  BY DEF VerifyX5cChain, VerifyChainOrder
<1> HIDE DEF o, v, u
<1> QED
  BY <1>2, <1>3, <1>4, <1>5 DEF Then, ChainAnswer, Ok

\* The checks on a certificate: when they pass, its key made the signature.
LEMMA CertLine ==
    ASSUME NEW cert, NEW scheme, NEW data, NEW signature
    PROVE  /\ CertVerifies(cert, scheme, data, signature) \in Lines(AttestationErrors)
           /\ FirstError(CertVerifies(cert, scheme, data, signature)) = Ok =>
                 /\ cert.key.kind = KindOf(scheme)
                 /\ signature = Signature(cert.key.id, scheme, data)
<1> DEFINE k == Check(cert.key.kind # KindOf(scheme), "InvalidAttestationObject")
           v == Check(signature # Signature(cert.key.id, scheme, data),
                      "SignatureVerificationFailed")
<1>1. k \in Checks(AttestationErrors) /\ v \in Checks(AttestationErrors)
  BY DEF Checks, Check, AttestationErrors, Ok
<1>2. CertVerifies(cert, scheme, data, signature) = <<k, v>>
  BY DEF CertVerifies, Verifies
<1>3. /\ k.failed <=> cert.key.kind # KindOf(scheme)
      /\ v.failed <=> signature # Signature(cert.key.id, scheme, data)
      /\ k.error # Ok /\ v.error # Ok
  BY DEF Check, Ok
<1> HIDE DEF k, v
<1> QED
  BY <1>1, <1>2, <1>3, FirstErrorOf2

\* Two lines of checks are passed when both are.
LEMMA BothPass ==
    ASSUME NEW s \in Lines(AttestationErrors), NEW t \in Lines(AttestationErrors)
    PROVE  /\ s \o t \in Lines(AttestationErrors)
           /\ FirstError(s \o t) = Ok => FirstError(s) = Ok /\ FirstError(t) = Ok
  BY FirstErrorOfConcat

\* Checks before the chain: refused whatever the anchors are, or answered as
\* the chain deserves.
LEMMA ChainAfter ==
    ASSUME NEW line \in Lines(AttestationErrors), NEW certs
    PROVE  \/ \E e \in AttestationErrors :
                 \A anchors : Then(line, VerifyX5cChain(certs, anchors)) = e
           \/ /\ FirstError(line) = Ok
              /\ \A anchors : Then(line, VerifyX5cChain(certs, anchors)) =
                                 ChainAnswer(certs, anchors)
<1>1. ASSUME NEW anchors
      PROVE  IF FirstError(line) = Ok
             THEN Then(line, VerifyX5cChain(certs, anchors)) = ChainAnswer(certs, anchors)
             ELSE /\ Then(line, VerifyX5cChain(certs, anchors)) = FirstError(line)
                  /\ FirstError(line) \in AttestationErrors
  BY ThenAnswer, ChainVerdict
<1> QED
  BY <1>1

\* What an authenticator must have made for a statement to pass the checks of
\* its format: with a chain, or with the credential key alone.
BasicEvidence(a, chain) ==
    LET leaf == Head(chain)
    IN  \/ /\ a.fmt \in {"packed", "android-key"}
           /\ \E scheme : Signature(leaf.key.id, scheme, ToBeSigned(a)) \in a.stmt.sig
        \/ /\ a.fmt = "fido-u2f"
           /\ Signature(leaf.key.id, "ES256", U2fData(a)) \in a.stmt.sig
        \/ /\ a.fmt = "apple"
           /\ ToBeSigned(a) \in leaf.nonce
        \/ /\ a.fmt = "tpm"
           /\ \E scheme : \E cert_info \in a.stmt.cert_info :
                 /\ Signature(leaf.key.id, scheme, <<cert_info>>) \in a.stmt.sig
                 /\ cert_info.extra_data = ToBeSigned(a)
        \/ /\ a.fmt = "android-safetynet"
           /\ \E jws \in a.stmt.response :
                 /\ jws.signature = Signature(leaf.key.id, jws.alg, SigningInput(jws))
                 /\ jws.payload.nonce = ToBeSigned(a)
SelfEvidence(a) ==
    /\ a.fmt = "packed"
    /\ \E scheme : Signature(a.auth_data.public_key.id, scheme, ToBeSigned(a)) \in a.stmt.sig

\* A statement is refused whatever the anchors are, or has its evidence, and is
\* answered as its chain deserves.
Refused(a) == \E e \in AttestationErrors : \A anchors : Verify(a, anchors) = e
Graded(a) ==
    \E chain \in ChainsOf(a) :
        /\ chain # <<>>
        /\ BasicEvidence(a, chain)
        /\ \A anchors : Verify(a, anchors) = ChainAnswer(chain, anchors)
SelfAttested(a) ==
    SelfEvidence(a) /\ \A anchors : Verify(a, anchors) = "SelfAttestation"

\* packed with x5c: the leaf's key signed (attestation.rs:513-559).
LEMMA PackedBasicAnswer ==
    ASSUME NEW a, a.fmt = "packed", ~Malformed(a.stmt, {"alg", "sig"}, {"x5c"}), a.stmt.x5c # {}
    PROVE  Refused(a) \/ Graded(a)
<1> DEFINE alg   == The(a.stmt.alg)
           sig   == The(a.stmt.sig)
           chain == The(a.stmt.x5c)
           leaf  == Head(chain)
           u == Check(alg \notin {"ES256", "RS256"}, "UnsupportedAlgorithm")
           s == CertVerifies(leaf, alg, ToBeSigned(a), sig)
           x == VerifyCertAaguidExtension(leaf, a.auth_data.aaguid)
           y == VerifyCertIsNotCa(leaf)
           line == <<u>> \o s \o <<x, y>>
<1>1. sig \in a.stmt.sig /\ chain \in ChainsOf(a) /\ chain # <<>>
  BY DEF Malformed, The, ChainsOf, Nested
<1>2. /\ u \in Checks(AttestationErrors) /\ x \in Checks(AttestationErrors)
      /\ y \in Checks(AttestationErrors)
  BY DEF Checks, Check, AttestationErrors, Ok, VerifyCertAaguidExtension, VerifyCertIsNotCa
<1>3. /\ s \in Lines(AttestationErrors)
      /\ FirstError(s) = Ok => sig = Signature(leaf.key.id, alg, ToBeSigned(a))
  BY CertLine
<1>4. line \in Lines(AttestationErrors) /\ (FirstError(line) = Ok => FirstError(s) = Ok)
  <2> HIDE DEF u, s, x, y
  <2>1. <<u>> \in Lines(AttestationErrors) /\ <<x, y>> \in Lines(AttestationErrors)
    BY <1>2, FirstErrorOf1, FirstErrorOf2
  <2> QED
    BY <1>3, <2>1, BothPass
<1>5. ASSUME NEW anchors
      PROVE  Verify(a, anchors) = Then(line, VerifyX5cChain(chain, anchors))
  BY DEF Verify, VerifyPacked, VerifyPackedBasic
<1>6. FirstError(line) = Ok => BasicEvidence(a, chain)
  BY <1>1, <1>3, <1>4 DEF BasicEvidence
<1> HIDE DEF line, chain
<1> QED
  BY <1>1, <1>4, <1>5, <1>6, ChainAfter DEF Refused, Graded

\* packed without x5c: the credential key signed (attestation.rs:560-601).
LEMMA PackedSelfAnswer ==
    ASSUME NEW a, a.fmt = "packed", ~Malformed(a.stmt, {"alg", "sig"}, {"x5c"}), a.stmt.x5c = {}
    PROVE  Refused(a) \/ SelfAttested(a)
<1> DEFINE alg == The(a.stmt.alg)
           sig == The(a.stmt.sig)
           key == a.auth_data.public_key
           m == Check(alg # CoseAlg(key), "InvalidAttestationObject")
           u == Check(alg \notin {"ES256", "EdDSA", "RS256"}, "UnsupportedAlgorithm")
           v == Verifies(key.id, alg, ToBeSigned(a), sig)
           line == <<m, u, v>>
<1>1. sig \in a.stmt.sig
  BY DEF Malformed, The
<1>2. /\ m \in Checks(AttestationErrors) /\ u \in Checks(AttestationErrors)
      /\ v \in Checks(AttestationErrors)
  BY DEF Checks, Check, AttestationErrors, Ok, Verifies
<1>3. /\ v.failed <=> sig # Signature(key.id, alg, ToBeSigned(a))
      /\ m.error # Ok /\ u.error # Ok /\ v.error # Ok
  BY DEF Check, Verifies, Ok
<1>4. line \in Lines(AttestationErrors) /\ (FirstError(line) = Ok => ~v.failed)
  <2> HIDE DEF m, u, v
  <2> QED
    BY <1>2, <1>3, FirstErrorOf3
<1>5. ASSUME NEW anchors
      PROVE  Verify(a, anchors) = Then(line, "SelfAttestation")
  BY DEF Verify, VerifyPacked, VerifyPackedSelf
<1>6. FirstError(line) = Ok => SelfEvidence(a)
  BY <1>1, <1>3, <1>4 DEF SelfEvidence
<1> HIDE DEF line
<1> QED
  BY <1>4, <1>5, <1>6, ThenAnswer DEF Refused, SelfAttested

\* fido-u2f: the leaf's key signed the parts of it (attestation.rs:609-701).
LEMMA U2fAnswer ==
    ASSUME NEW a, a.fmt = "fido-u2f"
    PROVE  Refused(a) \/ Graded(a)
<1>0. CASE Malformed(a.stmt, {"sig", "x5c"}, {})
  BY <1>0 DEF Refused, Verify, VerifyFidoU2f, AttestationErrors
<1> SUFFICES ASSUME ~Malformed(a.stmt, {"sig", "x5c"}, {})
             PROVE  Refused(a) \/ Graded(a)
  BY <1>0
<1> DEFINE sig   == The(a.stmt.sig)
           chain == The(a.stmt.x5c)
           leaf  == Head(chain)
           k == Check(P256Key(a.auth_data.public_key) = {}, "InvalidAttestationObject")
           s == CertVerifies(leaf, "ES256", U2fData(a), sig)
           line == <<k>> \o s
<1>1. sig \in a.stmt.sig /\ chain \in ChainsOf(a) /\ chain # <<>>
  BY DEF Malformed, The, ChainsOf, Nested
<1>2. k \in Checks(AttestationErrors)
  BY DEF Checks, Check, AttestationErrors, Ok
<1>3. /\ s \in Lines(AttestationErrors)
      /\ FirstError(s) = Ok => sig = Signature(leaf.key.id, "ES256", U2fData(a))
  BY CertLine
<1>4. line \in Lines(AttestationErrors) /\ (FirstError(line) = Ok => FirstError(s) = Ok)
  <2> HIDE DEF k, s
  <2> QED
    BY <1>2, <1>3, FirstErrorOf1, BothPass
<1>5. ASSUME NEW anchors
      PROVE  Verify(a, anchors) = Then(line, VerifyX5cChain(chain, anchors))
  BY DEF Verify, VerifyFidoU2f
<1>6. FirstError(line) = Ok => BasicEvidence(a, chain)
  BY <1>1, <1>3, <1>4 DEF BasicEvidence
<1> HIDE DEF line, chain
<1> QED
  BY <1>1, <1>4, <1>5, <1>6, ChainAfter DEF Refused, Graded

\* android-key: the leaf's key signed (attestation.rs:711-820).
LEMMA AndroidKeyAnswer ==
    ASSUME NEW a, a.fmt = "android-key"
    PROVE  Refused(a) \/ Graded(a)
<1>0. CASE Malformed(a.stmt, {"alg", "sig", "x5c"}, {})
  BY <1>0 DEF Refused, Verify, VerifyAndroidKey, AttestationErrors
<1> SUFFICES ASSUME ~Malformed(a.stmt, {"alg", "sig", "x5c"}, {})
             PROVE  Refused(a) \/ Graded(a)
  BY <1>0
<1> DEFINE sig   == The(a.stmt.sig)
           chain == The(a.stmt.x5c)
           leaf  == Head(chain)
           k == Check({leaf.key} # P256Key(a.auth_data.public_key), "InvalidAttestationObject")
           s == CertVerifies(leaf, "ES256", ToBeSigned(a), sig)
           line == <<k>> \o s
<1>1. sig \in a.stmt.sig /\ chain \in ChainsOf(a) /\ chain # <<>>
  BY DEF Malformed, The, ChainsOf, Nested
<1>2. k \in Checks(AttestationErrors)
  BY DEF Checks, Check, AttestationErrors, Ok
<1>3. /\ s \in Lines(AttestationErrors)
      /\ FirstError(s) = Ok => sig = Signature(leaf.key.id, "ES256", ToBeSigned(a))
  BY CertLine
<1>4. line \in Lines(AttestationErrors) /\ (FirstError(line) = Ok => FirstError(s) = Ok)
  <2> HIDE DEF k, s
  <2> QED
    BY <1>2, <1>3, FirstErrorOf1, BothPass
<1>5. ASSUME NEW anchors
      PROVE  Verify(a, anchors) = Then(line, VerifyX5cChain(chain, anchors))
  BY DEF Verify, VerifyAndroidKey
<1>6. FirstError(line) = Ok => BasicEvidence(a, chain)
  BY <1>1, <1>3, <1>4 DEF BasicEvidence
<1> HIDE DEF line, chain
<1> QED
  BY <1>1, <1>4, <1>5, <1>6, ChainAfter DEF Refused, Graded

\* apple: the leaf has the nonce (attestation.rs:830-906).
LEMMA AppleAnswer ==
    ASSUME NEW a, a.fmt = "apple"
    PROVE  Refused(a) \/ Graded(a)
<1>0. CASE Malformed(a.stmt, {"x5c"}, {})
  BY <1>0 DEF Refused, Verify, VerifyApple, AttestationErrors
<1> SUFFICES ASSUME ~Malformed(a.stmt, {"x5c"}, {})
             PROVE  Refused(a) \/ Graded(a)
  BY <1>0
<1> DEFINE chain == The(a.stmt.x5c)
           leaf  == Head(chain)
           n == Check(leaf.nonce = {}, "InvalidAttestationObject")
           o == Check(\E nonce \in leaf.nonce : nonce # ToBeSigned(a), "InvalidAttestationObject")
           k == Check({leaf.key} # P256Key(a.auth_data.public_key), "InvalidAttestationObject")
           line == <<n, o, k>>
<1>1. chain \in ChainsOf(a) /\ chain # <<>>
  BY DEF Malformed, The, ChainsOf, Nested
<1>2. /\ n \in Checks(AttestationErrors) /\ o \in Checks(AttestationErrors)
      /\ k \in Checks(AttestationErrors)
  BY DEF Checks, Check, AttestationErrors, Ok
<1>3. /\ n.failed <=> leaf.nonce = {}
      /\ o.failed <=> \E nonce \in leaf.nonce : nonce # ToBeSigned(a)
      /\ n.error # Ok /\ o.error # Ok /\ k.error # Ok
  BY DEF Check, Ok
<1>4. line \in Lines(AttestationErrors) /\ (FirstError(line) = Ok => ~n.failed /\ ~o.failed)
  <2> HIDE DEF n, o, k
  <2> QED
    BY <1>2, <1>3, FirstErrorOf3
<1>5. ASSUME NEW anchors
      PROVE  Verify(a, anchors) = Then(line, VerifyX5cChain(chain, anchors))
  BY DEF Verify, VerifyApple
<1>6. FirstError(line) = Ok => BasicEvidence(a, chain)
  BY <1>3, <1>4 DEF BasicEvidence
<1> HIDE DEF line, chain
<1> QED
  BY <1>1, <1>4, <1>5, <1>6, ChainAfter DEF Refused, Graded

\* pubArea: nothing is concluded from it but that its checks are checks.
LEMMA PubAreaLine ==
    ASSUME NEW pub_area, NEW key
    PROVE  VerifyPubAreaMatchesCredential(pub_area, key) \in Lines(AttestationErrors)
  BY DEF VerifyPubAreaMatchesCredential, Lines, Checks, Check, AttestationErrors, Ok

\* certInfo: when its checks pass, it covers the data.
LEMMA CertInfoLine ==
    ASSUME NEW cert_info, NEW data, NEW name
    PROVE  /\ VerifyCertInfo(cert_info, data, name) \in Lines(AttestationErrors)
           /\ FirstError(VerifyCertInfo(cert_info, data, name)) = Ok => cert_info.extra_data = data
<1> DEFINE f == Check(cert_info.form = "truncated", "InvalidAttestationObject")
           m == Check(cert_info.magic # "TPM_GENERATED_VALUE", "InvalidAttestationObject")
           t == Check(cert_info.type # "TPM_ST_ATTEST_CERTIFY", "InvalidAttestationObject")
           d == Check(cert_info.extra_data # data, "InvalidAttestationObject")
           n == Check(cert_info.name # name, "InvalidAttestationObject")
<1>1. /\ f \in Checks(AttestationErrors) /\ m \in Checks(AttestationErrors)
      /\ t \in Checks(AttestationErrors) /\ d \in Checks(AttestationErrors)
      /\ n \in Checks(AttestationErrors)
  BY DEF Checks, Check, AttestationErrors, Ok
<1>2. /\ d.failed <=> cert_info.extra_data # data
      /\ f.error # Ok /\ m.error # Ok /\ t.error # Ok /\ d.error # Ok /\ n.error # Ok
  BY DEF Check, Ok
<1>3. VerifyCertInfo(cert_info, data, name) = <<f, m, t, d, n>>
  BY DEF VerifyCertInfo
<1> HIDE DEF f, m, t, d, n
<1> QED
  BY <1>1, <1>2, <1>3, FirstErrorOf5

\* tpm: the leaf's key signed a certInfo of this data (attestation.rs:916-1084).
LEMMA TpmAnswer ==
    ASSUME NEW a, a.fmt = "tpm"
    PROVE  Refused(a) \/ Graded(a)
<1> DEFINE required == {"ver", "alg", "sig", "x5c", "cert_info", "pub_area"}
<1>0. CASE Malformed(a.stmt, required, {})
  BY <1>0 DEF Refused, Verify, VerifyTpm, AttestationErrors
<1> SUFFICES ASSUME ~Malformed(a.stmt, required, {})
             PROVE  Refused(a) \/ Graded(a)
  BY <1>0
<1> DEFINE alg       == The(a.stmt.alg)
           sig       == The(a.stmt.sig)
           chain     == The(a.stmt.x5c)
           leaf      == Head(chain)
           cert_info == The(a.stmt.cert_info)
           pub_area  == The(a.stmt.pub_area)
           e1 == Check(The(a.stmt.ver) # "2.0", "InvalidAttestationObject")
           e2 == Check(alg # CoseAlg(a.auth_data.public_key), "InvalidAttestationObject")
           e3 == Check(alg \notin {"ES256", "RS256"}, "UnsupportedAlgorithm")
           e4 == Check(leaf.key.kind # KindOf(alg), "InvalidAttestationObject")
           p == VerifyPubAreaMatchesCredential(pub_area, a.auth_data.public_key)
           c == VerifyCertInfo(cert_info, ToBeSigned(a), PubAreaName(pub_area))
           s == CertVerifies(leaf, alg, <<cert_info>>, sig)
           line == <<e1, e2, e3, e4>> \o p \o c \o s
<1>1. /\ sig \in a.stmt.sig /\ cert_info \in a.stmt.cert_info
      /\ chain \in ChainsOf(a) /\ chain # <<>>
  BY DEF Malformed, The, ChainsOf, Nested
<1>2. /\ e1 \in Checks(AttestationErrors) /\ e2 \in Checks(AttestationErrors)
      /\ e3 \in Checks(AttestationErrors) /\ e4 \in Checks(AttestationErrors)
  BY DEF Checks, Check, AttestationErrors, Ok
<1>3. /\ s \in Lines(AttestationErrors)
      /\ FirstError(s) = Ok => sig = Signature(leaf.key.id, alg, <<cert_info>>)
  BY CertLine
<1>4. /\ c \in Lines(AttestationErrors)
      /\ FirstError(c) = Ok => cert_info.extra_data = ToBeSigned(a)
  BY CertInfoLine
<1>5. p \in Lines(AttestationErrors)
  BY PubAreaLine
<1>6. /\ line \in Lines(AttestationErrors)
      /\ FirstError(line) = Ok => FirstError(c) = Ok /\ FirstError(s) = Ok
  <2> HIDE DEF e1, e2, e3, e4, p, c, s
  <2>1. <<e1, e2, e3, e4>> \in Lines(AttestationErrors)
    BY <1>2, FirstErrorOf4
  <2>2. <<e1, e2, e3, e4>> \o p \in Lines(AttestationErrors)
    BY <1>5, <2>1, BothPass
  <2>3. /\ <<e1, e2, e3, e4>> \o p \o c \in Lines(AttestationErrors)
        /\ FirstError(<<e1, e2, e3, e4>> \o p \o c) = Ok => FirstError(c) = Ok
    BY <1>4, <2>2, BothPass
  <2> QED
    BY <1>3, <2>3, BothPass
<1>7. ASSUME NEW anchors
      PROVE  Verify(a, anchors) = Then(line, VerifyX5cChain(chain, anchors))
  BY DEF Verify, VerifyTpm
<1>8. FirstError(line) = Ok => BasicEvidence(a, chain)
  BY <1>1, <1>3, <1>4, <1>6 DEF BasicEvidence
<1> HIDE DEF line, chain
<1> QED
  BY <1>1, <1>6, <1>7, <1>8, ChainAfter DEF Refused, Graded

\* android-safetynet: the leaf's key signed a response about this data
\* (attestation.rs:1102-1218).
LEMMA SafetynetAnswer ==
    ASSUME NEW a, a.fmt = "android-safetynet"
    PROVE  Refused(a) \/ Graded(a)
<1>0. CASE Malformed(a.stmt, {"ver", "response"}, {})
  BY <1>0 DEF Refused, Verify, VerifyAndroidSafetynet, AttestationErrors
<1> SUFFICES ASSUME ~Malformed(a.stmt, {"ver", "response"}, {})
             PROVE  Refused(a) \/ Graded(a)
  BY <1>0
<1> DEFINE jws   == The(a.stmt.response)
           chain == jws.x5c
           leaf  == Head(chain)
           m == Check(jws.form = "malformed", "InvalidAttestationObject")
           x == Check(jws.x5c = <<>>, "InvalidAttestationObject")
           split == <<m, x>>
           u == Check(jws.alg \notin {"ES256_JWS", "RS256"}, "InvalidAttestationObject")
           s == CertVerifies(leaf, jws.alg, SigningInput(jws), jws.signature)
           p == Check(jws.payload.form = "malformed", "InvalidAttestationObject")
           n == Check(jws.payload.nonce # ToBeSigned(a), "InvalidAttestationObject")
           h == Check(~leaf.valid \/ leaf.host # "attest.android.com", "InvalidAttestationObject")
           line == <<u>> \o s \o <<p, n, h>>
<1>1. jws \in a.stmt.response /\ chain \in ChainsOf(a)
  <2>1. jws \in a.stmt.response
    BY DEF Malformed, The
  <2> QED
    BY <2>1 DEF ChainsOf, Nested
<1>2. /\ m \in Checks(AttestationErrors) /\ x \in Checks(AttestationErrors)
      /\ u \in Checks(AttestationErrors) /\ p \in Checks(AttestationErrors)
      /\ n \in Checks(AttestationErrors) /\ h \in Checks(AttestationErrors)
  BY DEF Checks, Check, AttestationErrors, Ok
<1>3. /\ s \in Lines(AttestationErrors)
      /\ FirstError(s) = Ok => jws.signature = Signature(leaf.key.id, jws.alg, SigningInput(jws))
  BY CertLine
<1>4. /\ x.failed <=> chain = <<>>
      /\ n.failed <=> jws.payload.nonce # ToBeSigned(a)
      /\ m.error = "InvalidAttestationObject" /\ x.error = "InvalidAttestationObject"
      /\ p.error # Ok /\ n.error # Ok /\ h.error # Ok
  BY DEF Check, Ok
<1>5. \/ FirstError(split) = "InvalidAttestationObject"
      \/ FirstError(split) = Ok /\ ~x.failed
  <2> HIDE DEF m, x
  <2> QED
    BY <1>2, <1>4, FirstErrorOf2
<1>6. /\ line \in Lines(AttestationErrors)
      /\ FirstError(line) = Ok => FirstError(s) = Ok /\ ~n.failed
  <2> HIDE DEF u, s, p, n, h
  <2>1. /\ <<p, n, h>> \in Lines(AttestationErrors)
        /\ FirstError(<<p, n, h>>) = Ok => ~n.failed
    BY <1>2, <1>4, FirstErrorOf3
  <2> QED
    BY <1>2, <1>3, <2>1, FirstErrorOf1, BothPass
<1>7. ASSUME NEW anchors
      PROVE  Verify(a, anchors) = IF FirstError(split) # Ok THEN FirstError(split)
                                  ELSE Then(line, VerifyX5cChain(chain, anchors))
  BY DEF Verify, VerifyAndroidSafetynet, SplitJws
<1>8. FirstError(line) = Ok => BasicEvidence(a, chain)
  BY <1>1, <1>3, <1>4, <1>6 DEF BasicEvidence
<1>9. CASE FirstError(split) # Ok
  <2> HIDE DEF split, line, chain
  <2>1. \A anchors : Verify(a, anchors) = "InvalidAttestationObject"
    BY <1>5, <1>7, <1>9
  <2> QED
    BY <2>1 DEF Refused, AttestationErrors
<1>10. CASE FirstError(split) = Ok
  <2>1. chain # <<>>
    BY <1>4, <1>5, <1>10 DEF Ok
  <2> HIDE DEF split, line, chain
  <2> QED
    BY <1>1, <1>6, <1>7, <1>8, <1>10, <2>1, ChainAfter DEF Refused, Graded
<1> QED
  BY <1>9, <1>10

\* Together: whatever the statement is.
LEMMA VerifyAnswer ==
    ASSUME NEW a
    PROVE  \/ Refused(a)
           \/ Graded(a)
           \/ SelfAttested(a)
           \/ \A anchors : Verify(a, anchors) = "None"
<1>1. CASE a.fmt = "packed"
  <2>1. CASE Malformed(a.stmt, {"alg", "sig"}, {"x5c"})
    BY <1>1, <2>1 DEF Refused, Verify, VerifyPacked, AttestationErrors
  <2> QED
    BY <1>1, <2>1, PackedBasicAnswer, PackedSelfAnswer
<1>2. CASE a.fmt \notin {"packed", "fido-u2f", "android-key", "apple", "tpm", "android-safetynet"}
  BY <1>2 DEF Verify
<1> QED
  BY <1>1, <1>2, U2fAnswer, AndroidKeyAnswer, AppleAnswer, TpmAnswer, SafetynetAnswer

-----------------------------------------------------------------------------
(***************************************************************************)
(* What may arrive: whatever edits do to an attestation, its certificates  *)
(* were issued and its signatures were made.                               *)
(***************************************************************************)
IsObject(o) ==
    /\ DOMAIN o = {"fmt", "auth_data", "client_data", "stmt"}
    /\ DOMAIN o.stmt = {"form", "ill_typed"} \union Fields

\* As it was issued, or damaged.
FromIssued(c) == IsCertificate(c) /\ \E i \in Issued : c.key = i.key /\ c.nonce = i.nonce
IsChain(chain) == chain \in Seq(ToSet(chain)) /\ \A i \in DOMAIN chain : FromIssued(chain[i])

IsResponse(jws) ==
    /\ DOMAIN jws = {"form", "alg", "x5c", "payload", "signature"}
    /\ IsChain(jws.x5c)
    /\ \E made \in Attestations : \E sent \in made.object.stmt.response :
          jws.signature = sent.signature

Traceable(o) ==
    /\ IsObject(o)
    /\ \A chain \in o.stmt.x5c : IsChain(chain)
    /\ \A jws \in o.stmt.response : IsResponse(jws)
    /\ \A sig \in o.stmt.sig : \E made \in Attestations : sig \in made.object.stmt.sig
    /\ \A c, d \in o.stmt.x5c : c = d
    /\ \A j, k \in o.stmt.response : j = k

IInv ==
    /\ genuine \in Attestations
    /\ edits \in 0 .. MaxEdits
    /\ Traceable(message)

\* A sequence is one over the set of its elements.
LEMMA OwnElements ==
    ASSUME NEW S, NEW s \in Seq(S)
    PROVE  s \in Seq(ToSet(s))
  BY DEF ToSet

\* A damaged certificate has the key it was issued for.
LEMMA DamagedCertificate ==
    ASSUME NEW c, FromIssued(c)
    PROVE  FromIssued([c EXCEPT !.valid = FALSE])
  BY DEF FromIssued, IsCertificate

\* What is done to a chain on the way makes no certificate and no key.
LEMMA ChainEdits ==
    ASSUME NEW chain, IsChain(chain)
    PROVE  /\ \A i \in DOMAIN chain : IsChain(RemoveAt(chain, i))
           /\ \A i \in DOMAIN chain : IsChain([chain EXCEPT ![i].valid = FALSE])
           /\ IsChain(Reverse(chain))
           /\ \A cert \in Roots : IsChain(Append(chain, cert))
<1> DEFINE S == {c \in ToSet(chain) \union Roots
                         \union {[d EXCEPT !.valid = FALSE] : d \in ToSet(chain)} : FromIssued(c)}
<1>1. \A c \in ToSet(chain) : FromIssued(c) /\ FromIssued([c EXCEPT !.valid = FALSE])
  <2> SUFFICES ASSUME NEW i \in DOMAIN chain
               PROVE  FromIssued(chain[i]) /\ FromIssued([chain[i] EXCEPT !.valid = FALSE])
    BY DEF ToSet
  <2>1. FromIssued(chain[i])
    BY DEF IsChain
  <2> QED
    BY <2>1, DamagedCertificate
<1>2. \A c \in Roots : FromIssued(c)
  BY AttestationsAssumption DEF Issued, FromIssued
<1>3. chain \in Seq(S)
  BY <1>1 DEF IsChain
<1>4. \A s \in Seq(S) : IsChain(s)
  BY OwnElements DEF IsChain
<1>5. \A i \in DOMAIN chain : chain[i] \in ToSet(chain) /\ [chain[i] EXCEPT !.valid = FALSE] \in S
  BY <1>1 DEF ToSet
<1>6. Roots \subseteq S
  BY <1>2
<1> HIDE DEF S
<1>7. ASSUME NEW i \in DOMAIN chain
      PROVE  RemoveAt(chain, i) \in Seq(S) /\ [chain EXCEPT ![i].valid = FALSE] \in Seq(S)
  BY <1>3, <1>5 DEF RemoveAt
<1>8. Reverse(chain) \in Seq(S) /\ \A cert \in Roots : Append(chain, cert) \in Seq(S)
  BY <1>3, <1>6 DEF Reverse
<1> QED
  BY <1>4, <1>7, <1>8

\* The chain of an attestation, as it was sent.
LEMMA IssuedChain ==
    ASSUME NEW made \in Attestations, NEW chain \in ChainsOf(made.object),
           chain \in Seq(ToSet(chain))
    PROVE  IsChain(chain) /\ \A i \in DOMAIN chain : chain[i] \in Issued
<1>1. ToSet(chain) \subseteq Issued
  BY DEF Issued
<1>2. \A i \in DOMAIN chain : chain[i] \in Issued
  BY <1>1 DEF ToSet
<1> QED
  BY <1>2, AttestationsAssumption DEF IsChain, FromIssued

\* The parts of what authenticators make.
HasParts(o, fmt, ad, cd, sig, x5c, response) ==
    /\ IsObject(o)
    /\ o.fmt = fmt /\ o.auth_data = ad /\ o.client_data = cd
    /\ o.stmt.sig = sig /\ o.stmt.x5c = x5c /\ o.stmt.response = response

\* An object without a statement.
LEMMA EmptyParts ==
    ASSUME NEW fmt, NEW ad, NEW cd
    PROVE  HasParts(Object(fmt, ad, cd), fmt, ad, cd, {}, {}, {})
  BY DEF HasParts, Object, EmptyStatement, IsObject, Fields

\* What each kind of authenticator puts in.
LEMMA SelfParts ==
    ASSUME NEW ad, NEW cd
    PROVE  \E scheme : HasParts(AttestSelf(ad, cd), "packed", ad, cd,
             {Signature(ad.public_key.id, scheme, <<ad, cd>>)}, {}, {})
<1> DEFINE o == Object("packed", ad, cd)
           s == {Signature(ad.public_key.id, CoseAlg(ad.public_key), <<ad, cd>>)}
           p == [o EXCEPT !.stmt.alg = {CoseAlg(ad.public_key)}, !.stmt.sig = s]
<1>1. HasParts(o, "packed", ad, cd, {}, {}, {})
  BY EmptyParts
<1>2. AttestSelf(ad, cd) = p
  BY DEF AttestSelf
<1> HIDE DEF o, s
<1>3. HasParts(p, "packed", ad, cd, s, {}, {})
  BY <1>1 DEF HasParts, IsObject, Fields
<1> QED
  BY <1>2, <1>3 DEF s

\* With the leaf's key.
LEMMA PackedParts ==
    ASSUME NEW ad, NEW cd, NEW alg, NEW chain
    PROVE  HasParts(AttestPacked(ad, cd, alg, chain), "packed", ad, cd,
             {Signature(Head(chain).key.id, alg, <<ad, cd>>)}, {chain}, {})
<1> DEFINE o == Object("packed", ad, cd)
           s == {Signature(Head(chain).key.id, alg, <<ad, cd>>)}
           p == [o EXCEPT !.stmt.alg = {alg}, !.stmt.x5c = {chain}, !.stmt.sig = s]
<1>1. HasParts(o, "packed", ad, cd, {}, {}, {})
  BY EmptyParts
<1>2. AttestPacked(ad, cd, alg, chain) = p
  BY DEF AttestPacked
<1> HIDE DEF o, s
<1>3. HasParts(p, "packed", ad, cd, s, {chain}, {})
  BY <1>1 DEF HasParts, IsObject, Fields
<1> QED
  BY <1>2, <1>3 DEF s

\* With the leaf's key, which is the credential's.
LEMMA AndroidKeyParts ==
    ASSUME NEW ad, NEW cd, NEW chain
    PROVE  HasParts(AttestAndroidKey(ad, cd, chain), "android-key", ad, cd,
             {Signature(Head(chain).key.id, "ES256", <<ad, cd>>)}, {chain}, {})
<1> DEFINE o == AttestPacked(ad, cd, "ES256", chain)
           s == {Signature(Head(chain).key.id, "ES256", <<ad, cd>>)}
           p == [o EXCEPT !.fmt = "android-key"]
<1>1. HasParts(o, "packed", ad, cd, s, {chain}, {})
  BY PackedParts
<1>2. AttestAndroidKey(ad, cd, chain) = p
  BY DEF AttestAndroidKey
<1> HIDE DEF o, s
<1>3. HasParts(p, "android-key", ad, cd, s, {chain}, {})
  BY <1>1 DEF HasParts, IsObject, Fields
<1> QED
  BY <1>2, <1>3 DEF s

\* Over the parts that fido-u2f signs.
LEMMA U2fParts ==
    ASSUME NEW ad, NEW cd, NEW chain
    PROVE  HasParts(AttestU2f(ad, cd, chain), "fido-u2f", ad, cd,
             {Signature(Head(chain).key.id, "ES256",
                        <<ad.rp_id, cd, ad.credential_id, ad.public_key>>)}, {chain}, {})
<1> DEFINE o == Object("fido-u2f", ad, cd)
           s == {Signature(Head(chain).key.id, "ES256",
                           <<ad.rp_id, cd, ad.credential_id, ad.public_key>>)}
           p == [o EXCEPT !.stmt.x5c = {chain}, !.stmt.sig = s]
<1>1. HasParts(o, "fido-u2f", ad, cd, {}, {}, {})
  BY EmptyParts
<1>2. AttestU2f(ad, cd, chain) = p
  BY <1>1 DEF AttestU2f, U2fData, HasParts
<1> HIDE DEF o, s
<1>3. HasParts(p, "fido-u2f", ad, cd, s, {chain}, {})
  BY <1>1 DEF HasParts, IsObject, Fields
<1> QED
  BY <1>2, <1>3 DEF s

\* In the leaf, and no signature.
LEMMA AppleParts ==
    ASSUME NEW ad, NEW cd, NEW chain
    PROVE  HasParts(AttestApple(ad, cd, chain), "apple", ad, cd,
             {}, {[chain EXCEPT ![1].nonce = {<<ad, cd>>}]}, {})
<1> DEFINE o == Object("apple", ad, cd)
           x == {[chain EXCEPT ![1].nonce = {<<ad, cd>>}]}
           p == [o EXCEPT !.stmt.x5c = x]
<1>1. HasParts(o, "apple", ad, cd, {}, {}, {})
  BY EmptyParts
<1>2. AttestApple(ad, cd, chain) = p
  BY DEF AttestApple
<1> HIDE DEF o, x
<1>3. HasParts(p, "apple", ad, cd, {}, x, {})
  BY <1>1 DEF HasParts, IsObject, Fields
<1> QED
  BY <1>2, <1>3 DEF x

\* A TPM signs a certInfo that covers the data, and nothing else.
LEMMA TpmParts ==
    ASSUME NEW ad, NEW cd, NEW chain
    PROVE  \E scheme, cert_info :
             /\ cert_info.extra_data = <<ad, cd>>
             /\ HasParts(AttestTpm(ad, cd, chain), "tpm", ad, cd,
                  {Signature(Head(chain).key.id, scheme, <<cert_info>>)}, {chain}, {})
<1> DEFINE pub_area == [form |-> "whole", name_alg |-> "SHA256", unique |-> ad.public_key.id,
                        type |-> IF ad.public_key.kty = "RSA" THEN "RSA" ELSE "ECC"]
           cert_info == [form |-> "whole", magic |-> "TPM_GENERATED_VALUE",
                         type |-> "TPM_ST_ATTEST_CERTIFY", extra_data |-> <<ad, cd>>,
                         name |-> PubAreaName(pub_area)]
           alg == CoseAlg(ad.public_key)
           o == Object("tpm", ad, cd)
           s == {Signature(Head(chain).key.id, alg, <<cert_info>>)}
           p == [o EXCEPT !.stmt.ver = {"2.0"}, !.stmt.alg = {alg}, !.stmt.x5c = {chain},
                          !.stmt.pub_area = {pub_area}, !.stmt.cert_info = {cert_info},
                          !.stmt.sig = s]
<1>1. HasParts(o, "tpm", ad, cd, {}, {}, {})
  BY EmptyParts
<1>2. AttestTpm(ad, cd, chain) = p
  BY DEF AttestTpm
<1>3. cert_info.extra_data = <<ad, cd>>
  OBVIOUS
<1> HIDE DEF o, s, alg, pub_area, cert_info
<1>4. HasParts(p, "tpm", ad, cd, s, {chain}, {})
  BY <1>1 DEF HasParts, IsObject, Fields
<1> QED
  BY <1>2, <1>3, <1>4 DEF s

\* A SafetyNet response signs a payload that covers the data.
LEMMA SafetynetParts ==
    ASSUME NEW ad, NEW cd, NEW alg, NEW chain
    PROVE  \E payload, jws :
             /\ payload.nonce = <<ad, cd>>
             /\ jws.x5c = chain
             /\ jws.signature = Signature(Head(chain).key.id, alg, <<alg, chain, payload>>)
             /\ DOMAIN jws = {"form", "alg", "x5c", "payload", "signature"}
             /\ HasParts(AttestSafetynet(ad, cd, alg, chain), "android-safetynet", ad, cd,
                  {}, {}, {jws})
<1> DEFINE payload == [form |-> "ok", nonce |-> <<ad, cd>>]
           jws == [form |-> "ok", alg |-> alg, x5c |-> chain, payload |-> payload,
                   signature |-> Signature(Head(chain).key.id, alg, <<alg, chain, payload>>)]
           o == Object("android-safetynet", ad, cd)
           p == [o EXCEPT !.stmt.ver = {"1"}, !.stmt.response = {jws}]
<1>1. HasParts(o, "android-safetynet", ad, cd, {}, {}, {})
  BY EmptyParts
<1>2. AttestSafetynet(ad, cd, alg, chain) = p
  BY DEF AttestSafetynet
<1>3. /\ payload.nonce = <<ad, cd>> /\ jws.x5c = chain
      /\ jws.signature = Signature(Head(chain).key.id, alg, <<alg, chain, payload>>)
      /\ DOMAIN jws = {"form", "alg", "x5c", "payload", "signature"}
  OBVIOUS
<1> HIDE DEF o, payload, jws
<1>4. HasParts(p, "android-safetynet", ad, cd, {}, {}, {jws})
  BY <1>1 DEF HasParts, IsObject, Fields
<1> QED
  BY <1>2, <1>3, <1>4

\* Each attestation is of one of the kinds, with the parts of that kind.
KeyVouches(made, key) ==
    /\ "Basic" \in made.vouches \/ \A c \in Issued : c.key.id # key
    /\ "SelfAttestation" \in made.vouches \/ key # made.object.auth_data.public_key.id
SignedBy(made, sig) ==
    LET o == made.object
    IN  \E key, scheme :
          \/ sig = Signature(key, scheme, ToBeSigned(o)) /\ KeyVouches(made, key)
          \/ /\ sig = Signature(key, scheme, U2fData(o))
             /\ o.fmt = "fido-u2f" /\ "Basic" \in made.vouches
          \/ \E cert_info : /\ sig = Signature(key, scheme, <<cert_info>>)
                            /\ cert_info.extra_data = ToBeSigned(o)
                            /\ "Basic" \in made.vouches
ResponseBy(made, jws) ==
    \E key, scheme, payload, header, chain :
        /\ jws.signature = Signature(key, scheme, <<header, chain, payload>>)
        /\ payload.nonce = ToBeSigned(made.object)
        /\ "Basic" \in made.vouches

IsAttested(made) ==
    LET stmt == made.object.stmt
    IN  /\ IsObject(made.object)
        /\ \A sig \in stmt.sig : SignedBy(made, sig)
        /\ \/ stmt.x5c = {} /\ stmt.response = {}
           \/ \E chain : stmt.x5c = {chain} /\ stmt.response = {} /\ IsChain(chain)
           \/ \E jws : /\ stmt.x5c = {} /\ stmt.response = {jws}
                       /\ DOMAIN jws = {"form", "alg", "x5c", "payload", "signature"}
                       /\ IsChain(jws.x5c) /\ ResponseBy(made, jws)

\* What an authenticator made has the parts of its kind, and no others.
LEMMA AllAttested ==
    ASSUME NEW made \in Attestations
    PROVE  IsAttested(made)
<1> DEFINE o     == made.object
           ad    == o.auth_data
           cd    == o.client_data
           alg   == The(o.stmt.alg)
           chain == The(o.stmt.x5c)
           jws   == The(o.stmt.response)
<1>1. IsMade(made)
  BY AttestationsAssumption
<1>a. IsBasic(made) => \A c \in ChainsOf(o) : IsChain(c)
  BY IssuedChain DEF IsBasic
<1>2. CASE o.fmt = "none"
  <2>1. o = AttestNone(ad, cd)
    BY <1>1, <1>2 DEF IsMade
  <2>2. HasParts(o, "none", ad, cd, {}, {}, {})
    BY <2>1, EmptyParts DEF AttestNone
  <2> QED
    BY <2>2 DEF HasParts, IsAttested
<1>3. CASE o.fmt = "packed" /\ o.stmt.x5c = {}
  <2>1. /\ o = AttestSelf(ad, cd)
        /\ "SelfAttestation" \in made.vouches
        /\ \A c \in Issued : c.key.id # ad.public_key.id
    BY <1>1, <1>3 DEF IsMade
  <2>2. PICK scheme : HasParts(o, "packed", ad, cd,
                        {Signature(ad.public_key.id, scheme, <<ad, cd>>)}, {}, {})
    <3> HIDE DEF o, ad, cd
    <3> QED
      BY <2>1, SelfParts
  <2>3. SignedBy(made, Signature(ad.public_key.id, scheme, <<ad, cd>>))
    BY <2>1 DEF SignedBy, KeyVouches, ToBeSigned
  <2> QED
    BY <2>2, <2>3 DEF HasParts, IsAttested
<1>4. CASE o.fmt = "packed" /\ o.stmt.x5c # {}
  <2>1. /\ o = AttestPacked(ad, cd, alg, chain) /\ IsBasic(made)
        /\ Head(chain).key.id # ad.public_key.id
    BY <1>1, <1>4 DEF IsMade
  <2>2. HasParts(o, "packed", ad, cd, {Signature(Head(chain).key.id, alg, <<ad, cd>>)}, {chain}, {})
    <3> HIDE DEF o, ad, cd, alg, chain
    <3> QED
      BY <2>1, PackedParts
  <2>3. SignedBy(made, Signature(Head(chain).key.id, alg, <<ad, cd>>))
    BY <2>1 DEF SignedBy, KeyVouches, ToBeSigned, IsBasic
  <2>4. IsChain(chain)
    BY <1>4, <1>a, <2>1, <2>2 DEF HasParts, ChainsOf, Nested
  <2> QED
    BY <2>2, <2>3, <2>4 DEF HasParts, IsAttested
<1>5. CASE o.fmt = "android-key"
  <2>1. /\ o = AttestAndroidKey(ad, cd, chain) /\ IsBasic(made)
        /\ "SelfAttestation" \in made.vouches
    BY <1>1, <1>5 DEF IsMade
  <2>2. HasParts(o, "android-key", ad, cd,
                 {Signature(Head(chain).key.id, "ES256", <<ad, cd>>)}, {chain}, {})
    <3> HIDE DEF o, ad, cd, chain
    <3> QED
      BY <2>1, AndroidKeyParts
  <2>3. SignedBy(made, Signature(Head(chain).key.id, "ES256", <<ad, cd>>))
    BY <2>1 DEF SignedBy, KeyVouches, ToBeSigned, IsBasic
  <2>4. IsChain(chain)
    BY <1>a, <2>1, <2>2 DEF HasParts, ChainsOf, Nested
  <2> QED
    BY <2>2, <2>3, <2>4 DEF HasParts, IsAttested
<1>6. CASE o.fmt = "fido-u2f"
  <2>1. o = AttestU2f(ad, cd, chain) /\ IsBasic(made)
    BY <1>1, <1>6 DEF IsMade
  <2>2. HasParts(o, "fido-u2f", ad, cd,
                 {Signature(Head(chain).key.id, "ES256",
                            <<ad.rp_id, cd, ad.credential_id, ad.public_key>>)}, {chain}, {})
    <3> HIDE DEF o, ad, cd, chain
    <3> QED
      BY <2>1, U2fParts
  <2>3. SignedBy(made, Signature(Head(chain).key.id, "ES256",
                                 <<ad.rp_id, cd, ad.credential_id, ad.public_key>>))
    BY <1>6, <2>1 DEF SignedBy, U2fData, IsBasic
  <2>4. IsChain(chain)
    BY <1>a, <2>1, <2>2 DEF HasParts, ChainsOf, Nested
  <2> QED
    BY <2>2, <2>3, <2>4 DEF HasParts, IsAttested
<1>7. CASE o.fmt = "apple"
  <2>1. o = AttestApple(ad, cd, chain) /\ IsBasic(made)
    BY <1>1, <1>7 DEF IsMade
  <2> DEFINE with_nonce == [chain EXCEPT ![1].nonce = {<<ad, cd>>}]
  <2>2. HasParts(o, "apple", ad, cd, {}, {with_nonce}, {})
    <3> HIDE DEF o, ad, cd, chain
    <3> QED
      BY <2>1, AppleParts
  <2> HIDE DEF with_nonce
  <2>3. IsChain(with_nonce)
    BY <1>a, <2>1, <2>2 DEF HasParts, ChainsOf, Nested
  <2> QED
    BY <2>2, <2>3 DEF HasParts, IsAttested
<1>8. CASE o.fmt = "tpm"
  <2>1. o = AttestTpm(ad, cd, chain) /\ IsBasic(made)
    BY <1>1, <1>8 DEF IsMade
  <2>2. PICK scheme, cert_info :
          /\ cert_info.extra_data = <<ad, cd>>
          /\ HasParts(o, "tpm", ad, cd,
                {Signature(Head(chain).key.id, scheme, <<cert_info>>)}, {chain}, {})
    <3> HIDE DEF o, ad, cd, chain
    <3> QED
      BY <2>1, TpmParts
  <2>3. SignedBy(made, Signature(Head(chain).key.id, scheme, <<cert_info>>))
    BY <2>1, <2>2 DEF SignedBy, ToBeSigned, IsBasic
  <2>4. IsChain(chain)
    BY <1>a, <2>1, <2>2 DEF HasParts, ChainsOf, Nested
  <2> QED
    BY <2>2, <2>3, <2>4 DEF HasParts, IsAttested
<1>9. CASE o.fmt = "android-safetynet"
  <2>1. o = AttestSafetynet(ad, cd, jws.alg, jws.x5c) /\ IsBasic(made)
    BY <1>1, <1>9 DEF IsMade
  <2>2. PICK payload, j :
          /\ payload.nonce = <<ad, cd>>
          /\ j.signature = Signature(Head(jws.x5c).key.id, jws.alg, <<jws.alg, jws.x5c, payload>>)
          /\ DOMAIN j = {"form", "alg", "x5c", "payload", "signature"}
          /\ HasParts(o, "android-safetynet", ad, cd, {}, {}, {j})
    <3> HIDE DEF o, ad, cd, jws
    <3> QED
      BY <2>1, SafetynetParts
  <2>3. ResponseBy(made, j)
    BY <2>1, <2>2 DEF ResponseBy, ToBeSigned, IsBasic
  <2>4. IsChain(j.x5c)
    BY <1>a, <2>1, <2>2 DEF HasParts, ChainsOf, Nested
  <2> QED
    BY <2>2, <2>3, <2>4 DEF HasParts, IsAttested
<1> QED
  BY <1>1, <1>2, <1>3, <1>4, <1>5, <1>6, <1>7, <1>8, <1>9 DEF IsMade

\* So what is sent is what may arrive.
LEMMA MadeTraceable ==
    ASSUME NEW made \in Attestations
    PROVE  Traceable(made.object)
<1>1. IsAttested(made)
  BY AllAttested
<1> QED
  BY <1>1 DEF IsAttested, Traceable, IsResponse

\* A field of the statement is replaced.
LEMMA FieldReplaced ==
    ASSUME NEW o, Traceable(o), NEW field \in {"form", "ill_typed"} \union Fields, NEW value,
           field = "sig" =>
               \A sig \in value : \E made \in Attestations : sig \in made.object.stmt.sig,
           field = "x5c" => (\A c \in value : IsChain(c)) /\ (\A c, d \in value : c = d),
           field = "response" => (\A j \in value : IsResponse(j)) /\ (\A j, k \in value : j = k)
    PROVE  Traceable([o EXCEPT !.stmt[field] = value])
<1> DEFINE p == [o EXCEPT !.stmt[field] = value]
<1>1. IsObject(p) /\ p.stmt = [o.stmt EXCEPT ![field] = value] /\ DOMAIN p.stmt = DOMAIN o.stmt
  BY DEF Traceable, IsObject
<1>2. \A f \in DOMAIN o.stmt : p.stmt[f] = IF f = field THEN value ELSE o.stmt[f]
  BY <1>1
<1>3. /\ p.stmt.sig = IF field = "sig" THEN value ELSE o.stmt.sig
      /\ p.stmt.x5c = IF field = "x5c" THEN value ELSE o.stmt.x5c
      /\ p.stmt.response = IF field = "response" THEN value ELSE o.stmt.response
  BY <1>2 DEF Traceable, IsObject, Fields
<1> HIDE DEF p
<1>4. Traceable(p)
  BY <1>1, <1>3 DEF Traceable
<1> QED
  BY <1>4 DEF p

\* What is around it is replaced.
LEMMA RestReplaced ==
    ASSUME NEW o, Traceable(o), NEW value
    PROVE  /\ Traceable([o EXCEPT !.fmt = value])
           /\ \A part : Traceable([o EXCEPT !.auth_data[part] = value])
           /\ Traceable([o EXCEPT !.client_data = value])
  BY DEF Traceable, IsObject

\* The chain is replaced where it is read from.
LEMMA ChainReplaced ==
    ASSUME Traceable(message), NEW chain, IsChain(chain)
    PROVE  Traceable(WithChain(chain))
<1>1. CASE ~Nested(message)
  <2>1. Traceable([message EXCEPT !.stmt["x5c"] = {chain}])
    BY FieldReplaced DEF Fields
  <2> QED
    BY <1>1, <2>1 DEF WithChain
<1>2. CASE Nested(message)
  <2> DEFINE value == {[jws EXCEPT !.x5c = chain] : jws \in message.stmt.response}
  <2>1. \A jws \in value : IsResponse(jws)
    BY DEF Traceable, IsResponse
  <2>2. \A j, k \in value : j = k
    BY DEF Traceable
  <2>3. Traceable([message EXCEPT !.stmt["response"] = value])
    <3> HIDE DEF value
    <3> QED
      BY <2>1, <2>2, FieldReplaced DEF Fields
  <2> QED
    BY <1>2, <2>3 DEF WithChain
<1> QED
  BY <1>1, <1>2

\* The chain that is read from a message consists of issued certificates.
LEMMA ChainOfMessage ==
    ASSUME Traceable(message), NEW chain \in Chains
    PROVE  IsChain(chain)
  BY DEF Traceable, Chains, ChainsOf, IsResponse

\* What is sent is traceable to authenticators.
LEMMA InitIInv ==
    ASSUME Init
    PROVE  IInv
  BY MadeTraceable, EditsAssumption DEF Init, IInv

\* It stays so whatever happens on the way.
LEMMA NextIInv ==
    ASSUME IInv, [Next]_vars
    PROVE  IInv'
<1>1. ASSUME NEW object, Edit(object), Traceable(object)
      PROVE  IInv'
  BY <1>1, EditsAssumption DEF IInv, Edit
<1>2. Traceable(message)
  BY DEF IInv
<1>3. ASSUME NEW field \in Fields, Omit(field)
      PROVE  IInv'
  <2>1. Traceable([message EXCEPT !.stmt[field] = {}])
    BY <1>2, FieldReplaced
  <2> QED
    BY <1>1, <1>3, <2>1 DEF Omit
<1>4. ASSUME NEW field \in Fields, Mistype(field)
      PROVE  IInv'
  <2>1. Traceable([message EXCEPT !.stmt["ill_typed"] = message.stmt.ill_typed \union {field}])
    BY <1>2, FieldReplaced
  <2> QED
    BY <1>1, <1>4, <2>1 DEF Mistype
<1>5. ASSUME NotAMap
      PROVE  IInv'
  <2>1. Traceable([message EXCEPT !.stmt["form"] = "other"])
    BY <1>2, FieldReplaced
  <2> QED
    BY <1>1, <1>5, <2>1 DEF NotAMap
<1>6. ASSUME NEW made \in Attestations, Mix(made.object)
      PROVE  IInv'
  <2> DEFINE other == made.object
  <2>1. Traceable(other)
    BY MadeTraceable
  <2>2. CASE TakeFormat(other)
    BY <1>1, <1>2, <2>2, RestReplaced DEF TakeFormat
  <2>3. ASSUME NEW field \in Fields, TakeField(other, field)
        PROVE  IInv'
    <3> DEFINE value == other.stmt[field]
    <3>1. /\ field = "sig" =>
                \A sig \in value : \E m \in Attestations : sig \in m.object.stmt.sig
          /\ field = "x5c" => (\A c \in value : IsChain(c)) /\ (\A c, d \in value : c = d)
          /\ field = "response" =>
                (\A j \in value : IsResponse(j)) /\ (\A j, k \in value : j = k)
      BY <2>1 DEF Traceable
    <3>2. Traceable([message EXCEPT !.stmt[field] = value])
      <4> HIDE DEF value
      <4> QED
        BY <1>2, <3>1, FieldReplaced
    <3> QED
      BY <1>1, <2>3, <3>2 DEF TakeField
  <2>4. ASSUME NEW part, TakeAuthData(other, part)
        PROVE  IInv'
    BY <1>1, <1>2, <2>4, RestReplaced DEF TakeAuthData
  <2>5. CASE TakeClientData(other)
    BY <1>1, <1>2, <2>5, RestReplaced DEF TakeClientData
  <2> QED
    BY <1>6, <2>2, <2>3, <2>4, <2>5 DEF Mix
<1>7. ASSUME NEW i, DropCert(i)
      PROVE  IInv'
  BY <1>1, <1>2, <1>7, ChainOfMessage, ChainEdits, ChainReplaced DEF DropCert
<1>8. ASSUME NEW i, GarbleCert(i)
      PROVE  IInv'
  BY <1>1, <1>2, <1>8, ChainOfMessage, ChainEdits, ChainReplaced DEF GarbleCert
<1>9. ASSUME ReverseChain
      PROVE  IInv'
  BY <1>1, <1>2, <1>9, ChainOfMessage, ChainEdits, ChainReplaced DEF ReverseChain
<1>10. ASSUME NEW cert \in Roots, AppendCert(cert)
       PROVE  IInv'
  BY <1>1, <1>2, <1>10, ChainOfMessage, ChainEdits, ChainReplaced DEF AppendCert
<1>11. ASSUME NEW field \in {"cert_info", "pub_area"}, Truncate(field)
       PROVE  IInv'
  <2> DEFINE value == {[blob EXCEPT !.form = "truncated"] : blob \in message.stmt[field]}
  <2>1. Traceable([message EXCEPT !.stmt[field] = value])
    <3> HIDE DEF value
    <3> QED
      BY <1>2, FieldReplaced DEF Fields
  <2> QED
    BY <1>1, <1>11, <2>1 DEF Truncate
<1>12. CASE UNCHANGED vars
  BY <1>12 DEF IInv, vars, Traceable, IsObject
<1> QED
  BY <1>3, <1>4, <1>5, <1>6, <1>7, <1>8, <1>9, <1>10, <1>11, <1>12 DEF Next

\* So is whatever arrives.
LEMMA Invariance == Spec => []IInv
  BY InitIInv, NextIInv, PTL DEF Spec

-----------------------------------------------------------------------------
(***************************************************************************)
(* The properties.                                                         *)
(***************************************************************************)

\* Whatever reaches the relying party is answered with an AttestationType or an
\* error of an attestation, never with one of the metadata service
\* (attestation.rs:376-447).
THEOREM TypeCorrectness == Spec => []TypeOK
<1>1. \A anchors : Verify(message, anchors) \in AttestationTypes \union AttestationErrors
  BY VerifyAnswer DEF Refused, Graded, SelfAttested, ChainAnswer, AttestationTypes,
                      AttestationErrors
<1>2. IInv => TypeOK
  BY <1>1 DEF TypeOK, IInv
<1> QED
  BY <1>2, Invariance, PTL

\* A whole chain whose last certificate is signed by `anchor` carries the
\* anchor's word to its leaf.
LEMMA WholeChainCertified ==
    ASSUME NEW chain, chain \in Seq(ToSet(chain)), chain # <<>>, Whole(chain),
           NEW anchor, CertSignedBy(Last(chain), anchor)
    PROVE  CertifiedBy(chain, anchor.key)
<1> DEFINE certs == ToSet(chain)
<1> SUFFICES ASSUME NEW keys \in SUBSET {c.key : c \in certs},
                    \A c \in certs : c.signer \in keys \union {anchor.key} => c.key \in keys
             PROVE  Head(chain).key \in keys
  BY DEF CertifiedBy
<1>1. \A i \in 1 .. Len(chain) : chain[i] \in certs
  BY DEF ToSet
<1> DEFINE T == {i \in 1 .. Len(chain) : chain[i].key \in keys}
<1>2. Len(chain) \in T
  BY <1>1 DEF CertSignedBy, Last
<1>3. PICK m \in T : \A i \in T : m <= i
  <2> HIDE DEF T
  <2>1. T \subseteq Nat
    BY DEF T
  <2> QED
    BY <1>2, <2>1, LeastNumber
<1>4. ASSUME m > 1
      PROVE  FALSE
  <2>1. m - 1 \in 1 .. Len(chain) - 1 /\ (m - 1) + 1 = m
    BY <1>4
  <2>2. Linked(chain[m - 1], chain[m])
    BY <2>1 DEF Whole
  <2>3. chain[m - 1].signer = chain[m].key
    BY <2>2 DEF Linked, CertSignedBy
  <2>4. m - 1 \in T
    BY <1>1, <2>1, <2>3
  <2> QED
    BY <1>3, <2>1, <2>4
<1> QED
  BY <1>3, <1>4

\* BasicVerified is given only to a leaf that a trust anchor certified, directly
\* or through the others, for chains of any length (attestation.rs:110,
\* 262-285).
THEOREM AnchoredLeavesCertified == Spec => []AnchoredLeafCertified
<1>1. ASSUME IInv
      PROVE  AnchoredLeafCertified
  <2> SUFFICES ASSUME NEW anchors \in SUBSET Roots, Verify(message, anchors) = "BasicVerified",
                      NEW chain \in Chains
               PROVE  \E anchor \in anchors : CertifiedBy(chain, anchor.key)
    BY DEF AnchoredLeafCertified
  <2>1. Graded(message)
    BY VerifyAnswer DEF Refused, SelfAttested, AttestationErrors
  <2>2. PICK certs \in Chains : /\ certs # <<>>
                               /\ Verify(message, anchors) = ChainAnswer(certs, anchors)
    BY <2>1 DEF Graded, Chains
  <2>3. certs = chain
    BY <1>1 DEF IInv, Traceable, Chains, ChainsOf
  <2>4. Whole(chain) /\ Anchored(chain, anchors)
    BY <2>2, <2>3 DEF ChainAnswer
  <2>5. chain \in Seq(ToSet(chain))
    BY <1>1, ChainOfMessage DEF IInv, IsChain
  <2> QED
    BY <2>2, <2>3, <2>4, <2>5, WholeChainCertified DEF Anchored
<1> QED
  BY <1>1, Invariance, PTL

\* Trust anchors only ever take away, whatever the statement
\* (registration.rs:326-347, attestation.rs:262-285).
THEOREM AnchorsOnlyTakeAway == Spec => []AnchorsOnlyRestrict
<1>1. ASSUME IInv
      PROVE  AnchorsOnlyRestrict
  <2> DEFINE without == Verify(message, {})
  <2> SUFFICES ASSUME NEW anchors \in (SUBSET Roots) \ {{}}
               PROVE  LET with == Verify(message, anchors)
                      IN  /\ without \in AttestationErrors \union {"None", "SelfAttestation"} =>
                               with = without
                          /\ without = "Basic" =>
                               \/ with \in {"BasicVerified", "AttestationRootUntrusted"}
                               \/ with = "AttestationChainInvalid"
                                    /\ \E chain \in Chains : Len(chain) = 1 /\ ~Head(chain).valid
                          /\ with = "BasicVerified" =>
                               \A more \in SUBSET Roots :
                                   anchors \subseteq more => Verify(message, more) = "BasicVerified"
    BY DEF AnchorsOnlyRestrict
  <2>1. CASE Refused(message)
    BY <2>1 DEF Refused, AttestationErrors
  <2>2. CASE SelfAttested(message) \/ \A any : Verify(message, any) = "None"
    BY <2>2 DEF SelfAttested, AttestationErrors
  <2>3. CASE Graded(message)
    <3>1. PICK certs \in Chains : /\ certs # <<>>
                                 /\ \A any : Verify(message, any) = ChainAnswer(certs, any)
      BY <2>3 DEF Graded, Chains
    <3>2. certs \in Seq(ToSet(certs))
      BY <1>1, ChainOfMessage DEF IInv, IsChain
    <3>3. Whole(certs) /\ ~Last(certs).valid => Len(certs) = 1 /\ ~Head(certs).valid
      <4>1. Len(certs) \in Nat \ {0}
        BY <3>1, <3>2, EmptySeq
      <4>2. ASSUME Whole(certs), Len(certs) # 1
            PROVE  Last(certs).valid
        <5>1. Len(certs) - 1 \in 1 .. Len(certs) - 1 /\ Len(certs) - 1 + 1 = Len(certs)
          BY <4>1, <4>2
        <5>2. Linked(certs[Len(certs) - 1], certs[Len(certs)])
          BY <4>2, <5>1 DEF Whole
        <5> QED
          BY <5>2 DEF Linked, Last
      <4>3. Len(certs) = 1 => Head(certs) = Last(certs)
        BY <3>2 DEF Last
      <4> QED
        BY <4>2, <4>3
    <3>4. \A more : anchors \subseteq more /\ Anchored(certs, anchors) => Anchored(certs, more)
      BY DEF Anchored
    <3> QED
      BY <3>1, <3>3, <3>4 DEF ChainAnswer, AttestationErrors
  <2> QED
    BY <2>1, <2>2, <2>3, VerifyAnswer
<1> QED
  BY <1>1, Invariance, PTL

\* Signatures over different things are different.
LEMMA SignaturesDiffer ==
    ASSUME NEW k1, NEW s1, NEW d1, NEW k2, NEW s2, NEW d2,
           Signature(k1, s1, d1) = Signature(k2, s2, d2)
    PROVE  k1 = k2 /\ s1 = s2 /\ d1 = d2
  BY DEF Signature

\* What a TPM signs, what most formats sign, what SafetyNet signs and what fido-u2f
\* signs have different lengths: none is taken for another.
LEMMA TuplesDiffer ==
    ASSUME NEW a, NEW b, NEW c, NEW d, NEW e, NEW f, NEW g, NEW h, NEW i, NEW j
    PROVE  /\ <<a>> # <<b, c>> /\ <<a>> # <<d, e, f>> /\ <<a>> # <<g, h, i, j>>
           /\ <<b, c>> # <<d, e, f>> /\ <<b, c>> # <<g, h, i, j>>
           /\ <<d, e, f>> # <<g, h, i, j>>
<1>1. /\ Len(<<a>>) = 1 /\ Len(<<b, c>>) = 2 /\ Len(<<d, e, f>>) = 3
      /\ Len(<<g, h, i, j>>) = 4
  OBVIOUS
<1> QED
  BY <1>1

\* The leaf of a chain that arrives was issued with its key and its nonce.
LEMMA LeafIssued ==
    ASSUME IInv, NEW chain \in ChainsOf(message), chain # <<>>
    PROVE  \E c \in Issued : c.key = Head(chain).key /\ c.nonce = Head(chain).nonce
<1>1. IsChain(chain)
  BY ChainOfMessage DEF IInv, Chains
<1>2. 1 \in DOMAIN chain
  BY <1>1 DEF IsChain
<1> QED
  BY <1>1, <1>2 DEF IsChain, FromIssued

\* A signature that arrives was made by an authenticator.
LEMMA SignatureMade ==
    ASSUME IInv, NEW key, NEW scheme, NEW data, Signature(key, scheme, data) \in message.stmt.sig
    PROVE  \E made \in Attestations :
             \/ data = ToBeSigned(made.object) /\ KeyVouches(made, key)
             \/ /\ data = U2fData(made.object)
                /\ made.object.fmt = "fido-u2f" /\ "Basic" \in made.vouches
             \/ \E cert_info : /\ data = <<cert_info>>
                               /\ cert_info.extra_data = ToBeSigned(made.object)
                               /\ "Basic" \in made.vouches
<1>1. PICK made \in Attestations : Signature(key, scheme, data) \in made.object.stmt.sig
  BY DEF IInv, Traceable
<1>2. SignedBy(made, Signature(key, scheme, data))
  BY <1>1, AllAttested DEF IsAttested
<1> DEFINE o == made.object
<1>3. PICK k, s :
        \/ Signature(key, scheme, data) = Signature(k, s, ToBeSigned(o)) /\ KeyVouches(made, k)
        \/ /\ Signature(key, scheme, data) = Signature(k, s, U2fData(o))
           /\ o.fmt = "fido-u2f" /\ "Basic" \in made.vouches
        \/ \E cert_info : /\ Signature(key, scheme, data) = Signature(k, s, <<cert_info>>)
                          /\ cert_info.extra_data = ToBeSigned(o)
                          /\ "Basic" \in made.vouches
  BY <1>2 DEF SignedBy
<1>4. \A d : Signature(key, scheme, data) = Signature(k, s, d) => key = k /\ data = d
  BY SignaturesDiffer
<1>5. \/ data = ToBeSigned(o) /\ KeyVouches(made, key)
      \/ data = U2fData(o) /\ o.fmt = "fido-u2f" /\ "Basic" \in made.vouches
      \/ \E cert_info : /\ data = <<cert_info>>
                        /\ cert_info.extra_data = ToBeSigned(o)
                        /\ "Basic" \in made.vouches
  <2>1. CASE Signature(key, scheme, data) = Signature(k, s, ToBeSigned(o)) /\ KeyVouches(made, k)
    <3>1. key = k /\ data = ToBeSigned(o)
      BY <1>4, <2>1
    <3> QED
      BY <2>1, <3>1
  <2>2. CASE /\ Signature(key, scheme, data) = Signature(k, s, U2fData(o))
             /\ o.fmt = "fido-u2f" /\ "Basic" \in made.vouches
    <3>1. data = U2fData(o)
      BY <1>4, <2>2
    <3> QED
      BY <2>2, <3>1
  <2>3. ASSUME NEW cert_info, Signature(key, scheme, data) = Signature(k, s, <<cert_info>>),
               cert_info.extra_data = ToBeSigned(o), "Basic" \in made.vouches
        PROVE  data = <<cert_info>>
    BY <1>4, <2>3
  <2> QED
    BY <1>3, <2>1, <2>2, <2>3
<1> QED
  BY <1>5

\* However parts are lost or mixed up, what is accepted as attested was
\* attested: no authenticator's word is turned into another's, or into a word of
\* a higher grade (attestation.rs:455-1218).
THEOREM AttestationsAuthentic == Spec => []OriginAuthentic
<1>1. ASSUME IInv
      PROVE  OriginAuthentic
  <2> DEFINE grade == Verify(message, {})
             Origin == \E made \in Attestations :
                          /\ grade \in made.vouches
                          /\ Covered(message.fmt, made.object) = Covered(message.fmt, message)
  <2> SUFFICES ASSUME grade \in {"SelfAttestation", "Basic"}
               PROVE  Origin
    BY DEF OriginAuthentic
  <2>1. CASE SelfAttested(message)
    <3> DEFINE key == message.auth_data.public_key.id
    <3>1. PICK scheme : Signature(key, scheme, ToBeSigned(message)) \in message.stmt.sig
      BY <2>1 DEF SelfAttested, SelfEvidence
    <3>2. PICK made \in Attestations :
             \/ ToBeSigned(message) = ToBeSigned(made.object) /\ KeyVouches(made, key)
             \/ ToBeSigned(message) = U2fData(made.object)
             \/ \E cert_info : ToBeSigned(message) = <<cert_info>>
      BY <1>1, <3>1, SignatureMade
    <3>3. ToBeSigned(message) = ToBeSigned(made.object) /\ KeyVouches(made, key)
      BY <3>2, TuplesDiffer DEF ToBeSigned, U2fData
    <3>4. made.object.auth_data.public_key.id = key
      BY <3>3 DEF ToBeSigned
    <3>5. "SelfAttestation" \in made.vouches
      BY <3>3, <3>4 DEF KeyVouches
    <3> QED
      BY <2>1, <3>3, <3>5 DEF SelfAttested, SelfEvidence, Covered
  <2>2. CASE Graded(message)
    <3>1. PICK chain \in ChainsOf(message) :
             /\ chain # <<>> /\ BasicEvidence(message, chain)
             /\ grade = ChainAnswer(chain, {})
      BY <2>2 DEF Graded
    <3>2. grade = "Basic"
      BY <3>1 DEF ChainAnswer
    <3> DEFINE leaf == Head(chain)
    <3>3. PICK c \in Issued : c.key = leaf.key /\ c.nonce = leaf.nonce
      BY <1>1, <3>1, LeafIssued
    <3>4. CASE message.fmt \in {"packed", "android-key"}
      <4>1. PICK scheme : Signature(leaf.key.id, scheme, ToBeSigned(message)) \in message.stmt.sig
        BY <3>1, <3>4 DEF BasicEvidence
      <4>2. PICK made \in Attestations :
               \/ ToBeSigned(message) = ToBeSigned(made.object) /\ KeyVouches(made, leaf.key.id)
               \/ ToBeSigned(message) = U2fData(made.object)
               \/ \E cert_info : ToBeSigned(message) = <<cert_info>>
        BY <1>1, <4>1, SignatureMade
      <4>3. ToBeSigned(message) = ToBeSigned(made.object) /\ KeyVouches(made, leaf.key.id)
        BY <4>2, TuplesDiffer DEF ToBeSigned, U2fData
      <4>4. "Basic" \in made.vouches
        BY <3>3, <4>3 DEF KeyVouches
      <4> QED
        BY <3>2, <3>4, <4>3, <4>4 DEF Covered
    <3>5. CASE message.fmt = "fido-u2f"
      <4>1. Signature(leaf.key.id, "ES256", U2fData(message)) \in message.stmt.sig
        BY <3>1, <3>5 DEF BasicEvidence
      <4>2. PICK made \in Attestations :
               \/ U2fData(message) = ToBeSigned(made.object)
               \/ U2fData(message) = U2fData(made.object) /\ "Basic" \in made.vouches
               \/ \E cert_info : U2fData(message) = <<cert_info>>
        BY <1>1, <4>1, SignatureMade
      <4>3. U2fData(message) = U2fData(made.object) /\ "Basic" \in made.vouches
        BY <4>2, TuplesDiffer DEF ToBeSigned, U2fData
      <4> QED
        BY <3>2, <3>5, <4>3 DEF Covered
    <3>6. CASE message.fmt = "apple"
      <4>1. ToBeSigned(message) \in c.nonce
        BY <3>1, <3>3, <3>6 DEF BasicEvidence
      <4>2. PICK made \in Attestations :
               made.object.fmt = "apple" /\ ToBeSigned(message) = ToBeSigned(made.object)
        BY <4>1, AttestationsAssumption
      <4>3. "Basic" \in made.vouches
        BY <4>2, AttestationsAssumption DEF IsMade, IsBasic
      <4> QED
        BY <3>2, <3>6, <4>2, <4>3 DEF Covered
    <3>7. CASE message.fmt = "tpm"
      <4>1. PICK scheme, cert_info :
               /\ Signature(leaf.key.id, scheme, <<cert_info>>) \in message.stmt.sig
               /\ cert_info.extra_data = ToBeSigned(message)
        BY <3>1, <3>7 DEF BasicEvidence
      <4>2. PICK made \in Attestations :
               \/ <<cert_info>> = ToBeSigned(made.object)
               \/ <<cert_info>> = U2fData(made.object)
               \/ \E other : /\ <<cert_info>> = <<other>>
                             /\ other.extra_data = ToBeSigned(made.object)
                             /\ "Basic" \in made.vouches
        BY <1>1, <4>1, SignatureMade
      <4>3. cert_info.extra_data = ToBeSigned(made.object) /\ "Basic" \in made.vouches
        BY <4>2, TuplesDiffer DEF ToBeSigned, U2fData
      <4> QED
        BY <3>2, <3>7, <4>1, <4>3 DEF Covered
    <3>8. CASE message.fmt = "android-safetynet"
      <4>1. PICK jws \in message.stmt.response :
               /\ jws.signature = Signature(leaf.key.id, jws.alg, SigningInput(jws))
               /\ jws.payload.nonce = ToBeSigned(message)
        BY <3>1, <3>8 DEF BasicEvidence
      <4>2. PICK made \in Attestations : \E sent \in made.object.stmt.response :
               jws.signature = sent.signature
        BY <1>1 DEF IInv, Traceable, IsResponse
      <4>3. PICK sent \in made.object.stmt.response : jws.signature = sent.signature
        BY <4>2
      <4>4. ResponseBy(made, sent)
        BY AllAttested DEF IsAttested
      <4>5. PICK key, scheme, payload, header, certs :
               /\ sent.signature = Signature(key, scheme, <<header, certs, payload>>)
               /\ payload.nonce = ToBeSigned(made.object)
               /\ "Basic" \in made.vouches
        BY <4>4 DEF ResponseBy
      <4>6. jws.payload = payload
        <5>1. SigningInput(jws) = <<header, certs, payload>>
          BY <4>1, <4>3, <4>5, SignaturesDiffer
        <5> QED
          BY <5>1 DEF SigningInput
      <4> QED
        BY <3>2, <3>8, <4>1, <4>5, <4>6 DEF Covered
    <3> QED
      BY <3>1, <3>4, <3>5, <3>6, <3>7, <3>8 DEF BasicEvidence
  <2>3. ~Refused(message) /\ ~(\A anchors : Verify(message, anchors) = "None")
    BY DEF Refused, AttestationErrors
  <2> QED
    BY <2>1, <2>2, <2>3, VerifyAnswer
<1> QED
  BY <1>1, Invariance, PTL

-----------------------------------------------------------------------------
(***************************************************************************)
(* What conforms is accepted: every line of checks is passed.              *)
(***************************************************************************)
Passes(line) == line \in Lines(AttestationErrors) /\ FirstError(line) = Ok

\* Two lines that are passed are passed one after the other.
LEMMA PassesBoth ==
    ASSUME NEW s, NEW t, Passes(s), Passes(t)
    PROVE  Passes(s \o t)
  BY FirstErrorOfConcat DEF Passes

\* A check that does not fail, alone and before others.
LEMMA PassesOne ==
    ASSUME NEW error \in AttestationErrors
    PROVE  Passes(<<Check(FALSE, error)>>)
<1> DEFINE c == Check(FALSE, error)
<1>1. c \in Checks(AttestationErrors) /\ ~c.failed
  BY DEF Checks, Check
<1>2. Passes(<<c>>)
  <2> HIDE DEF c
  <2> QED
    BY <1>1, FirstErrorOf1 DEF Passes
<1> QED
  BY <1>2

\* The same, where what is checked is known to hold.
LEMMA PassesHere ==
    ASSUME NEW failed \in BOOLEAN, ~failed, NEW error \in AttestationErrors
    PROVE  Passes(<<Check(failed, error)>>)
<1>1. failed = FALSE
  OBVIOUS
<1> QED
  BY <1>1, PassesOne

\* A key of the right kind, and its own signature.
LEMMA PassesCert ==
    ASSUME NEW cert, NEW scheme, NEW data, cert.key.kind = KindOf(scheme)
    PROVE  Passes(CertVerifies(cert, scheme, data, Signature(cert.key.id, scheme, data)))
<1> DEFINE k == Check(cert.key.kind # KindOf(scheme), "InvalidAttestationObject")
           s == Signature(cert.key.id, scheme, data)
           v == Check(s # Signature(cert.key.id, scheme, data), "SignatureVerificationFailed")
<1>1. k \in Checks(AttestationErrors) /\ v \in Checks(AttestationErrors)
  BY DEF Checks, Check, AttestationErrors, Ok
<1>2. CertVerifies(cert, scheme, data, s) = <<k, v>>
  BY DEF CertVerifies, Verifies
<1>3. ~k.failed /\ ~v.failed
  BY DEF Check
<1> HIDE DEF k, v, s
<1>4. Passes(<<k, v>>)
  BY <1>1, <1>3, FirstErrorOf2 DEF Passes
<1> QED
  BY <1>2, <1>4 DEF s

\* What follows a line that is passed.
LEMMA PassesThen ==
    ASSUME NEW line, Passes(line), NEW result
    PROVE  Then(line, result) = result
  BY DEF Passes, Then

\* The only member of a set of one.
LEMMA TheOne ==
    ASSUME NEW v
    PROVE  The({v}) = v
  BY DEF The

\* The fields of an object that an authenticator made, those of its statement
\* that its format has.
IsWritten(o, fmt, ad, cd) ==
    /\ DOMAIN o = {"fmt", "auth_data", "client_data", "stmt"}
    /\ o.fmt = fmt /\ o.auth_data = ad /\ o.client_data = cd
    /\ DOMAIN o.stmt = {"form", "ill_typed"} \union Fields
    /\ o.stmt.form = "map" /\ o.stmt.ill_typed = {}

\* Before the statement is filled in.
LEMMA EmptyWritten ==
    ASSUME NEW fmt, NEW ad, NEW cd
    PROVE  /\ IsWritten(Object(fmt, ad, cd), fmt, ad, cd)
           /\ \A field \in Fields : Object(fmt, ad, cd).stmt[field] = {}
  BY DEF IsWritten, Object, EmptyStatement, Fields

\* packed with the credential key.
LEMMA SelfWritten ==
    ASSUME NEW ad, NEW cd, NEW o, o = AttestSelf(ad, cd)
    PROVE  /\ IsWritten(o, "packed", ad, cd) /\ o.stmt.x5c = {}
           /\ o.stmt.alg = {CoseAlg(ad.public_key)}
           /\ o.stmt.sig = {Signature(ad.public_key.id, CoseAlg(ad.public_key), <<ad, cd>>)}
<1> DEFINE e == Object("packed", ad, cd)
           alg == CoseAlg(ad.public_key)
           sig == Signature(ad.public_key.id, alg, <<ad, cd>>)
           p == [e EXCEPT !.stmt.alg = {alg}, !.stmt.sig = {sig}]
<1>1. IsWritten(e, "packed", ad, cd) /\ \A field \in Fields : e.stmt[field] = {}
  BY EmptyWritten
<1>2. o = p
  BY DEF AttestSelf
<1> HIDE DEF e, alg, sig
<1>3. /\ IsWritten(p, "packed", ad, cd) /\ p.stmt.x5c = {}
      /\ p.stmt.alg = {alg} /\ p.stmt.sig = {sig}
  BY <1>1 DEF IsWritten, Fields
<1> QED
  BY <1>2, <1>3 DEF alg, sig

\* packed with a chain.
LEMMA PackedWritten ==
    ASSUME NEW ad, NEW cd, NEW alg, NEW chain, NEW o, o = AttestPacked(ad, cd, alg, chain)
    PROVE  /\ IsWritten(o, "packed", ad, cd) /\ o.stmt.x5c = {chain} /\ o.stmt.alg = {alg}
           /\ o.stmt.sig = {Signature(Head(chain).key.id, alg, <<ad, cd>>)}
<1> DEFINE e == Object("packed", ad, cd)
           sig == Signature(Head(chain).key.id, alg, <<ad, cd>>)
           p == [e EXCEPT !.stmt.alg = {alg}, !.stmt.x5c = {chain}, !.stmt.sig = {sig}]
<1>1. IsWritten(e, "packed", ad, cd) /\ \A field \in Fields : e.stmt[field] = {}
  BY EmptyWritten
<1>2. o = p
  BY DEF AttestPacked
<1> HIDE DEF e, sig
<1>3. IsWritten(p, "packed", ad, cd) /\ p.stmt.x5c = {chain} /\ p.stmt.alg = {alg} /\ p.stmt.sig = {sig}
  BY <1>1 DEF IsWritten, Fields
<1> QED
  BY <1>2, <1>3 DEF sig

\* fido-u2f.
LEMMA U2fWritten ==
    ASSUME NEW ad, NEW cd, NEW chain, NEW o, o = AttestU2f(ad, cd, chain)
    PROVE  /\ IsWritten(o, "fido-u2f", ad, cd) /\ o.stmt.x5c = {chain}
           /\ o.stmt.sig = {Signature(Head(chain).key.id, "ES256", U2fData(o))}
<1> DEFINE e == Object("fido-u2f", ad, cd)
           sig == Signature(Head(chain).key.id, "ES256", U2fData(e))
           p == [e EXCEPT !.stmt.x5c = {chain}, !.stmt.sig = {sig}]
<1>1. IsWritten(e, "fido-u2f", ad, cd) /\ \A field \in Fields : e.stmt[field] = {}
  BY EmptyWritten
<1>2. o = p
  BY DEF AttestU2f
<1> HIDE DEF e, sig
<1>3. IsWritten(p, "fido-u2f", ad, cd) /\ p.stmt.x5c = {chain} /\ p.stmt.sig = {sig}
  BY <1>1 DEF IsWritten, Fields
<1>4. U2fData(e) = U2fData(o)
  BY <1>1, <1>2, <1>3 DEF IsWritten, U2fData
<1> QED
  BY <1>2, <1>3, <1>4 DEF sig

\* apple: the leaf has the nonce of this data.
LEMMA AppleWritten ==
    ASSUME NEW ad, NEW cd, NEW chain, NEW o, o = AttestApple(ad, cd, chain)
    PROVE  IsWritten(o, "apple", ad, cd) /\ o.stmt.x5c = {[chain EXCEPT ![1].nonce = {<<ad, cd>>}]}
<1> DEFINE e == Object("apple", ad, cd)
           x == {[chain EXCEPT ![1].nonce = {<<ad, cd>>}]}
           p == [e EXCEPT !.stmt.x5c = x]
<1>1. IsWritten(e, "apple", ad, cd) /\ \A field \in Fields : e.stmt[field] = {}
  BY EmptyWritten
<1>2. o = p
  BY DEF AttestApple
<1> HIDE DEF e, x
<1>3. IsWritten(p, "apple", ad, cd) /\ p.stmt.x5c = x
  BY <1>1 DEF IsWritten, Fields
<1> QED
  BY <1>2, <1>3 DEF x

\* tpm: what it certifies of the credential key, and its signature of that.
IsTpmStatement(o, ad, cd, chain, pub_area, cert_info) ==
    /\ o.stmt.x5c = {chain} /\ o.stmt.ver = {"2.0"} /\ o.stmt.alg = {CoseAlg(ad.public_key)}
    /\ o.stmt.pub_area = {pub_area} /\ o.stmt.cert_info = {cert_info}
    /\ o.stmt.sig = {Signature(Head(chain).key.id, CoseAlg(ad.public_key), <<cert_info>>)}
    /\ pub_area.form = "whole" /\ pub_area.name_alg = "SHA256"
    /\ pub_area.unique = ad.public_key.id
    /\ pub_area.type = IF ad.public_key.kty = "RSA" THEN "RSA" ELSE "ECC"
    /\ cert_info.form = "whole" /\ cert_info.magic = "TPM_GENERATED_VALUE"
    /\ cert_info.type = "TPM_ST_ATTEST_CERTIFY" /\ cert_info.extra_data = <<ad, cd>>
    /\ cert_info.name = PubAreaName(pub_area)

\* It is what its authenticator makes.
LEMMA TpmWritten ==
    ASSUME NEW ad, NEW cd, NEW chain, NEW o, o = AttestTpm(ad, cd, chain)
    PROVE  /\ IsWritten(o, "tpm", ad, cd)
           /\ \E pub_area, cert_info : IsTpmStatement(o, ad, cd, chain, pub_area, cert_info)
<1> DEFINE e == Object("tpm", ad, cd)
           alg == CoseAlg(ad.public_key)
           pub_area == [form |-> "whole", name_alg |-> "SHA256", unique |-> ad.public_key.id,
                        type |-> IF ad.public_key.kty = "RSA" THEN "RSA" ELSE "ECC"]
           cert_info == [form |-> "whole", magic |-> "TPM_GENERATED_VALUE",
                         type |-> "TPM_ST_ATTEST_CERTIFY", extra_data |-> <<ad, cd>>,
                         name |-> PubAreaName(pub_area)]
           sig == Signature(Head(chain).key.id, alg, <<cert_info>>)
           p == [e EXCEPT !.stmt.ver = {"2.0"}, !.stmt.alg = {alg}, !.stmt.x5c = {chain},
                          !.stmt.pub_area = {pub_area}, !.stmt.cert_info = {cert_info},
                          !.stmt.sig = {sig}]
<1>1. IsWritten(e, "tpm", ad, cd) /\ \A field \in Fields : e.stmt[field] = {}
  BY EmptyWritten
<1>2. o = p
  BY DEF AttestTpm
<1>3. /\ pub_area.form = "whole" /\ pub_area.name_alg = "SHA256"
      /\ pub_area.unique = ad.public_key.id
      /\ pub_area.type = IF ad.public_key.kty = "RSA" THEN "RSA" ELSE "ECC"
      /\ cert_info.form = "whole" /\ cert_info.magic = "TPM_GENERATED_VALUE"
      /\ cert_info.type = "TPM_ST_ATTEST_CERTIFY" /\ cert_info.extra_data = <<ad, cd>>
      /\ cert_info.name = PubAreaName(pub_area)
  OBVIOUS
<1> HIDE DEF e, alg, sig, pub_area, cert_info
<1>4. /\ IsWritten(p, "tpm", ad, cd) /\ p.stmt.x5c = {chain}
      /\ p.stmt.ver = {"2.0"} /\ p.stmt.alg = {alg} /\ p.stmt.sig = {sig}
      /\ p.stmt.pub_area = {pub_area} /\ p.stmt.cert_info = {cert_info}
  BY <1>1 DEF IsWritten, Fields
<1>5. IsTpmStatement(o, ad, cd, chain, pub_area, cert_info)
  BY <1>2, <1>3, <1>4 DEF IsTpmStatement, sig, alg
<1> QED
  BY <1>2, <1>4, <1>5

\* android-safetynet: a response about this data, signed with the leaf's key.
IsSafetynetResponse(jws, ad, cd, alg, chain) ==
    /\ jws.form = "ok" /\ jws.alg = alg /\ jws.x5c = chain
    /\ jws.payload.form = "ok" /\ jws.payload.nonce = <<ad, cd>>
    /\ jws.signature = Signature(Head(chain).key.id, alg, SigningInput(jws))

\* It is in the statement.
LEMMA SafetynetWritten ==
    ASSUME NEW ad, NEW cd, NEW alg, NEW chain, NEW o, o = AttestSafetynet(ad, cd, alg, chain)
    PROVE  /\ IsWritten(o, "android-safetynet", ad, cd) /\ o.stmt.ver = {"1"}
           /\ \E jws : /\ o.stmt.response = {jws}
                       /\ IsSafetynetResponse(jws, ad, cd, alg, chain)
<1> DEFINE e == Object("android-safetynet", ad, cd)
           payload == [form |-> "ok", nonce |-> <<ad, cd>>]
           sig == Signature(Head(chain).key.id, alg, <<alg, chain, payload>>)
           jws == [form |-> "ok", alg |-> alg, x5c |-> chain, payload |-> payload, signature |-> sig]
           p == [e EXCEPT !.stmt.ver = {"1"}, !.stmt.response = {jws}]
<1>1. IsWritten(e, "android-safetynet", ad, cd) /\ \A field \in Fields : e.stmt[field] = {}
  BY EmptyWritten
<1>2. o = p
  BY DEF AttestSafetynet
<1>3. IsSafetynetResponse(jws, ad, cd, alg, chain)
  BY DEF IsSafetynetResponse, SigningInput
<1> HIDE DEF e, jws
<1>4. IsWritten(p, "android-safetynet", ad, cd) /\ p.stmt.ver = {"1"} /\ p.stmt.response = {jws}
  BY <1>1 DEF IsWritten, Fields
<1> QED
  BY <1>2, <1>3, <1>4

\* The credential key's signature, in one of the three algorithms
\* (attestation.rs:560-601).
LEMMA SelfAccepted ==
    ASSUME NEW ad, NEW cd, NEW o, o = AttestSelf(ad, cd),
           CoseAlg(ad.public_key) \in {"ES256", "EdDSA", "RS256"}
    PROVE  \A anchors : Verify(o, anchors) = "SelfAttestation"
<1> DEFINE key == ad.public_key
           alg == CoseAlg(key)
           sig == Signature(key.id, alg, <<ad, cd>>)
           m == Check(alg # CoseAlg(key), "InvalidAttestationObject")
           u == Check(alg \notin {"ES256", "EdDSA", "RS256"}, "UnsupportedAlgorithm")
           v == Verifies(key.id, alg, <<ad, cd>>, sig)
           line == <<m, u, v>>
<1>1. /\ IsWritten(o, "packed", ad, cd) /\ o.stmt.x5c = {} /\ o.stmt.alg = {alg}
      /\ o.stmt.sig = {sig}
  BY SelfWritten
<1>2. /\ m \in Checks(AttestationErrors) /\ u \in Checks(AttestationErrors)
      /\ v \in Checks(AttestationErrors)
  BY DEF Checks, Check, AttestationErrors, Ok, Verifies
<1>3. ~m.failed /\ ~u.failed /\ ~v.failed
  BY DEF Check, Verifies
<1>4. Passes(line)
  <2> HIDE DEF m, u, v
  <2> QED
    BY <1>2, <1>3, FirstErrorOf3 DEF Passes
<1>5. The(o.stmt.alg) = alg /\ The(o.stmt.sig) = sig /\ ToBeSigned(o) = <<ad, cd>>
  BY <1>1, TheOne DEF ToBeSigned, IsWritten
<1>6. ~Malformed(o.stmt, {"alg", "sig"}, {"x5c"})
  BY <1>1 DEF Malformed, IsWritten
<1>7. VerifyPackedSelf(o) = Then(line, "SelfAttestation")
  BY <1>1, <1>5 DEF VerifyPackedSelf, IsWritten
<1> HIDE DEF line
<1>8. VerifyPackedSelf(o) = "SelfAttestation"
  BY <1>4, <1>7, PassesThen
<1>9. o.fmt = "packed"
  BY <1>1 DEF IsWritten
<1> QED
  BY <1>1, <1>6, <1>8, <1>9 DEF Verify, VerifyPacked

\* A batch key's signature (attestation.rs:513-559).
LEMMA PackedAccepted ==
    ASSUME NEW ad, NEW cd, NEW alg, NEW chain, chain # <<>>, NEW o,
           o = AttestPacked(ad, cd, alg, chain), LeafFits(o, Head(chain))
    PROVE  \A anchors : Verify(o, anchors) = ChainAnswer(chain, anchors)
<1> DEFINE leaf == Head(chain)
           sig == Signature(leaf.key.id, alg, <<ad, cd>>)
           u == <<Check(alg \notin {"ES256", "RS256"}, "UnsupportedAlgorithm")>>
           s == CertVerifies(leaf, alg, <<ad, cd>>, sig)
           x == VerifyCertAaguidExtension(leaf, ad.aaguid)
           y == VerifyCertIsNotCa(leaf)
           line == u \o s \o <<x, y>>
<1>1. /\ IsWritten(o, "packed", ad, cd) /\ o.stmt.x5c = {chain} /\ o.stmt.alg = {alg}
      /\ o.stmt.sig = {sig}
  BY PackedWritten
<1>2. /\ The(o.stmt.alg) = alg /\ The(o.stmt.sig) = sig /\ The(o.stmt.x5c) = chain
      /\ ToBeSigned(o) = <<ad, cd>> /\ o.fmt = "packed" /\ o.auth_data = ad
  BY <1>1, TheOne DEF ToBeSigned, IsWritten
<1>3. /\ alg \in {"ES256", "RS256"} /\ leaf.key.kind = KindOf(alg)
      /\ leaf.aaguid \subseteq {ad.aaguid} /\ ~leaf.ca
  BY <1>2 DEF LeafFits
<1>4. Passes(u)
  BY <1>3, PassesHere DEF AttestationErrors
<1>5. Passes(s)
  BY <1>3, PassesCert
<1>6. Passes(<<x, y>>)
  <2>1. x \in Checks(AttestationErrors) /\ y \in Checks(AttestationErrors)
    BY DEF Checks, Check, AttestationErrors, Ok, VerifyCertAaguidExtension, VerifyCertIsNotCa
  <2>2. ~x.failed /\ ~y.failed
    BY <1>3 DEF Check, VerifyCertAaguidExtension, VerifyCertIsNotCa
  <2> HIDE DEF x, y
  <2> QED
    BY <2>1, <2>2, FirstErrorOf2 DEF Passes
<1>7. Passes(line)
  <2> HIDE DEF u, s, x, y
  <2> QED
    BY <1>4, <1>5, <1>6, PassesBoth
<1>8. ~Malformed(o.stmt, {"alg", "sig"}, {"x5c"})
  BY <1>1 DEF Malformed, IsWritten
<1>9. ASSUME NEW anchors
      PROVE  Verify(o, anchors) = Then(line, VerifyX5cChain(chain, anchors))
  BY <1>1, <1>2, <1>8 DEF Verify, VerifyPacked, VerifyPackedBasic
<1> HIDE DEF line
<1> QED
  BY <1>7, <1>9, PassesThen, ChainVerdict

\* The signature of the parts that fido-u2f covers (attestation.rs:609-701).
LEMMA U2fAccepted ==
    ASSUME NEW ad, NEW cd, NEW chain, chain # <<>>, NEW o,
           o = AttestU2f(ad, cd, chain), LeafFits(o, Head(chain))
    PROVE  \A anchors : Verify(o, anchors) = ChainAnswer(chain, anchors)
<1> DEFINE leaf == Head(chain)
           sig == Signature(leaf.key.id, "ES256", U2fData(o))
           u == <<Check(P256Key(ad.public_key) = {}, "InvalidAttestationObject")>>
           s == CertVerifies(leaf, "ES256", U2fData(o), sig)
           line == u \o s
<1>1. /\ IsWritten(o, "fido-u2f", ad, cd) /\ o.stmt.x5c = {chain} /\ o.stmt.sig = {sig}
  BY U2fWritten
<1>2. /\ The(o.stmt.sig) = sig /\ The(o.stmt.x5c) = chain
      /\ o.fmt = "fido-u2f" /\ o.auth_data = ad
  BY <1>1, TheOne DEF IsWritten
<1>3. ad.public_key.alg = "ES256" /\ leaf.key.kind = KindOf("ES256")
  BY <1>2 DEF LeafFits, KindOf
<1>4. Passes(u)
  BY <1>3, PassesHere DEF AttestationErrors, P256Key
<1>5. Passes(s)
  BY <1>3, PassesCert
<1>7. Passes(line)
  <2> HIDE DEF u, s
  <2> QED
    BY <1>4, <1>5, PassesBoth
<1>8. ~Malformed(o.stmt, {"sig", "x5c"}, {})
  BY <1>1 DEF Malformed, IsWritten
<1>9. ASSUME NEW anchors
      PROVE  Verify(o, anchors) = Then(line, VerifyX5cChain(chain, anchors))
  BY <1>1, <1>2, <1>8 DEF Verify, VerifyFidoU2f
<1> HIDE DEF line
<1> QED
  BY <1>7, <1>9, PassesThen, ChainVerdict

\* The signature of the credential key, which the leaf certifies
\* (attestation.rs:711-820).
LEMMA AndroidKeyAccepted ==
    ASSUME NEW ad, NEW cd, NEW chain, chain # <<>>, NEW o,
           o = AttestAndroidKey(ad, cd, chain), LeafFits(o, Head(chain))
    PROVE  \A anchors : Verify(o, anchors) = ChainAnswer(chain, anchors)
<1> DEFINE leaf == Head(chain)
           e == AttestPacked(ad, cd, "ES256", chain)
           sig == Signature(leaf.key.id, "ES256", <<ad, cd>>)
           u == <<Check({leaf.key} # P256Key(ad.public_key), "InvalidAttestationObject")>>
           s == CertVerifies(leaf, "ES256", <<ad, cd>>, sig)
           line == u \o s
<1>1. /\ IsWritten(o, "android-key", ad, cd) /\ o.stmt.x5c = {chain} /\ o.stmt.alg = {"ES256"}
      /\ o.stmt.sig = {sig}
  <2>1. /\ IsWritten(e, "packed", ad, cd) /\ e.stmt.x5c = {chain} /\ e.stmt.alg = {"ES256"}
        /\ e.stmt.sig = {sig}
    BY PackedWritten
  <2>2. o = [e EXCEPT !.fmt = "android-key"]
    BY DEF AttestAndroidKey
  <2> HIDE DEF e
  <2> QED
    BY <2>1, <2>2 DEF IsWritten
<1>2. /\ The(o.stmt.sig) = sig /\ The(o.stmt.x5c) = chain
      /\ ToBeSigned(o) = <<ad, cd>> /\ o.fmt = "android-key" /\ o.auth_data = ad
  BY <1>1, TheOne DEF ToBeSigned, IsWritten
<1>3. P256Key(ad.public_key) = {leaf.key} /\ leaf.key.kind = KindOf("ES256")
  <2>1. P256Key(ad.public_key) = {leaf.key}
    BY <1>2 DEF LeafFits
  <2> QED
    BY <2>1 DEF P256Key, KindOf
<1>4. Passes(u)
  BY <1>3, PassesHere DEF AttestationErrors
<1>5. Passes(s)
  BY <1>3, PassesCert
<1>7. Passes(line)
  <2> HIDE DEF u, s
  <2> QED
    BY <1>4, <1>5, PassesBoth
<1>8. ~Malformed(o.stmt, {"alg", "sig", "x5c"}, {})
  BY <1>1 DEF Malformed, IsWritten
<1>9. ASSUME NEW anchors
      PROVE  Verify(o, anchors) = Then(line, VerifyX5cChain(chain, anchors))
  BY <1>1, <1>2, <1>8 DEF Verify, VerifyAndroidKey
<1> HIDE DEF line
<1> QED
  BY <1>7, <1>9, PassesThen, ChainVerdict

\* The nonce, in a leaf that certifies the credential key
\* (attestation.rs:830-906).
LEMMA AppleAccepted ==
    ASSUME NEW ad, NEW cd, NEW chain, chain # <<>>, NEW o, o = AttestApple(ad, cd, chain),
           o.stmt.x5c = {chain}, Head(chain).nonce = {<<ad, cd>>}, LeafFits(o, Head(chain))
    PROVE  \A anchors : Verify(o, anchors) = ChainAnswer(chain, anchors)
<1> DEFINE leaf == Head(chain)
           n == Check(leaf.nonce = {}, "InvalidAttestationObject")
           x == Check(\E nonce \in leaf.nonce : nonce # <<ad, cd>>, "InvalidAttestationObject")
           k == Check({leaf.key} # P256Key(ad.public_key), "InvalidAttestationObject")
           line == <<n, x, k>>
<1>1. IsWritten(o, "apple", ad, cd)
  BY AppleWritten
<1>2. /\ The(o.stmt.x5c) = chain
      /\ ToBeSigned(o) = <<ad, cd>> /\ o.fmt = "apple" /\ o.auth_data = ad
  BY <1>1, TheOne DEF ToBeSigned, IsWritten
<1>3. P256Key(ad.public_key) = {leaf.key}
  BY <1>2 DEF LeafFits
<1>4. /\ n \in Checks(AttestationErrors) /\ x \in Checks(AttestationErrors)
      /\ k \in Checks(AttestationErrors)
  BY DEF Checks, Check, AttestationErrors, Ok
<1>5. ~n.failed /\ ~x.failed /\ ~k.failed
  BY <1>3 DEF Check
<1>7. Passes(line)
  <2> HIDE DEF n, x, k
  <2> QED
    BY <1>4, <1>5, FirstErrorOf3 DEF Passes
<1>8. ~Malformed(o.stmt, {"x5c"}, {})
  BY <1>1 DEF Malformed, IsWritten
<1>9. ASSUME NEW anchors
      PROVE  Verify(o, anchors) = Then(line, VerifyX5cChain(chain, anchors))
  BY <1>2, <1>8 DEF Verify, VerifyApple
<1> HIDE DEF line
<1> QED
  BY <1>7, <1>9, PassesThen, ChainVerdict

\* The TPM's structures, made for the credential key and this data
\* (attestation.rs:916-1084).
LEMMA TpmAccepted ==
    ASSUME NEW ad, NEW cd, NEW chain, chain # <<>>, NEW o,
           o = AttestTpm(ad, cd, chain), LeafFits(o, Head(chain))
    PROVE  \A anchors : Verify(o, anchors) = ChainAnswer(chain, anchors)
<1>0. IsWritten(o, "tpm", ad, cd)
  BY TpmWritten
<1>a. PICK pub_area, cert_info : IsTpmStatement(o, ad, cd, chain, pub_area, cert_info)
  BY TpmWritten
<1> DEFINE leaf == Head(chain)
           key == ad.public_key
           alg == CoseAlg(key)
           sig == Signature(leaf.key.id, alg, <<cert_info>>)
           e1 == Check("2.0" # "2.0", "InvalidAttestationObject")
           e2 == Check(alg # CoseAlg(key), "InvalidAttestationObject")
           e3 == Check(alg \notin {"ES256", "RS256"}, "UnsupportedAlgorithm")
           e4 == Check(leaf.key.kind # KindOf(alg), "InvalidAttestationObject")
           p == VerifyPubAreaMatchesCredential(pub_area, key)
           c == VerifyCertInfo(cert_info, <<ad, cd>>, PubAreaName(pub_area))
           s == CertVerifies(leaf, alg, <<cert_info>>, sig)
           line == <<e1, e2, e3, e4>> \o p \o c \o s
<1>1. /\ o.stmt.x5c = {chain} /\ o.stmt.ver = {"2.0"} /\ o.stmt.alg = {alg}
      /\ o.stmt.pub_area = {pub_area} /\ o.stmt.cert_info = {cert_info} /\ o.stmt.sig = {sig}
  BY <1>a DEF IsTpmStatement
<1>2. /\ The(o.stmt.ver) = "2.0" /\ The(o.stmt.alg) = alg /\ The(o.stmt.sig) = sig
      /\ The(o.stmt.x5c) = chain /\ The(o.stmt.pub_area) = pub_area
      /\ The(o.stmt.cert_info) = cert_info
      /\ ToBeSigned(o) = <<ad, cd>> /\ o.fmt = "tpm" /\ o.auth_data = ad
  BY <1>0, <1>1, TheOne DEF ToBeSigned, IsWritten
<1>3. alg \in {"ES256", "RS256"} /\ leaf.key.kind = KindOf(alg) /\ key.kty \in {"EC2", "RSA"}
  BY <1>2 DEF LeafFits
<1>4. Passes(<<e1, e2, e3, e4>>)
  <2>1. /\ e1 \in Checks(AttestationErrors) /\ e2 \in Checks(AttestationErrors)
        /\ e3 \in Checks(AttestationErrors) /\ e4 \in Checks(AttestationErrors)
    BY DEF Checks, Check, AttestationErrors, Ok
  <2>2. ~e1.failed /\ ~e2.failed /\ ~e3.failed /\ ~e4.failed
    BY <1>3 DEF Check
  <2> HIDE DEF e1, e2, e3, e4
  <2> QED
    BY <2>1, <2>2, FirstErrorOf4 DEF Passes
<1>5. Passes(p)
  <2> DEFINE a1 == Check(pub_area.name_alg \notin {"SHA256", "SHA384"}, "InvalidAttestationObject")
             a2 == Check(pub_area.form = "truncated", "InvalidAttestationObject")
             a3 == Check(pub_area.type \notin {"ECC", "RSA"}, "InvalidAttestationObject")
             a4 == Check(pub_area.type # (IF key.kty = "EC2" THEN "ECC" ELSE key.kty),
                         "InvalidAttestationObject")
             a5 == Check(pub_area.unique # key.id, "InvalidAttestationObject")
  <2>1. p = <<a1, a2, a3, a4, a5>>
    BY DEF VerifyPubAreaMatchesCredential
  <2>2. ~a1.failed /\ ~a2.failed /\ ~a3.failed /\ ~a4.failed /\ ~a5.failed
    BY <1>3, <1>a DEF Check, IsTpmStatement
  <2> HIDE DEF a1, a2, a3, a4, a5, p
  <2>3. \A i \in 1 .. Len(p) : ~p[i].failed
    BY <2>1, <2>2
  <2> QED
    BY <2>3, NoError, PubAreaLine DEF Passes, p
<1>6. Passes(c)
  <2> DEFINE name == PubAreaName(pub_area)
             b1 == Check(cert_info.form = "truncated", "InvalidAttestationObject")
             b2 == Check(cert_info.magic # "TPM_GENERATED_VALUE", "InvalidAttestationObject")
             b3 == Check(cert_info.type # "TPM_ST_ATTEST_CERTIFY", "InvalidAttestationObject")
             b4 == Check(cert_info.extra_data # <<ad, cd>>, "InvalidAttestationObject")
             b5 == Check(cert_info.name # name, "InvalidAttestationObject")
  <2>1. c = <<b1, b2, b3, b4, b5>>
    BY DEF VerifyCertInfo
  <2>2. ~b1.failed /\ ~b2.failed /\ ~b3.failed /\ ~b4.failed /\ ~b5.failed
    BY <1>a DEF Check, IsTpmStatement
  <2> HIDE DEF b1, b2, b3, b4, b5, c
  <2>3. \A i \in 1 .. Len(c) : ~c[i].failed
    BY <2>1, <2>2
  <2> QED
    BY <2>3, NoError, CertInfoLine DEF Passes, c
<1>7. Passes(s)
  BY <1>3, PassesCert
<1>8. Passes(line)
  <2> HIDE DEF e1, e2, e3, e4, p, c, s
  <2> QED
    BY <1>4, <1>5, <1>6, <1>7, PassesBoth
<1>9. ~Malformed(o.stmt, {"ver", "alg", "sig", "x5c", "cert_info", "pub_area"}, {})
  BY <1>0, <1>1 DEF Malformed, IsWritten
<1>10. ASSUME NEW anchors
       PROVE  Verify(o, anchors) = Then(line, VerifyX5cChain(chain, anchors))
  BY <1>2, <1>9 DEF Verify, VerifyTpm
<1> HIDE DEF line
<1> QED
  BY <1>8, <1>10, PassesThen, ChainVerdict

\* The response that Google signed about this data (attestation.rs:1102-1218).
LEMMA SafetynetAccepted ==
    ASSUME NEW ad, NEW cd, NEW alg, NEW chain, chain # <<>>, Head(chain).valid, NEW o,
           o = AttestSafetynet(ad, cd, alg, chain), LeafFits(o, Head(chain))
    PROVE  \A anchors : Verify(o, anchors) = ChainAnswer(chain, anchors)
<1>0. IsWritten(o, "android-safetynet", ad, cd) /\ o.stmt.ver = {"1"}
  BY SafetynetWritten
<1>a. PICK jws : o.stmt.response = {jws} /\ IsSafetynetResponse(jws, ad, cd, alg, chain)
  BY SafetynetWritten
<1>1. /\ jws.form = "ok" /\ jws.alg = alg /\ jws.x5c = chain
      /\ jws.payload.form = "ok" /\ jws.payload.nonce = <<ad, cd>>
      /\ jws.signature = Signature(Head(chain).key.id, alg, SigningInput(jws))
  BY <1>a DEF IsSafetynetResponse
<1> DEFINE leaf == Head(chain)
           sig == Signature(leaf.key.id, alg, SigningInput(jws))
           m == Check(jws.form = "malformed", "InvalidAttestationObject")
           x == Check(jws.x5c = <<>>, "InvalidAttestationObject")
           u == <<Check(alg \notin {"ES256_JWS", "RS256"}, "InvalidAttestationObject")>>
           s == CertVerifies(leaf, alg, SigningInput(jws), sig)
           p == Check(jws.payload.form = "malformed", "InvalidAttestationObject")
           n == Check(jws.payload.nonce # <<ad, cd>>, "InvalidAttestationObject")
           h == Check(~leaf.valid \/ leaf.host # "attest.android.com", "InvalidAttestationObject")
           line == u \o s \o <<p, n, h>>
<1>2. /\ The(o.stmt.response) = jws
      /\ ToBeSigned(o) = <<ad, cd>> /\ o.fmt = "android-safetynet" /\ o.auth_data = ad
  BY <1>0, <1>a, TheOne DEF ToBeSigned, IsWritten
<1>3. /\ alg \in {"ES256_JWS", "RS256"} /\ leaf.key.kind = KindOf(alg)
      /\ leaf.host = "attest.android.com"
  BY <1>1, <1>2 DEF LeafFits
<1>4. FirstError(<<m, x>>) = Ok
  <2>1. m \in Checks(AttestationErrors) /\ x \in Checks(AttestationErrors)
    BY DEF Checks, Check, AttestationErrors, Ok
  <2>2. ~m.failed /\ ~x.failed
    BY <1>1 DEF Check
  <2> HIDE DEF m, x
  <2> QED
    BY <2>1, <2>2, FirstErrorOf2
<1>5. Passes(u)
  BY <1>3, PassesHere DEF AttestationErrors
<1>6. Passes(s)
  BY <1>3, PassesCert
<1>7. Passes(<<p, n, h>>)
  <2>1. /\ p \in Checks(AttestationErrors) /\ n \in Checks(AttestationErrors)
        /\ h \in Checks(AttestationErrors)
    BY DEF Checks, Check, AttestationErrors, Ok
  <2>2. ~p.failed /\ ~n.failed /\ ~h.failed
    BY <1>1, <1>3 DEF Check
  <2> HIDE DEF p, n, h
  <2> QED
    BY <2>1, <2>2, FirstErrorOf3 DEF Passes
<1>8. Passes(line)
  <2> HIDE DEF u, s, p, n, h
  <2> QED
    BY <1>5, <1>6, <1>7, PassesBoth
<1>9. ~Malformed(o.stmt, {"ver", "response"}, {})
  BY <1>0, <1>a DEF Malformed, IsWritten
<1>10. SplitJws(jws, "InvalidAttestationObject") = <<m, x>>
  BY DEF SplitJws
<1>11. ASSUME NEW anchors
       PROVE  Verify(o, anchors) = Then(line, VerifyX5cChain(chain, anchors))
  <2>1. jws.alg = alg /\ jws.x5c = chain /\ jws.signature = sig
    BY <1>1
  <2>2. Verify(o, anchors) = VerifyAndroidSafetynet(o, anchors)
    BY <1>2 DEF Verify
  <2> HIDE DEF m, x
  <2> QED
    BY <1>2, <1>4, <1>9, <1>10, <2>1, <2>2 DEF VerifyAndroidSafetynet
<1> HIDE DEF line
<1> QED
  BY <1>8, <1>11, PassesThen, ChainVerdict

\* The conforming attestation of an authenticator is answered with its grade,
\* or as its chain deserves.
GenuineAnswer(made) ==
    \/ made.grade = "None" /\ \A anchors : Verify(made.object, anchors) = "None"
    \/ made.grade = "SelfAttestation"
         /\ \A anchors : Verify(made.object, anchors) = "SelfAttestation"
    \/ /\ made.grade = "Basic"
       /\ \E chain \in ChainsOf(made.object) :
             /\ chain # <<>> /\ chain \in Seq(ToSet(chain)) /\ LeadsTo(chain, made.root)
             /\ \A anchors : Verify(made.object, anchors) = ChainAnswer(chain, anchors)

\* Format by format.
LEMMA ConformingAnswered ==
    ASSUME NEW made \in Attestations, Conforming(made)
    PROVE  GenuineAnswer(made)
<1> DEFINE o     == made.object
           ad    == o.auth_data
           cd    == o.client_data
           alg   == The(o.stmt.alg)
           chain == The(o.stmt.x5c)
           jws   == The(o.stmt.response)
<1>1. IsMade(made)
  BY AttestationsAssumption
<1>2. ASSUME NEW c \in ChainsOf(o), o.fmt # "none"
      PROVE  made.grade = "Basic" /\ LeafFits(o, Head(c)) /\ LeadsTo(c, made.root)
  BY <1>2 DEF Conforming
<1>3. ASSUME NEW c \in ChainsOf(o), IsBasic(made)
      PROVE  c # <<>> /\ c \in Seq(ToSet(c))
  BY <1>3 DEF IsBasic
<1>4. ASSUME NEW c \in ChainsOf(o), o.fmt # "none", IsBasic(made),
             \A anchors : Verify(o, anchors) = ChainAnswer(c, anchors)
      PROVE  GenuineAnswer(made)
  BY <1>2, <1>3, <1>4 DEF GenuineAnswer
<1>5. CASE o.fmt = "none"
  <2>1. made.grade = "None"
    BY <1>5 DEF Conforming
  <2>2. \A anchors : Verify(o, anchors) = "None"
    BY <1>5 DEF Verify
  <2> QED
    BY <2>1, <2>2 DEF GenuineAnswer
<1>6. CASE o.fmt = "packed" /\ o.stmt.x5c = {}
  <2>1. o = AttestSelf(ad, cd)
    BY <1>1, <1>6 DEF IsMade
  <2>2. ChainsOf(o) = {}
    BY <1>6 DEF ChainsOf, Nested
  <2>3. made.grade = "SelfAttestation"
    BY <1>6, <2>2 DEF Conforming
  <2>4. CoseAlg(ad.public_key) \in {"ES256", "EdDSA", "RS256"}
    BY <2>3 DEF Conforming
  <2>5. \A anchors : Verify(o, anchors) = "SelfAttestation"
    BY <2>1, <2>4, SelfAccepted
  <2> QED
    BY <2>3, <2>5 DEF GenuineAnswer
<1>7. CASE o.fmt = "packed" /\ o.stmt.x5c # {}
  <2>1. o = AttestPacked(ad, cd, alg, chain) /\ IsBasic(made)
    BY <1>1, <1>7 DEF IsMade
  <2>2. chain \in ChainsOf(o)
    BY <1>7 DEF ChainsOf, Nested, The
  <2>3. chain # <<>> /\ LeafFits(o, Head(chain))
    BY <1>2, <1>3, <1>7, <2>1, <2>2
  <2>4. \A anchors : Verify(o, anchors) = ChainAnswer(chain, anchors)
    BY <2>1, <2>3, PackedAccepted
  <2> QED
    BY <1>4, <1>7, <2>1, <2>2, <2>4
<1>8. CASE o.fmt = "fido-u2f"
  <2>1. o = AttestU2f(ad, cd, chain) /\ IsBasic(made)
    BY <1>1, <1>8 DEF IsMade
  <2>2. o.stmt.x5c = {chain}
    BY <2>1, U2fWritten
  <2>3. chain \in ChainsOf(o)
    BY <1>8, <2>2 DEF ChainsOf, Nested
  <2>4. chain # <<>> /\ LeafFits(o, Head(chain))
    BY <1>2, <1>3, <1>8, <2>1, <2>3
  <2>5. \A anchors : Verify(o, anchors) = ChainAnswer(chain, anchors)
    BY <2>1, <2>4, U2fAccepted
  <2> QED
    BY <1>4, <1>8, <2>1, <2>3, <2>5
<1>9. CASE o.fmt = "android-key"
  <2>1. o = AttestAndroidKey(ad, cd, chain) /\ IsBasic(made)
    BY <1>1, <1>9 DEF IsMade
  <2>2. o.stmt.x5c = {chain}
    <3>1. HasParts(o, "android-key", ad, cd,
                   {Signature(Head(chain).key.id, "ES256", <<ad, cd>>)}, {chain}, {})
      BY <2>1, AndroidKeyParts
    <3> QED
      BY <3>1 DEF HasParts
  <2>3. chain \in ChainsOf(o)
    BY <1>9, <2>2 DEF ChainsOf, Nested
  <2>4. chain # <<>> /\ LeafFits(o, Head(chain))
    BY <1>2, <1>3, <1>9, <2>1, <2>3
  <2>5. \A anchors : Verify(o, anchors) = ChainAnswer(chain, anchors)
    BY <2>1, <2>4, AndroidKeyAccepted
  <2> QED
    BY <1>4, <1>9, <2>1, <2>3, <2>5
<1>10. CASE o.fmt = "apple"
  <2>1. o = AttestApple(ad, cd, chain) /\ IsBasic(made)
    BY <1>1, <1>10 DEF IsMade
  <2> DEFINE d == [chain EXCEPT ![1].nonce = {<<ad, cd>>}]
  <2>2. o.stmt.x5c = {d}
    BY <2>1, AppleWritten
  <2>3. chain = d
    BY <2>2, TheOne
  <2>4. o.stmt.x5c = {chain}
    BY <2>2, <2>3
  <2>5. chain \in ChainsOf(o)
    BY <1>10, <2>4 DEF ChainsOf, Nested
  <2>6. chain # <<>> /\ chain \in Seq(ToSet(chain)) /\ LeafFits(o, Head(chain))
    BY <1>2, <1>3, <1>10, <2>1, <2>5
  <2>7. IsCertificate(chain[1]) /\ 1 \in DOMAIN chain /\ Head(chain) = chain[1]
    <3>1. 1 \in DOMAIN chain
      BY <2>6
    <3>2. \A i \in DOMAIN chain : chain[i] \in Issued
      BY <2>5, <2>6, IssuedChain
    <3> QED
      BY <2>6, <3>1, <3>2, AttestationsAssumption
  <2>8. Head(chain).nonce = {<<ad, cd>>}
    <3> HIDE DEF chain
    <3>1. d[1].nonce = {<<ad, cd>>}
      BY <2>7 DEF IsCertificate
    <3> QED
      BY <2>3, <2>7, <3>1
  <2>9. \A anchors : Verify(o, anchors) = ChainAnswer(chain, anchors)
    <3> HIDE DEF chain
    <3> QED
      BY <2>1, <2>4, <2>6, <2>8, AppleAccepted
  <2> QED
    BY <1>4, <1>10, <2>1, <2>5, <2>9
<1>11. CASE o.fmt = "tpm"
  <2>1. o = AttestTpm(ad, cd, chain) /\ IsBasic(made)
    BY <1>1, <1>11 DEF IsMade
  <2>2. o.stmt.x5c = {chain}
    <3>1. \E pub_area, cert_info : IsTpmStatement(o, ad, cd, chain, pub_area, cert_info)
      BY <2>1, TpmWritten
    <3> QED
      BY <3>1 DEF IsTpmStatement
  <2>3. chain \in ChainsOf(o)
    BY <1>11, <2>2 DEF ChainsOf, Nested
  <2>4. chain # <<>> /\ LeafFits(o, Head(chain))
    BY <1>2, <1>3, <1>11, <2>1, <2>3
  <2>5. \A anchors : Verify(o, anchors) = ChainAnswer(chain, anchors)
    BY <2>1, <2>4, TpmAccepted
  <2> QED
    BY <1>4, <1>11, <2>1, <2>3, <2>5
<1>12. CASE o.fmt = "android-safetynet"
  <2>1. o = AttestSafetynet(ad, cd, jws.alg, jws.x5c) /\ IsBasic(made)
    BY <1>1, <1>12 DEF IsMade
  <2> DEFINE certs == jws.x5c
  <2>2. jws \in o.stmt.response
    <3>1. \E r : o.stmt.response = {r} /\ IsSafetynetResponse(r, ad, cd, jws.alg, certs)
      BY <2>1, SafetynetWritten
    <3> QED
      BY <3>1 DEF The
  <2>3. certs \in ChainsOf(o)
    BY <1>12, <2>2 DEF ChainsOf, Nested
  <2>4. /\ certs # <<>> /\ certs \in Seq(ToSet(certs)) /\ LeafFits(o, Head(certs))
        /\ LeadsTo(certs, made.root)
    BY <1>2, <1>3, <1>12, <2>1, <2>3
  <2>5. Head(certs).valid
    <3> HIDE DEF certs
    <3>1. 1 \in DOMAIN certs /\ Head(certs) = certs[1]
      BY <2>4
    <3> QED
      BY <2>4, <3>1 DEF LeadsTo
  <2>6. \A anchors : Verify(o, anchors) = ChainAnswer(certs, anchors)
    BY <2>1, <2>4, <2>5, SafetynetAccepted
  <2> QED
    BY <1>4, <1>12, <2>1, <2>3, <2>6
<1> QED
  BY <1>1, <1>5, <1>6, <1>7, <1>8, <1>9, <1>10, <1>11, <1>12 DEF IsMade

\* What nothing edited is what was sent.
Unedited == edits \in 0 .. MaxEdits /\ (edits = 0 => message = genuine.object)

\* Every step edits.
LEMMA UneditedInvariance == Spec => [](genuine \in Attestations /\ Unedited)
<1>1. Init => genuine \in Attestations /\ Unedited
  BY EditsAssumption DEF Init, Unedited
<1>2. Next => \E object : Edit(object)
  BY DEF Next, Omit, Mistype, NotAMap, Mix, TakeFormat, TakeField, TakeAuthData, TakeClientData,
         DropCert, GarbleCert, ReverseChain, AppendCert, Truncate
<1>3. genuine \in Attestations /\ Unedited /\ [Next]_vars
        => (genuine \in Attestations /\ Unedited)'
  BY <1>2, EditsAssumption DEF Unedited, Edit, vars
<1> QED
  BY <1>1, <1>3, PTL DEF Spec

\* What a conforming authenticator made and nothing edited is accepted at its
\* grade, in every one of the formats and at every length of the chain; with
\* trust anchors it is verified exactly where the root that its chain leads to is
\* among them (attestation.rs:376-447, 262-285).
THEOREM GenuineAttestationsAccepted ==
    ASSUME \A made \in Attestations : Conforming(made)
    PROVE  Spec => []GenuineAccepted
<1>1. ASSUME genuine \in Attestations, Unedited
      PROVE  GenuineAccepted
  <2> SUFFICES ASSUME edits = 0
               PROVE  /\ Verify(message, {}) = genuine.grade
                      /\ genuine.grade = "Basic" =>
                             \A anchors \in (SUBSET Roots) \ {{}} :
                                 Verify(message, anchors) =
                                     IF genuine.root \in anchors THEN "BasicVerified"
                                                                 ELSE "AttestationRootUntrusted"
    BY DEF GenuineAccepted
  <2>1. message = genuine.object
    BY <1>1 DEF Unedited
  <2>2. GenuineAnswer(genuine)
    BY <1>1, ConformingAnswered
  <2>3. CASE genuine.grade # "Basic"
    BY <2>1, <2>2, <2>3 DEF GenuineAnswer
  <2>4. CASE genuine.grade = "Basic"
    <3>1. PICK chain \in ChainsOf(message) :
             /\ chain # <<>> /\ chain \in Seq(ToSet(chain)) /\ LeadsTo(chain, genuine.root)
             /\ \A anchors : Verify(message, anchors) = ChainAnswer(chain, anchors)
      BY <2>1, <2>2, <2>4 DEF GenuineAnswer
    <3>2. Whole(chain)
      BY <3>1 DEF LeadsTo, Whole
    <3>3. Last(chain).valid
      <4>1. Len(chain) \in DOMAIN chain
        BY <3>1
      <4> QED
        BY <3>1, <4>1 DEF LeadsTo, Last
    <3>4. \A anchors \in SUBSET Roots : Anchored(chain, anchors) <=> genuine.root \in anchors
      BY <3>1 DEF LeadsTo, Anchored
    <3>5. ChainAnswer(chain, {}) = "Basic"
      BY <3>2 DEF ChainAnswer
    <3>6. ASSUME NEW anchors \in (SUBSET Roots) \ {{}}
          PROVE  ChainAnswer(chain, anchors) =
                   IF genuine.root \in anchors THEN "BasicVerified" ELSE "AttestationRootUntrusted"
      BY <3>2, <3>3, <3>4 DEF ChainAnswer
    <3> QED
      BY <2>4, <3>1, <3>5, <3>6
  <2> QED
    BY <2>3, <2>4
<1> QED
  BY <1>1, UneditedInvariance, PTL
=============================================================================
