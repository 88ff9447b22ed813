----------------------------- MODULE Provenance -----------------------------
(***************************************************************************)
(* What an accepted attestation says about where it came from.             *)
(*                                                                         *)
(* Authenticators make attestations.  On the way to the relying party one  *)
(* is damaged, or its parts are mixed up with those of another: a field is *)
(* lost or becomes another type, the response to one ceremony is paired    *)
(* with the client data of another, the chain loses, gains or reorders     *)
(* certificates.  Nothing on the way can sign.                             *)
(***************************************************************************)
EXTENDS Attestation

CONSTANTS
    Attestations,   \* made by authenticators: [object, grade, root]
    Roots,          \* the root certificates a relying party may trust
    MaxEdits        \* bound: how many parts are damaged or mixed up

ASSUME EditsAssumption == MaxEdits \in Nat

VARIABLES
    genuine,        \* the attestation that was sent
    message,        \* the attestation object that arrives
    edits           \* how many parts of it were edited

vars == <<genuine, message, edits>>

-----------------------------------------------------------------------------
(***************************************************************************)
(* External: what authenticators make.                                     *)
(***************************************************************************)
Fields == {"ver", "alg", "sig", "x5c", "cert_info", "pub_area", "response"}

EmptyStatement ==
    [ form |-> "map", ill_typed |-> {}, ver |-> {}, alg |-> {}, sig |-> {}, x5c |-> {},
      cert_info |-> {}, pub_area |-> {}, response |-> {} ]

Object(fmt, ad, cd) ==
    [fmt |-> fmt, auth_data |-> ad, client_data |-> cd, stmt |-> EmptyStatement]

AttestNone(ad, cd) == Object("none", ad, cd)

\* With the credential key.
AttestSelf(ad, cd) ==
    [Object("packed", ad, cd) EXCEPT
        !.stmt.alg = {CoseAlg(ad.public_key)},
        !.stmt.sig = {Signature(ad.public_key.id, CoseAlg(ad.public_key), <<ad, cd>>)}]

\* With the key that the first certificate of the chain certifies.
AttestPacked(ad, cd, alg, chain) ==
    [Object("packed", ad, cd) EXCEPT
        !.stmt.alg = {alg}, !.stmt.x5c = {chain},
        !.stmt.sig = {Signature(Head(chain).key.id, alg, <<ad, cd>>)}]

AttestAndroidKey(ad, cd, chain) ==
    [AttestPacked(ad, cd, "ES256", chain) EXCEPT !.fmt = "android-key"]

AttestU2f(ad, cd, chain) ==
    LET a == Object("fido-u2f", ad, cd)
    IN  [a EXCEPT !.stmt.x5c = {chain},
                  !.stmt.sig = {Signature(Head(chain).key.id, "ES256", U2fData(a))}]

AttestApple(ad, cd, chain) ==
    [Object("apple", ad, cd) EXCEPT
        !.stmt.x5c = {[chain EXCEPT ![1].nonce = {<<ad, cd>>}]}]

AttestTpm(ad, cd, chain) ==
    LET pub_area == [form |-> "whole", name_alg |-> "SHA256", unique |-> ad.public_key.id,
                     type |-> IF ad.public_key.kty = "RSA" THEN "RSA" ELSE "ECC"]
        cert_info == [form |-> "whole", magic |-> "TPM_GENERATED_VALUE",
                      type |-> "TPM_ST_ATTEST_CERTIFY", extra_data |-> <<ad, cd>>,
                      name |-> PubAreaName(pub_area)]
        alg == CoseAlg(ad.public_key)
    IN  [Object("tpm", ad, cd) EXCEPT
            !.stmt.ver = {"2.0"}, !.stmt.alg = {alg}, !.stmt.x5c = {chain},
            !.stmt.pub_area = {pub_area}, !.stmt.cert_info = {cert_info},
            !.stmt.sig = {Signature(Head(chain).key.id, alg, <<cert_info>>)}]

AttestSafetynet(ad, cd, alg, chain) ==
    LET payload == [form |-> "ok", nonce |-> <<ad, cd>>]
        jws == [form |-> "ok", alg |-> alg, x5c |-> chain, payload |-> payload,
                signature |-> Signature(Head(chain).key.id, alg, <<alg, chain, payload>>)]
    IN  [Object("android-safetynet", ad, cd) EXCEPT
            !.stmt.ver = {"1"}, !.stmt.response = {jws}]

\* The chain that is read from an attestation object, if there is one.
Nested(object) == object.fmt = "android-safetynet"
ChainsOf(object) ==
    IF Nested(object) THEN {jws.x5c : jws \in object.stmt.response} ELSE object.stmt.x5c

\* Every certificate there is.
Issued ==
    Roots \union UNION {ToSet(chain) : chain \in UNION {ChainsOf(made.object) : made \in Attestations}}

IsCertificate(c) ==
    DOMAIN c = {"subject", "key", "issuer", "signer", "valid", "ca", "aaguid", "nonce", "host"}

\* A chain is made of certificates, the leaf first.  A key that attests itself
\* is in none, and the leaf of a batch does not have the credential's key.
IsBasic(made) ==
    /\ "Basic" \in made.vouches
    /\ \A chain \in ChainsOf(made.object) : chain # <<>> /\ chain \in Seq(ToSet(chain))

IsMade(made) ==
    LET object == made.object
        ad     == object.auth_data
        cd     == object.client_data
        alg    == The(object.stmt.alg)
        chain  == The(object.stmt.x5c)
        jws    == The(object.stmt.response)
    IN  CASE object.fmt = "none" -> object = AttestNone(ad, cd)
          [] object.fmt = "packed" /\ object.stmt.x5c = {} ->
                /\ object = AttestSelf(ad, cd)
                /\ "SelfAttestation" \in made.vouches
                /\ \A c \in Issued : c.key.id # ad.public_key.id
          [] object.fmt = "packed" /\ object.stmt.x5c # {} ->
                /\ object = AttestPacked(ad, cd, alg, chain) /\ IsBasic(made)
                /\ Head(chain).key.id # ad.public_key.id
          [] object.fmt = "android-key" ->
                /\ object = AttestAndroidKey(ad, cd, chain) /\ IsBasic(made)
                /\ "SelfAttestation" \in made.vouches
          [] object.fmt = "fido-u2f" -> object = AttestU2f(ad, cd, chain) /\ IsBasic(made)
          [] object.fmt = "apple" -> object = AttestApple(ad, cd, chain) /\ IsBasic(made)
          [] object.fmt = "tpm" -> object = AttestTpm(ad, cd, chain) /\ IsBasic(made)
          [] object.fmt = "android-safetynet" ->
                object = AttestSafetynet(ad, cd, jws.alg, jws.x5c) /\ IsBasic(made)
          [] OTHER -> FALSE

\* What the constants stand for.  A certificate has a nonce only where Apple
\* issued it for an attestation.
ASSUME AttestationsAssumption ==
    /\ \A made \in Attestations : IsMade(made)
    /\ \A c \in Issued :
          /\ IsCertificate(c)
          /\ \A nonce \in c.nonce : \E made \in Attestations :
                made.object.fmt = "apple" /\ nonce = ToBeSigned(made.object)

\* Who conforms: the leaf of a chain fits its format and the credential, every
\* link of the chain holds and its last certificate was signed by one root, the
\* one the attestation names; a grade is what such a statement deserves.
LeafFits(object, leaf) ==
    LET key == object.auth_data.public_key
        alg == The(object.stmt.alg)
        jws == The(object.stmt.response)
    IN  CASE object.fmt = "packed" ->
                /\ alg \in {"ES256", "RS256"} /\ leaf.key.kind = KindOf(alg)
                /\ leaf.aaguid \subseteq {object.auth_data.aaguid} /\ ~leaf.ca
          [] object.fmt = "fido-u2f" -> key.alg = "ES256" /\ leaf.key.kind = "P256"
          [] object.fmt \in {"android-key", "apple"} -> P256Key(key) = {leaf.key}
          [] object.fmt = "tpm" ->
                /\ alg \in {"ES256", "RS256"} /\ leaf.key.kind = KindOf(alg)
                /\ key.kty \in {"EC2", "RSA"}
          [] OTHER ->
                /\ jws.alg \in {"ES256_JWS", "RS256"} /\ leaf.key.kind = KindOf(jws.alg)
                /\ leaf.host = "attest.android.com"

LeadsTo(chain, root) ==
    /\ \A i \in DOMAIN chain : chain[i].valid
    /\ \A i \in 1 .. Len(chain) - 1 : Linked(chain[i], chain[i + 1])
    /\ \A other \in Roots : CertSignedBy(Last(chain), other) <=> other = root

Conforming(made) ==
    LET object == made.object
    IN  /\ made.grade = IF object.fmt = "none" THEN "None"
                        ELSE IF ChainsOf(object) = {} THEN "SelfAttestation" ELSE "Basic"
        /\ made.grade = "SelfAttestation" =>
              CoseAlg(object.auth_data.public_key) \in {"ES256", "EdDSA", "RS256"}
        /\ \A chain \in ChainsOf(object) :
              LeafFits(object, Head(chain)) /\ LeadsTo(chain, made.root)

-----------------------------------------------------------------------------
(***************************************************************************)
(* External: what happens on the way.                                      *)
(***************************************************************************)
Init ==
    /\ genuine \in Attestations
    /\ message = genuine.object
    /\ edits = 0

Edit(object) ==
    /\ edits < MaxEdits
    /\ message' = object
    /\ edits' = edits + 1
    /\ UNCHANGED genuine

Omit(field) == message.stmt[field] # {} /\ Edit([message EXCEPT !.stmt[field] = {}])

Mistype(field) ==
    /\ message.stmt[field] # {}
    /\ Edit([message EXCEPT !.stmt.ill_typed = @ \union {field}])

NotAMap == Edit([message EXCEPT !.stmt.form = "other"])

\* Parts of another attestation in the place of this one's.
TakeFormat(other) == Edit([message EXCEPT !.fmt = other.fmt])
TakeField(other, field) == Edit([message EXCEPT !.stmt[field] = other.stmt[field]])
TakeAuthData(other, part) == Edit([message EXCEPT !.auth_data[part] = other.auth_data[part]])
TakeClientData(other) == Edit([message EXCEPT !.client_data = other.client_data])

\* The chain that is read from the message, if there is one.
Chains == ChainsOf(message)
WithChain(chain) ==
    IF Nested(message) THEN [message EXCEPT !.stmt.response = {[jws EXCEPT !.x5c = chain] : jws \in @}]
    ELSE [message EXCEPT !.stmt.x5c = {chain}]

DropCert(i) == \E chain \in Chains : i \in DOMAIN chain /\ Edit(WithChain(RemoveAt(chain, i)))
GarbleCert(i) ==
    \E chain \in Chains : i \in DOMAIN chain /\ Edit(WithChain([chain EXCEPT ![i].valid = FALSE]))
ReverseChain == \E chain \in Chains : Edit(WithChain(Reverse(chain)))
AppendCert(cert) == \E chain \in Chains : Edit(WithChain(Append(chain, cert)))

Truncate(field) ==
    /\ message.stmt[field] # {}
    /\ Edit([message EXCEPT !.stmt[field] = {[blob EXCEPT !.form = "truncated"] : blob \in @}])

Mix(other) ==
    \/ TakeFormat(other)
    \/ \E field \in Fields : TakeField(other, field)
    \/ \E part \in DOMAIN message.auth_data : TakeAuthData(other, part)
    \/ TakeClientData(other)

Next ==
    \/ \E field \in Fields : Omit(field)
    \/ \E field \in Fields : Mistype(field)
    \/ NotAMap
    \/ \E other \in Attestations : Mix(other.object)
    \/ \E i \in 1 .. 3 : DropCert(i)
    \/ \E i \in 1 .. 3 : GarbleCert(i)
    \/ ReverseChain
    \/ \E cert \in Roots : AppendCert(cert)
    \/ \E field \in {"cert_info", "pub_area"} : Truncate(field)

Spec == Init /\ [][Next]_vars

-----------------------------------------------------------------------------
(***************************************************************************)
(* Properties.  A grade is the AttestationType with no trust anchors.      *)
(***************************************************************************)
AttestationErrors ==
    {"InvalidAttestationObject", "SignatureVerificationFailed", "AttestationChainInvalid",
     "AttestationRootUntrusted", "AttestationAaguidMismatch", "AttestationCertIsCa",
     "UnsupportedAlgorithm"}

\* Every statement is answered with an AttestationType or one of the errors
\* of an attestation; the chain check that is shared with the metadata
\* service never answers with that one's errors (attestation.rs:106, 369-375).
TypeOK ==
    /\ genuine \in Attestations
    /\ edits \in 0 .. MaxEdits
    /\ \A anchors \in SUBSET Roots :
           Verify(message, anchors) \in AttestationTypes \union AttestationErrors

\* What an authenticator made and nothing edited is accepted at its grade,
\* and as verified exactly where its root is among the trust anchors
\* (attestation.rs:376-447, 262-285).
GenuineAccepted ==
    edits = 0 =>
        /\ Verify(message, {}) = genuine.grade
        /\ genuine.grade = "Basic" =>
               \A anchors \in (SUBSET Roots) \ {{}} :
                   Verify(message, anchors) =
                       IF genuine.root \in anchors THEN "BasicVerified"
                                                   ELSE "AttestationRootUntrusted"

\* What the statement of each format vouches for.
Covered(fmt, a) == IF fmt = "fido-u2f" THEN U2fData(a) ELSE ToBeSigned(a)

\* However parts are lost or mixed up, what is accepted as attested was
\* attested: some authenticator made an attestation of that grade over the
\* same authenticator data and client data, or over those parts of them that
\* fido-u2f signs.  Losing a field can not turn one grade into another
\* (attestation.rs:455-1218).
OriginAuthentic ==
    LET grade == Verify(message, {})
    IN  grade \in {"SelfAttestation", "Basic"} =>
            \E made \in Attestations :
                /\ grade \in made.vouches
                /\ Covered(message.fmt, made.object) = Covered(message.fmt, message)

\* Who says whose key it is: `key` certified the first certificate of a chain
\* if every set of keys that has those certified by `key`, and by its members,
\* has the first one's too.
CertifiedBy(chain, key) ==
    LET certs == ToSet(chain)
    IN  \A keys \in SUBSET {c.key : c \in certs} :
            (\A c \in certs : c.signer \in keys \union {key} => c.key \in keys)
                => Head(chain).key \in keys

\* BasicVerified is given only to a leaf that a trust anchor certified,
\* directly or through the others: there is a path of signatures from the
\* anchor's key to the leaf's, with no link left out at either end
\* (attestation.rs:110, 262-285).
AnchoredLeafCertified ==
    \A anchors \in SUBSET Roots :
        Verify(message, anchors) = "BasicVerified" =>
            \A chain \in Chains : \E anchor \in anchors : CertifiedBy(chain, anchor.key)

\* Trust anchors only ever take away: with any of them, what was refused
\* without is refused with the same error; what was accepted is accepted or
\* refused for its root alone (a single certificate that does not parse is
\* only noticed then), and accepted by more anchors if by fewer
\* (registration.rs:326-347, attestation.rs:262-285).
AnchorsOnlyRestrict ==
    LET without == Verify(message, {})
    IN  \A anchors \in (SUBSET Roots) \ {{}} :
            LET with == Verify(message, anchors)
            IN  /\ without \in AttestationErrors \union {"None", "SelfAttestation"} => with = without
                /\ without = "Basic" =>
                       \/ with \in {"BasicVerified", "AttestationRootUntrusted"}
                       \/ with = "AttestationChainInvalid"
                            /\ \E chain \in Chains : Len(chain) = 1 /\ ~Head(chain).valid
                /\ with = "BasicVerified" =>
                       \A more \in SUBSET Roots :
                           anchors \subseteq more => Verify(message, more) = "BasicVerified"

\* Checked and violated: attestation.rs:30-31 says of packed self-attestation
\* "the credential key itself signs the attestation data. Fully verified";
\* for a key of any algorithm the library registers it should be accepted.
SelfAttestationVerified ==
    edits = 0 /\ genuine.grade = "SelfAttestation" /\ Convertible(message.auth_data.public_key)
        => Verify(message, {}) = "SelfAttestation"
=============================================================================
