------------------------------ MODULE Ceremony ------------------------------
(***************************************************************************)
(* The two WebAuthn ceremonies as pure functions: what                     *)
(* verify_registration_inner (registration.rs) and                         *)
(* verify_authentication_inner (authentication.rs) decide about one        *)
(* response, given the relying party's configuration, the challenge, the   *)
(* stored credential and the time.                                         *)
(*                                                                         *)
(* Both are straight lines of checks, each leaving with its own error.     *)
(* A ceremony is modelled as the sequence of its checks in source order;   *)
(* its verdict is the error of the first check that fails, or Ok.  The     *)
(* sequence is cut in two where the shared single-use set is consulted:    *)
(* Binding (before) and Body (after); module RelyingParty puts the two     *)
(* together with the lock in between.                                      *)
(*                                                                         *)
(* Data.  Byte strings are values compared for equality.  A hash is the    *)
(* value it is taken of.  A signature is the triple of the signing key,    *)
(* the authenticator data and the client data it covers.                   *)
(***************************************************************************)
EXTENDS Integers, SequencesExt

Ok == "Ok"

\* WebAuthnError.
WebAuthnErrors ==
    { "InvalidClientData", "ChallengeMismatch", "OriginMismatch", "RpIdHashMismatch",
      "UserNotPresent", "UserNotVerified", "InvalidAttestationObject",
      "InvalidAuthenticatorData", "InvalidPublicKey", "SignatureVerificationFailed",
      "SignCountInvalid", "CborDecodeError", "Base64DecodeError", "ChallengeExpired",
      "ChallengePreviouslyUsed", "UnsupportedAlgorithm", "CrossOriginNotAllowed",
      "BackupEligibleNotAllowed", "BackupEligibilityRequired", "BackupEligibilityChanged",
      "AttestationChainInvalid", "AttestationRootUntrusted", "AttestationAaguidMismatch",
      "AttestationCertIsCa", "AuthenticatorStatusUntrusted", "MissingCredentialId",
      "MdsBlobMalformed", "MdsChainInvalid", "MdsRootUntrusted", "MdsSignatureInvalid" }

\* One early return: `if failed { return Err(error) }`.
Check(failed, error) == [failed |-> failed, error |-> error]

\* The result of a straight line of early returns.
FirstError(checks) ==
    LET first == SelectInSeq(checks, LAMBDA c : c.failed)
    IN  IF first = 0 THEN Ok ELSE checks[first].error

(***************************************************************************)
(* Expiry and client data: everything before the single-use set.           *)
(***************************************************************************)

\* Mutant: `>` for `>=`.
IsExpiredLate(created_at, now, max_age) ==
    \/ now < created_at
    \/ now - created_at > max_age

\* CHALLENGE_MAX_AGE_SECS, five minutes, in units of MaxAge ticks.  A clock
\* that went backwards makes the challenge expired.
IsExpired(created_at, now, max_age) ==
    \/ now < created_at
    \/ now - created_at >= max_age

\* parse_client_data, with the UTF-8 check that registration makes before it.
ParseClientData(cd) ==
    << Check(cd.form = "malformed", "InvalidClientData"),
       Check(cd.form = "bad_base64", "Base64DecodeError") >>

ValidateClientData(rp, cd, expected_type, challenge) ==
    << Check(cd.type # expected_type, "InvalidClientData"),
       Check(cd.challenge # challenge, "ChallengeMismatch"),
       Check(cd.origin \notin rp.allowed_origins, "OriginMismatch"),
       Check(rp.reject_cross_origin /\ cd.cross_origin, "CrossOriginNotAllowed") >>

Binding(rp, ceremony, challenge, cd, now) ==
    << Check(IsExpired(challenge.created_at, now, rp.max_age), "ChallengeExpired") >>
      \o ParseClientData(cd)
      \o ValidateClientData(rp, cd, ceremony, challenge.bytes)

(***************************************************************************)
(* Registration, after the single-use set.                                 *)
(***************************************************************************)

\* AuthenticatorStatus::is_compromised.
IsCompromised(status) ==
    status \in {"Revoked", "AttestationKeyCompromise", "UserKeyRemoteCompromise",
                "UserKeyPhysicalCompromise", "UserVerificationBypass"}

Compromised(rp, aaguid) ==
    /\ aaguid \in DOMAIN rp.authenticator_metadata
    /\ \E status \in rp.authenticator_metadata[aaguid] : IsCompromised(status)

\* A COSE RSA key carries no algorithm of its own in the parsed form.
CoseAlg(key) == IF key.kty = "RSA" THEN "RS256" ELSE key.alg

\* Mutants: an empty list allows nothing; whatever is supported is allowed.
AllowedOnlyListed(rp, alg) == alg \in rp.allowed_algorithms
AllowedIfSupported(rp, alg) == alg \in {"ES256", "ES384", "EdDSA", "RS256"}

Allowed(rp, alg) == rp.allowed_algorithms = {} \/ alg \in rp.allowed_algorithms

\* The COSE keys that become a typed PublicKey.
Convertible(key) ==
    \/ key.kty = "EC2" /\ key.alg \in {"ES256", "ES384"}
    \/ key.kty = "OKP" /\ key.alg = "EdDSA"
    \/ key.kty = "RSA"

\* The algorithms begin_registration offers to the browser.
PubKeyCredParams(rp) ==
    IF rp.allowed_algorithms = {} THEN {"ES256", "ES384", "EdDSA", "RS256"}
                                  ELSE rp.allowed_algorithms

\* rpIdHash and user presence, common to both ceremonies.
Presence(rp_id, ad) ==
    << Check(ad.parse # Ok, ad.parse),
       Check(ad.rp_id # rp_id, "RpIdHashMismatch"),
       Check(~ad.user_present, "UserNotPresent") >>

BackupPolicy(rp, ad) ==
    << Check(rp.reject_backup_eligible /\ ad.backup_eligible, "BackupEligibleNotAllowed"),
       Check(rp.require_backup_eligible /\ ~ad.backup_eligible, "BackupEligibilityRequired") >>

\* The attested credential data is a set of at most one record: absent when
\* the AT flag is clear.  attestation is the outcome of attestation::verify.
RegistrationBody(rp, response) ==
    LET ad == response.auth_data
    IN  << Check(response.parse # Ok, response.parse) >>
          \o Presence(rp.id, ad)
          \o BackupPolicy(rp, ad)
          \o << Check(ad.attested = {}, "InvalidAuthenticatorData"),
                Check(\E cred \in ad.attested : Compromised(rp, cred.aaguid),
                      "AuthenticatorStatusUntrusted"),
                Check(\E cred \in ad.attested : ~Allowed(rp, CoseAlg(cred.public_key)),
                      "UnsupportedAlgorithm"),
                Check(\E cred \in ad.attested : ~Convertible(cred.public_key),
                      "UnsupportedAlgorithm"),
                Check(response.attestation # Ok, response.attestation) >>

\* Mutant: user id and credential id change places.
NewCredentialSwapped(rp, response, user_id, now) ==
    LET ad == response.auth_data
    IN  [ id |-> user_id, public_key |-> (CHOOSE c \in ad.attested : TRUE).public_key,
          sign_count |-> ad.sign_count, user_id |-> "cred", rp_id |-> rp.id,
          created_at |-> now, backup_eligible |-> ad.backup_eligible,
          backup_state |-> ad.backup_state ]

\* The Credential handed to the caller on success.
NewCredential(rp, response, user_id, now) ==
    LET ad == response.auth_data
        cred == CHOOSE c \in ad.attested : TRUE
    IN  [ id              |-> cred.id,
          public_key      |-> cred.public_key,
          sign_count      |-> ad.sign_count,
          user_id         |-> user_id,
          rp_id           |-> rp.id,
          created_at      |-> now,
          backup_eligible |-> ad.backup_eligible,
          backup_state    |-> ad.backup_state ]

(***************************************************************************)
(* Authentication, after the single-use set.                               *)
(***************************************************************************)

\* What an authenticator holding `key` signs: authData || SHA-256(clientDataJSON).
Sign(key, auth_data, client_data) == <<key, auth_data, client_data>>

VerifySignature(stored, response) ==
    response.signature
      = Sign(stored.public_key, response.auth_data, response.client_data)

\* Mutants: the same count again; anything but the same count; no exception
\* for authenticators without a counter.
SignCountDecreased(stored, received) == received < stored
SignCountRepeated(stored, received) == stored > 0 /\ received = stored
SignCountNotGreater(stored, received) == received <= stored

\* Both zero is a counter-less authenticator; anything else must increase.
SignCountInvalid(stored, received) ==
    /\ stored > 0 \/ received > 0
    /\ received <= stored

\* Mutant: the counter is looked at before the signature that vouches for it.
AuthenticationBodyCountFirst(rp, stored, response) ==
    LET ad == response.auth_data
    IN  Presence(stored.rp_id, ad)
          \o << Check(rp.require_user_verification /\ ~ad.user_verified, "UserNotVerified") >>
          \o BackupPolicy(rp, ad)
          \o << Check(ad.backup_eligible # stored.backup_eligible, "BackupEligibilityChanged"),
                Check(SignCountInvalid(stored.sign_count, ad.sign_count), "SignCountInvalid"),
                Check(~VerifySignature(stored, response), "SignatureVerificationFailed") >>

AuthenticationBody(rp, stored, response) ==
    LET ad == response.auth_data
    IN  Presence(stored.rp_id, ad)
          \o << Check(rp.require_user_verification /\ ~ad.user_verified, "UserNotVerified") >>
          \o BackupPolicy(rp, ad)
          \o << Check(ad.backup_eligible # stored.backup_eligible, "BackupEligibilityChanged"),
                Check(~VerifySignature(stored, response), "SignatureVerificationFailed"),
                Check(SignCountInvalid(stored.sign_count, ad.sign_count), "SignCountInvalid") >>

\* The AuthenticationResult the caller is told to persist from.
AuthenticationResult(stored, response) ==
    [ credential_id   |-> stored.id,
      new_sign_count  |-> response.auth_data.sign_count,
      backup_eligible |-> response.auth_data.backup_eligible,
      backup_state    |-> response.auth_data.backup_state ]

\* begin_authentication: an assertion must name a credential.
BeginAuthentication(response) ==
    FirstError(<< Check(response.credential_id = "", "MissingCredentialId") >>)

(***************************************************************************)
(* The whole ceremonies, for a relying party that does not enforce         *)
(* single use itself.                                                      *)
(***************************************************************************)
VerifyRegistration(rp, challenge, response, now) ==
    FirstError(Binding(rp, "webauthn.create", challenge, response.client_data, now)
                 \o RegistrationBody(rp, response))

VerifyAuthentication(rp, stored, challenge, response, now) ==
    FirstError(Binding(rp, "webauthn.get", challenge, response.client_data, now)
                 \o AuthenticationBody(rp, stored, response))
=============================================================================
