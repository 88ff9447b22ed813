------------------------------ MODULE Lifecycle ------------------------------
(***************************************************************************)
(* One credential in the hands of a caller that uses the library as        *)
(* documented: it sends the options it is given, registers the credential  *)
(* from the answer, keeps what verify_registration returns, verifies       *)
(* assertions against it one at a time, and persists the new sign count    *)
(* and backup state before it answers.  The relying party may be deployed  *)
(* again with another configuration at any time, between a question and    *)
(* its answer too; the authenticator's counter goes up, wraps around, or   *)
(* falls back when the device is restored from a copy; the client may obey *)
(* the options or not; and a response may carry any one of the faults that *)
(* the ceremonies check for.                                               *)
(***************************************************************************)
EXTENDS Client

CONSTANTS
    Policies,                 \* RelyingParty configurations
    Devices,                  \* authenticators, by their names
    RegistrationRequests,     \* extension inputs of the caller: Option values
    AuthenticationRequests,
    MaxCount                  \* bound: the largest counter, u32::MAX in the code

ASSUME CounterAssumption == MaxCount \in Nat
\* Every configuration is of a relying party other than the one that a faulty
\* response comes from.
ASSUME PoliciesAssumption ==
    \A p \in Policies : /\ p.max_age \in Nat /\ p.id # "elsewhere"
                        /\ "https://elsewhere" \notin p.allowed_origins
                        /\ IsFiniteSet(p.allowed_algorithms)

ASSUME DevicesAssumption ==
    \A d \in DOMAIN Devices :
        /\ Devices[d].alg \in DOMAIN CoseNumbers
        /\ Devices[d].aaguid \in Seq(PlainOctets) /\ Len(Devices[d].aaguid) = 16
        /\ Devices[d].counts \in BOOLEAN /\ Devices[d].attests \in BOOLEAN
        /\ Devices[d].backup_eligible \in BOOLEAN

VARIABLES
    rp,         \* the RelyingParty now deployed
    device,     \* the name of the authenticator
    counter,    \* its signature counter
    stored,     \* the caller's database: at most one Credential
    pending,    \* the question last asked and not answered: {} or {[create, request, options]}
    attempt     \* the last ceremony: its inputs and its verdict

vars == <<rp, device, counter, stored, pending, attempt>>

\* What can be wrong with a response, one at a time.  "stale" and "clock_back"
\* are faults of the challenge's age, "signature" of the signature or, at
\* registration, of the attestation.  Only a registration can come without a
\* key, only an assertion contradict the registered backup eligibility or
\* lack the identifier.
CommonFaults == {"stale", "clock_back", "json", "type", "challenge", "origin", "rp_id",
                 "absent_user", "malformed", "signature"}
Faults(create) ==
    CommonFaults \union IF create THEN {"no_key"} ELSE {"eligibility", "no_id"}

NoAttempt == [ceremony |-> "none"]

-----------------------------------------------------------------------------
(***************************************************************************)
(* The options, as the browser receives them.                              *)
(***************************************************************************)
UserId == Octets(4, 1)

CreationOptions(p, request) ==
    SerializeRegistrationOptions(
        BeginRegistration(p, Text("current"),
                          [id |-> Bytes(UserId), name |-> "alice", display_name |-> "Alice"],
                          <<>>, request))

\* allow is empty where a passkey is to name itself.
RequestOptions(p, allow, request) ==
    SerializeAuthenticationOptions(AuthenticationOptions(p, Text("current"), allow, request))

\* Whether the answer `s`, given at a time, is what the options ask for.
Obeys(options, s, age) ==
    /\ \A timeout \in Field(options, "timeout") : age < timeout.int
    /\ s.create => Devices[s.device].alg \in Offered(options)
    /\ ~s.create => Allows(options, Bytes(CredentialId))
    /\ Text("required") \in UserVerification(options) => s.verified

-----------------------------------------------------------------------------
(***************************************************************************)
(* External: the responses.  `s` is [device, create, rp_id, verified,      *)
(* backup_state, cross_origin, count, fault, outputs].                     *)
(***************************************************************************)
IssuedAt == 1
Challenge == [bytes |-> "current", created_at |-> IssuedAt]

\* An answer without a fault comes at the last moment before the timeout.
Age(options, f) ==
    CASE f = "stale"      -> rp.max_age
      [] f = "clock_back" -> -1
      [] OTHER            -> (The(Field(options, "timeout"))).int - 1

ClientData(s) ==
    [ form         |-> IF s.fault = "json" THEN "malformed" ELSE "ok",
      type         |-> IF s.fault = "type" THEN "payment.get"
                       ELSE IF s.create THEN "webauthn.create" ELSE "webauthn.get",
      challenge    |-> IF s.fault = "challenge" THEN "another" ELSE "current",
      origin       |-> IF s.fault = "origin" THEN "https://elsewhere" ELSE "https://example.com",
      cross_origin |-> s.cross_origin ]

Used(key, f) ==
    IF f = "signature" THEN [key EXCEPT !.id = [label \in -3 .. -1 |-> {}]] ELSE key
SigningKey(s) == Used(CoseKey(CredentialKey(Devices[s.device]).value), s.fault)

ReadBack(s) == AuthDataOf(AuthenticatorDataOf(Devices[s.device], s))

ObjectOf(s, ad, cd) ==
    IF Devices[s.device].attests /\ ad.attested # {}
    THEN AttestationObject("packed", SelfAttestation(Devices[s.device], SigningKey(s), ad, cd),
                           ad.octets)
    ELSE MakeAttestationObject(ad.octets)

Registration(object, ad, cd) ==
    [ client_data |-> cd, parse |-> object.verdict, auth_data |-> ad,
      attestation |-> AttestationVerdict(object, ad, cd) ]
RegistrationOf(s, ad, cd) ==
    Registration(ParseAttestationObject(ObjectOf(s, ad, cd)), ad, cd)
AttestationResponse(s) == RegistrationOf(s, ReadBack(s), ClientData(s))

AssertionOf(s, ad, cd) ==
    [ client_data |-> cd, auth_data |-> ad,
      credential_id |-> IF s.fault = "no_id" THEN "" ELSE "cred",
      signature |-> Sign(SigningKey(s), ad, cd) ]
AssertionResponse(s) == AssertionOf(s, ReadBack(s), ClientData(s))

\* Every response there can be, so that each is written and read once.
\* Bound: one with a fault carries no extensions, and a device that does not
\* attest has no attestation to be wrong.
Outputs(create) ==
    LET inputs == IF create
                  THEN {IfSome("extensions", {RegistrationExtensions(e) : e \in request}) :
                           request \in RegistrationRequests}
                  ELSE {IfSome("extensions", {AuthenticationExtensions(e) : e \in request}) :
                           request \in AuthenticationRequests}
    IN  {ExtensionOutputs(Object(Len(entries), entries)) : entries \in inputs}

BackupStates(d) == IF Devices[d].backup_eligible THEN BOOLEAN ELSE {FALSE}
Counts(d) == IF Devices[d].counts THEN 0 .. MaxCount ELSE {0}
FaultsOf(d, create) ==
    Faults(create) \ (IF create /\ ~Devices[d].attests THEN {"signature"} ELSE {})

Answer(d, create, verified, backup_state, cross_origin, count, f, outputs) ==
    [ device |-> d, create |-> create, rp_id |-> "example.com", verified |-> verified,
      backup_state |-> backup_state, cross_origin |-> cross_origin, count |-> count,
      fault |-> f, outputs |-> outputs ]

AnswersOf(d, create) ==
    {Answer(d, create, verified, backup_state, cross_origin, count, f, <<>>) :
        verified, cross_origin \in BOOLEAN, backup_state \in BackupStates(d),
        count \in Counts(d), f \in FaultsOf(d, create)}
    \union
    {Answer(d, create, verified, backup_state, cross_origin, count, "none", outputs) :
        verified, cross_origin \in BOOLEAN, backup_state \in BackupStates(d),
        count \in Counts(d), outputs \in Outputs(create)}

Answers(create) == UNION {AnswersOf(d, create) : d \in DOMAIN Devices}

AttestationResponses == [s \in Answers(TRUE) |-> AttestationResponse(s)]
AssertionResponses == [s \in Answers(FALSE) |-> AssertionResponse(s)]

-----------------------------------------------------------------------------
(***************************************************************************)
(* Actions.                                                                *)
(***************************************************************************)

Init ==
    /\ rp \in Policies
    /\ device \in DOMAIN Devices
    /\ counter = 0
    /\ stored = {}
    /\ pending = {}
    /\ attempt = NoAttempt

Deploy(p) ==
    /\ rp' = p
    /\ attempt' = NoAttempt
    /\ UNCHANGED <<device, counter, stored, pending>>

Restore(n) ==
    /\ n < counter
    /\ counter' = n
    /\ attempt' = NoAttempt
    /\ UNCHANGED <<rp, device, stored, pending>>

\* begin_registration, by a caller whose user has no credential yet, and
\* authentication_options, with and without the credential in the list.
Ask(create, request, options) ==
    /\ pending = {}
    /\ pending' = {[create |-> create, request |-> request, options |-> options]}
    /\ attempt' = NoAttempt
    /\ UNCHANGED <<rp, device, counter, stored>>

AskRegistration(request) ==
    /\ stored = {}
    /\ Ask(TRUE, request, CreationOptions(rp, request))

AskAuthentication(request) ==
    \E credential \in stored :
        \E allow \in {<<>>, <<Bytes(credential.id)>>} :
            Ask(FALSE, request, RequestOptions(rp, allow, request))

\* What is remembered of a ceremony.  obeyed: the client did what the options
\* say that the relying party would send now.
Attempt(ask, s, age, verdict, current) ==
    [ ceremony |-> IF s.create THEN "webauthn.create" ELSE "webauthn.get", sent |-> s,
      request  |-> ask.request, now |-> IssuedAt + age, against |-> stored, verdict |-> verdict,
      obeyed   |-> ask.options \in current /\ Obeys(ask.options, s, age) ]

\* verify_registration, and the caller's insert on Ok.
Register(verified, backup_state, cross_origin, f) ==
    /\ UNCHANGED <<rp, device, counter>>
    /\ pending' = {}
    /\ \E ask \in pending :
          /\ ask.create
          /\ f # "none" => ask.request = {}
          /\ \E age \in {Age(ask.options, f)},
                s \in {Answer(device, TRUE, verified, backup_state, cross_origin, counter, f,
                              ExtensionOutputs(ask.options))}
                        \intersect DOMAIN AttestationResponses :
             \E response \in {AttestationResponses[s]} :
             \E verdict \in {VerifyRegistration(rp, Challenge, response, IssuedAt + age)} :
                /\ attempt' = Attempt(ask, s, age, verdict, {CreationOptions(rp, ask.request)})
                /\ stored' = IF verdict = Ok
                             THEN {NewCredential(rp, response, UserId, IssuedAt + age)}
                             ELSE stored

\* begin_authentication, to look the credential up by its identifier,
\* verify_authentication, and the caller's update on Ok.
LookedUpAndVerified(credential, response, now) ==
    IF BeginAuthentication(response) # Ok THEN BeginAuthentication(response)
    ELSE VerifyAuthentication(rp, credential, Challenge, response, now)

Persisted(credential, result) ==
    [credential EXCEPT !.sign_count = result.new_sign_count,
                       !.backup_state = result.backup_state]

Authenticate(verified, backup_state, cross_origin, f) ==
    /\ UNCHANGED <<rp, device>>
    /\ pending' = {}
    /\ counter' = IF Devices[device].counts THEN (counter + 1) % (MaxCount + 1) ELSE counter
    /\ \E ask \in pending, credential \in stored :
          /\ ~ask.create
          /\ f # "none" => ask.request = {}
          /\ \E age \in {Age(ask.options, f)},
                s \in {Answer(device, FALSE, verified, backup_state, cross_origin, counter', f,
                              ExtensionOutputs(ask.options))}
                        \intersect DOMAIN AssertionResponses :
             \E response \in {AssertionResponses[s]} :
             \E verdict \in {LookedUpAndVerified(credential, response, IssuedAt + age)} :
                /\ attempt' = Attempt(ask, s, age, verdict,
                                      {RequestOptions(rp, allow, ask.request) :
                                          allow \in {<<>>, <<Bytes(credential.id)>>}})
                /\ stored' = IF verdict = Ok
                             THEN {Persisted(credential, AuthenticationResult(credential, response))}
                             ELSE stored

Next ==
    \/ \E p \in Policies : Deploy(p)
    \/ \E n \in 0 .. MaxCount : Restore(n)
    \/ \E request \in RegistrationRequests : AskRegistration(request)
    \/ \E request \in AuthenticationRequests : AskAuthentication(request)
    \/ \E verified, cross_origin \in BOOLEAN, backup_state \in BackupStates(device) :
          \/ \E f \in FaultsOf(device, TRUE) \union {"none"} :
                Register(verified, backup_state, cross_origin, f)
          \/ \E f \in FaultsOf(device, FALSE) \union {"none"} :
                Authenticate(verified, backup_state, cross_origin, f)

Spec == Init /\ [][Next]_vars

-----------------------------------------------------------------------------
(***************************************************************************)
(* Properties.                                                             *)
(***************************************************************************)

Created == attempt.ceremony = "webauthn.create"
Asserted == attempt.ceremony = "webauthn.get"
Accepted == (Created \/ Asserted) /\ attempt.verdict = Ok

Response == IF Created THEN AttestationResponses[attempt.sent] ELSE AssertionResponses[attempt.sent]

\* The verdict on the last response, `response`, had the relying party been p.
VerdictOn(p, response) ==
    IF Created THEN VerifyRegistration(p, Challenge, response, attempt.now)
    ELSE VerifyAuthentication(p, The(attempt.against), Challenge, response, attempt.now)

\* p accepts nothing that q has a reason to refuse.
AtLeastAsStrict(p, q) ==
    /\ p.id = q.id
    /\ p.max_age <= q.max_age
    /\ p.allowed_origins \subseteq q.allowed_origins
    /\ q.reject_cross_origin => p.reject_cross_origin
    /\ q.require_user_verification => p.require_user_verification
    /\ q.reject_backup_eligible => p.reject_backup_eligible
    /\ q.require_backup_eligible => p.require_backup_eligible
    /\ PubKeyCredParams(p) \subseteq PubKeyCredParams(q)
    /\ \A a \in DOMAIN q.authenticator_metadata : Compromised(q, a) => Compromised(p, a)

\* What the options do not tell a client that the configuration objects to.
PolicyObjects ==
    LET d == Devices[device]
    IN  \/ rp.reject_cross_origin /\ attempt.sent.cross_origin
        \/ rp.reject_backup_eligible /\ d.backup_eligible
        \/ rp.require_backup_eligible /\ ~d.backup_eligible
        \/ Created /\ Compromised(rp, d.aaguid)

\* The state is what the library and its caller can hold, and a ceremony ends
\* in Ok or one of the library's errors (registration.rs:530-723,
\* authentication.rs:191-350, error.rs).
TypeOK ==
    /\ rp \in Policies
    /\ device \in DOMAIN Devices
    /\ counter \in 0 .. MaxCount
    /\ \A c \in stored : c.id = CredentialId /\ c.sign_count \in 0 .. MaxCount
    /\ Cardinality(stored) <= 1
    /\ Cardinality(pending) <= 1
    /\ attempt = NoAttempt \/ attempt.verdict \in WebAuthnErrors \union {Ok}

\* A public key of its algorithm's size, as `ring` encodes it: a point, an
\* Ed25519 key, or a DER sequence of a modulus and an exponent.
KeyOfSize(d) ==
    \/ d.alg = "ES256" /\ d.public_key \in Seq(PlainOctets) /\ Len(d.public_key) = 65
    \/ d.alg = "ES384" /\ d.public_key \in Seq(PlainOctets) /\ Len(d.public_key) = 97
    \/ d.alg = "EdDSA" /\ Len(d.public_key) = 32
    \/ /\ d.alg = "RS256"
       /\ Len(ExtractRsaComponents(d.public_key).n) \in Nat
       /\ Len(ExtractRsaComponents(d.public_key).n) >= 256
       /\ Len(ExtractRsaComponents(d.public_key).e) # 0

\* What ConformingAccepted takes for granted: every configuration is of the site
\* the client is at and allows its origin, the timeout ends no later than the
\* challenge does, the devices' keys have their sizes, and no device attests
\* with ES384, which verify_packed_self does not know.
Conforming ==
    /\ \A p \in Policies : /\ p.id = "example.com" /\ "https://example.com" \in p.allowed_origins
                           /\ Timeout \in 1 .. p.max_age
    /\ \A d \in DOMAIN Devices :
          /\ KeyOfSize(Devices[d])
          /\ Devices[d].attests => Devices[d].alg # "ES384"

\* A caller that persists what it is given, and a client that does as the
\* options say, are never locked out: an answer in time (timeout_ms against
\* CHALLENGE_MAX_AGE_SECS), with an algorithm on offer and the user verified
\* if that is required, is refused only where the configuration objects to
\* what no option speaks of, or the count has not advanced
\* (registration.rs:484-723, authentication.rs:95-350).
ConformingAccepted ==
    LET advanced == \A c \in attempt.against :
                        \/ attempt.sent.count > c.sign_count
                        \/ attempt.sent.count = 0 /\ c.sign_count = 0
    IN  (Created \/ Asserted) /\ attempt.sent.fault = "none" /\ attempt.obeyed =>
            Accepted \/ PolicyObjects \/ (Asserted /\ ~advanced)

\* No configuration accepts a response with a fault, whichever check is the
\* one to find it (registration.rs:548-693, authentication.rs:203-338).
FaultyNeverAccepted == Accepted => attempt.sent.fault = "none"

\* Every builder that restricts the relying party only restricts it: what a
\* configuration accepts, any configuration at most as strict accepts
\* (registration.rs:229-375).
LenientAcceptsMore ==
    Accepted => \A q \in Policies : AtLeastAsStrict(rp, q) => VerdictOn(q, Response) = Ok

\* The algorithms begin_registration offers are those verify_registration
\* takes: a credential was never accepted for an algorithm not on offer
\* (registration.rs:490-494, 664-667).
AcceptedWasOffered ==
    Created /\ Accepted =>
        Devices[device].alg \in Offered(CreationOptions(rp, attempt.request))

\* SignCountInvalid accuses the authenticator of having been cloned, and only
\* on evidence it signed, for this challenge and this site, of a count that has
\* not advanced: a corrupt or a replayed response is never reported as a clone
\* (authentication.rs:215-338).
CloneAlarmIsGenuine ==
    Asserted /\ attempt.verdict = "SignCountInvalid" =>
        \A c \in attempt.against :
           /\ VerifySignature(c, Response)
           /\ SignCountInvalid(c.sign_count, Response.auth_data.sign_count)
           /\ Response.auth_data.rp_id = c.rp_id
           /\ Response.client_data.type = "webauthn.get"
           /\ Response.client_data.challenge = Challenge.bytes
           /\ Response.client_data.origin \in rp.allowed_origins

\* What a serializer announces it writes: each object of the options has as
\* many entries as its reader was told, and no key twice (options.rs, every
\* `serialize_map(Some(count))`).  A PRF value is in an input, in an
\* extension, in the extensions, in the options, and nothing is deeper.
OptionsReadable ==
    \A ask \in pending :
        LET fields    == Within(ask.options)
            subfields == AllWithin(fields)
            inputs    == AllWithin(subfields)
            values    == AllWithin(inputs)
        IN  /\ \A json \in {ask.options} \union fields \union subfields \union inputs :
                  WellFormed(json)
            /\ \A json \in values : Within(json) = {}

\* The views of an authenticator that supports every extension it was asked for.
ExpectedViews(r) ==
    [ cred_props     |-> {[rk |-> {TRUE}] : b \in {c \in r.cred_props : c}},
      appid          |-> {},
      prf            |-> {[results |-> prf.eval] : prf \in r.prf},
      large_blob     |-> {[ supported |-> IF Created THEN {TRUE} ELSE {},
                            blob      |-> IF Asserted /\ b = {} THEN {Octets(2, 6)} ELSE {},
                            written   |-> IF Asserted /\ b # {} THEN {TRUE} ELSE {} ] :
                          b \in r.large_blob},
      cred_protect   |-> {c.policy : c \in r.cred_protect},
      min_pin_length |-> {4 : b \in {c \in r.min_pin_length : c}} ]

\* What ExtensionsAnswered takes for granted: a caller that asks for extensions
\* asks for something, each an Option as its type says; a u32 holds the PIN
\* length; and what only a registration can ask no authentication asks.
IsOption(some) == \A v, w \in some : v = w
OptionsOf(r) ==
    /\ IsOption(r.cred_props) /\ IsOption(r.prf) /\ IsOption(r.large_blob)
    /\ IsOption(r.cred_protect) /\ IsOption(r.min_pin_length)
    /\ \A prf \in r.prf : IsOption(prf.eval) /\ \A eval \in prf.eval :
          IsOption(eval.second) /\ eval = [first |-> eval.first, second |-> eval.second]
RegistrationAsks(r) ==
    /\ r.cred_props \subseteq BOOLEAN /\ r.min_pin_length \subseteq BOOLEAN
    /\ {c.policy : c \in r.cred_protect} \subseteq
          {"UserVerificationOptional", "UserVerificationOptionalWithCredentialIdList",
           "UserVerificationRequired"}
    /\ \/ TRUE \in r.cred_props \union r.min_pin_length
       \/ r.prf # {} \/ r.large_blob # {} \/ r.cred_protect # {}
AuthenticationAsks(r) ==
    /\ r.cred_props = {} /\ r.cred_protect = {} /\ r.min_pin_length = {}
    /\ \A write \in r.large_blob : IsOption(write)
    /\ r.prf # {} \/ r.large_blob # {}
Asking ==
    /\ MaxU32 >= 4
    /\ \A request \in RegistrationRequests \union AuthenticationRequests :
          IsOption(request) /\ \A r \in request : OptionsOf(r)
    /\ \A request \in RegistrationRequests : \A r \in request : RegistrationAsks(r)
    /\ \A request \in AuthenticationRequests : \A r \in request : AuthenticationAsks(r)

\* What the caller asked of an extension comes back to it: through the JSON of
\* the options, a client that supports the extension, the authenticator data
\* and the typed views (options.rs, authenticator_data.rs:567-595,
\* extensions.rs).
ExtensionsAnswered ==
    Accepted => \A r \in attempt.request :
        {Views(map) : map \in Response.auth_data.extensions} = {ExpectedViews(r)}

\* From one accepted assertion to the next the count goes up, through
\* wrap-around and restored devices, or stays zero for want of a counter
\* (authentication.rs:325-338).
AcceptedCountsIncrease ==
    [][ \A c \in stored, d \in stored' :
          attempt'.ceremony = "webauthn.get" /\ attempt'.verdict = Ok =>
              d.sign_count > c.sign_count \/ (d.sign_count = 0 /\ c.sign_count = 0) ]_vars
=============================================================================
