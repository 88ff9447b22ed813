------------------------------- MODULE Options -------------------------------
(***************************************************************************)
(* What the relying party asks of the browser: the options of a ceremony   *)
(* (registration.rs, begin_registration; authentication.rs,                *)
(* authentication_options) and the JSON objects they are sent as           *)
(* (options.rs).  A serializer is told the size of an object before its    *)
(* entries, so an object is its announced size and its entries.            *)
(*                                                                         *)
(* Some(v) is {v}, None is {}.                                             *)
(***************************************************************************)
EXTENDS Octets

CONSTANTS Timeout    \* timeout_ms: 300_000, in the ticks of max_age

ASSUME TimeoutAssumption == Timeout \in Nat

Object(size, entries) == [type |-> "object", size |-> size, entries |-> entries]
Array(elements) == [type |-> "array", elements |-> elements]

Given(name, value) == <<Named(name, value)>>
IfSome(name, some) == IF some = {} THEN <<>> ELSE Given(name, CHOOSE value \in some : TRUE)

\* A value is what it was announced to be: an object has as many entries as
\* its reader was told, and no key twice.
WellFormed(json) ==
    json.type = "object" =>
        /\ json.size = Len(json.entries)
        /\ \A i, j \in DOMAIN json.entries :
              json.entries[i].text = json.entries[j].text => i = j

\* The values directly within a value, and within any of several.
Within(json) ==
    IF json.type = "object" THEN {e.value : e \in Range(json.entries)}
    ELSE IF json.type = "array" THEN Range(json.elements)
    ELSE {}
AllWithin(values) == UNION {Within(json) : json \in values}

-----------------------------------------------------------------------------
(***************************************************************************)
(* The relying party's configuration.  The age of a challenge is the       *)
(* library's constant and not the caller's choice; it is kept with it.     *)
(***************************************************************************)
WithOrigins(id, origins, name, max_age) ==
    [ id |-> id, name |-> name, allowed_origins |-> origins, max_age |-> max_age,
      require_user_verification |-> FALSE, reject_cross_origin |-> FALSE,
      allowed_algorithms |-> {}, require_backup_eligible |-> FALSE,
      reject_backup_eligible |-> FALSE, default_authenticator_selection |-> {},
      authenticator_metadata |-> [aaguid \in {} |-> {}] ]

\* Each builder assigns one field.
Builder(rp, field, value) == [rp EXCEPT ![field] = value]

-----------------------------------------------------------------------------
(***************************************************************************)
(* Extension inputs.                                                       *)
(***************************************************************************)

\* Mutant: the second value is not counted.
PrfEvalInputUncounted(eval) ==
    Object(1, Given("first", Bytes(eval.first))
                \o IfSome("second", {Bytes(second) : second \in eval.second}))

PrfEvalInput(eval) ==
    Object(IF eval.second # {} THEN 2 ELSE 1,
           Given("first", Bytes(eval.first))
             \o IfSome("second", {Bytes(second) : second \in eval.second}))

PrfInput(prf) ==
    Object(IF prf.eval # {} THEN 1 ELSE 0,
           IfSome("eval", {PrfEvalInput(eval) : eval \in prf.eval}))

LargeBlobRegistrationInput(support) == Object(1, Given("support", Text(support)))

\* Read is None, Write(octets) is Some(octets).
LargeBlobAuthenticationInput(write) ==
    Object(1, IF write = {} THEN Given("read", Bool(TRUE))
                            ELSE IfSome("write", {Bytes(octets) : octets \in write}))

\* Mutant: `Id` for `ID`.
CredProtectPolicyStrIds(policy) ==
    CASE policy = "UserVerificationOptional" -> "userVerificationOptional"
      [] policy = "UserVerificationOptionalWithCredentialIdList"
                                             -> "userVerificationOptionalWithCredentialIdList"
      [] policy = "UserVerificationRequired" -> "userVerificationRequired"

CredProtectPolicyStr(policy) ==
    CASE policy = "UserVerificationOptional" -> "userVerificationOptional"
      [] policy = "UserVerificationOptionalWithCredentialIdList"
                                             -> "userVerificationOptionalWithCredentialIDList"
      [] policy = "UserVerificationRequired" -> "userVerificationRequired"

CredProtectInput(input) ==
    Object(2, Given("credentialProtectionPolicy", Text(CredProtectPolicyStr(input.policy)))
                \o Given("enforceCredentialProtectionPolicy", Bool(input.enforce)))

\* The number of fields that are present, and those fields.
Present(some) == Cardinality({i \in DOMAIN some : some[i] # {}})

RegistrationExtensions(exts) ==
    Object(Present(<<exts.cred_props, exts.prf, exts.large_blob, exts.cred_protect,
                     exts.min_pin_length>>),
           IfSome("credProps", {Bool(b) : b \in exts.cred_props})
             \o IfSome("prf", {PrfInput(prf) : prf \in exts.prf})
             \o IfSome("largeBlob", {LargeBlobRegistrationInput(s) : s \in exts.large_blob})
             \o IfSome("credProtect", {CredProtectInput(c) : c \in exts.cred_protect})
             \o IfSome("minPinLength", {Bool(b) : b \in exts.min_pin_length}))

AuthenticationExtensions(exts) ==
    Object(Present(<<exts.prf, exts.large_blob>>),
           IfSome("prf", {PrfInput(prf) : prf \in exts.prf})
             \o IfSome("largeBlob", {LargeBlobAuthenticationInput(w) : w \in exts.large_blob}))

-----------------------------------------------------------------------------
(***************************************************************************)
(* Options, and their serialization.                                       *)
(***************************************************************************)
Descriptors(ids) == [i \in DOMAIN ids |-> [id |-> ids[i], transports |-> {}]]

\* exclude_credentials is a sequence of ids; the extensions are the caller's.
BeginRegistration(rp, challenge, user, exclude_credentials, extensions) ==
    [ challenge               |-> challenge,
      rp_id                   |-> rp.id,
      rp_name                 |-> rp.name,
      user                    |-> user,
      pub_key_cred_params     |-> PubKeyCredParams(rp),
      timeout_ms              |-> Timeout,
      attestation             |-> "none",
      exclude_credentials     |-> Descriptors(exclude_credentials),
      authenticator_selection |-> rp.default_authenticator_selection,
      extensions              |-> extensions ]

AuthenticationOptions(rp, challenge, allow_credentials, extensions) ==
    [ challenge         |-> challenge,
      timeout_ms        |-> Timeout,
      rp_id             |-> rp.id,
      allow_credentials |-> Descriptors(allow_credentials),
      user_verification |-> IF rp.require_user_verification THEN "required" ELSE "preferred",
      extensions        |-> extensions ]

CredentialDescriptor(d) ==
    Object(IF d.transports # {} THEN 3 ELSE 2,
           Given("type", Text("public-key")) \o Given("id", d.id)
             \o IfSome("transports", {Array(transports) : transports \in d.transports}))
CredentialDescriptors(ds) == Array([i \in DOMAIN ds |-> CredentialDescriptor(ds[i])])

\* pubKeyCredParams in some order.
PubKeyCredParamsJson(algs) ==
    Array([i \in 1 .. Cardinality(algs) |->
             Object(2, Given("type", Text("public-key")) \o Given("alg", Text(SetToSeq(algs)[i])))])

AuthenticatorSelection(selection) ==
    Object(2 + Present(<<selection.authenticator_attachment, selection.resident_key>>),
           IfSome("authenticatorAttachment", {Text(a) : a \in selection.authenticator_attachment})
             \o IfSome("residentKey", {Text(key) : key \in selection.resident_key})
             \o Given("requireResidentKey", Bool(selection.require_resident_key))
             \o Given("userVerification", Text(selection.user_verification)))

UserEntity(user) ==
    Object(3, Given("id", user.id) \o Given("name", Text(user.name))
                \o Given("displayName", Text(user.display_name)))

SerializeAuthenticationOptions(o) ==
    Object(5 + (IF o.extensions # {} THEN 1 ELSE 0),
           Given("challenge", o.challenge) \o Given("timeout", Number(o.timeout_ms))
             \o Given("rpId", Text(o.rp_id))
             \o Given("allowCredentials", CredentialDescriptors(o.allow_credentials))
             \o Given("userVerification", Text(o.user_verification))
             \o IfSome("extensions", {AuthenticationExtensions(e) : e \in o.extensions}))

SerializeRegistrationOptions(o) ==
    Object(7 + (IF o.authenticator_selection # {} THEN 1 ELSE 0)
             + (IF o.extensions # {} THEN 1 ELSE 0),
           Given("rp", Object(2, Given("id", Text(o.rp_id)) \o Given("name", Text(o.rp_name))))
             \o Given("user", UserEntity(o.user))
             \o Given("challenge", o.challenge)
             \o Given("pubKeyCredParams", PubKeyCredParamsJson(o.pub_key_cred_params))
             \o Given("timeout", Number(o.timeout_ms))
             \o Given("excludeCredentials", CredentialDescriptors(o.exclude_credentials))
             \o Given("attestation", Text(o.attestation))
             \o IfSome("authenticatorSelection",
                       {AuthenticatorSelection(s) : s \in o.authenticator_selection})
             \o IfSome("extensions", {RegistrationExtensions(e) : e \in o.extensions}))
=============================================================================
