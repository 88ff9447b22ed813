------------------------------- MODULE Client -------------------------------
(***************************************************************************)
(* The other side of a ceremony: a browser and an authenticator that read  *)
(* the options they are sent and answer them, as examples/demo.rs          *)
(* simulates them, and what the library reads of the answer.               *)
(*                                                                         *)
(* A device is [alg, public_key, aaguid, counts, backup_eligible,          *)
(* attests], its public key as `ring` encodes it.                          *)
(***************************************************************************)
EXTENDS Options, SoftwareAuthenticator, Extensions

Statements == INSTANCE Attestation

-----------------------------------------------------------------------------
(***************************************************************************)
(* External: the options, read by a browser.                               *)
(***************************************************************************)
Field(object, name) ==
    {e.value : e \in {f \in Range(object.entries) : f.text = name}}

\* The values at the end of a path of names.
At(options, path) ==
    FoldLeft(LAMBDA objects, name : UNION {Field(o, name) : o \in objects}, {options}, path)

Offered(options) ==
    UNION {{v.text : v \in Field(param, "alg")} :
              param \in UNION {Range(a.elements) : a \in Field(options, "pubKeyCredParams")}}

Allows(options, credential_id) ==
    \A list \in Field(options, "allowCredentials") :
        list.elements # <<>> =>
            \E d \in Range(list.elements) : credential_id \in Field(d, "id")

UserVerification(options) ==
    At(options, <<"authenticatorSelection", "userVerification">>)
      \union Field(options, "userVerification")

\* What an authenticator that supports every extension puts out for an input.
PrfOutput(input) ==
    IfSome("results", {CborMap(eval.entries) : eval \in Field(input, "eval")})
CredProtectOutput(input) ==
    LET policies == <<"userVerificationOptional", "userVerificationOptionalWithCredentialIDList",
                      "userVerificationRequired">>
    IN  {Number(i) : i \in {j \in DOMAIN policies :
                              Text(policies[j]) \in Field(input, "credentialProtectionPolicy")}}
LargeBlobOutput(input) ==
    IF Field(input, "read") # {} THEN Named("blob", Bytes(Octets(2, 6)))
    ELSE IF Field(input, "write") # {} THEN Named("written", Bool(TRUE))
    ELSE Named("supported", Bool(TRUE))

Output(name, input) ==
    CASE name = "credProps"    -> {CborMap(<<Named("rk", Bool(TRUE))>>) : b \in {c \in {input} : c.bool}}
      [] name = "prf"          -> {CborMap(PrfOutput(input))}
      [] name = "largeBlob"    -> {CborMap(<<LargeBlobOutput(input)>>)}
      [] name = "credProtect"  -> CredProtectOutput(input)
      [] name = "minPinLength" -> {Number(4) : b \in {c \in {input} : c.bool}}

ExtensionOutputs(options) ==
    LET inputs(name)  == UNION {Field(object, name) : object \in Field(options, "extensions")}
        outputs(name) == IfSome(name, UNION {Output(name, input) : input \in inputs(name)})
    IN  outputs("credProps") \o outputs("prf") \o outputs("largeBlob")
          \o outputs("credProtect") \o outputs("minPinLength")

-----------------------------------------------------------------------------
(***************************************************************************)
(* External: authenticator data, and the library's reading of it.  A       *)
(* device answers `s`, which is [create, rp_id, verified, backup_state,    *)
(* count, fault, outputs] at least.                                        *)
(***************************************************************************)
EncodedRsa(components) == EncodeRs256CoseKey(components.n, components.e)
CredentialKey(d) ==
    CASE d.alg = "ES256" -> EncodeEs256CoseKey(d.public_key)
      [] d.alg = "ES384" -> EncodeEs384CoseKey(d.public_key)
      [] d.alg = "EdDSA" -> EncodeEddsaCoseKey(d.public_key)
      [] d.alg = "RS256" -> EncodedRsa(ExtractRsaComponents(d.public_key))

CredentialId == Octets(16, 30)

Sent(f, octets) == IF f = "malformed" THEN Front(octets) ELSE octets

AuthenticatorDataOf(d, s) ==
    LET data ==
            [ rp_id           |-> IF s.fault = "rp_id" THEN "elsewhere" ELSE s.rp_id,
              user_present    |-> s.fault # "absent_user",
              user_verified   |-> s.verified,
              backup_eligible |-> d.backup_eligible # (s.fault = "eligibility"),
              backup_state    |-> s.backup_state,
              sign_count      |-> s.count,
              attested        |-> IF s.create /\ s.fault # "no_key"
                                  THEN {[ aaguid |-> d.aaguid, id |-> CredentialId,
                                          key |-> CredentialKey(d) ]}
                                  ELSE {},
              extensions      |-> IF s.outputs = <<>> THEN {} ELSE {Item(CborMap(s.outputs))} ]
    IN  Sent(s.fault, Encode(data))

\* As the ceremonies use it: the hash is compared as what it was taken of.
Unread == [ rp_id |-> "", user_present |-> FALSE, user_verified |-> FALSE,
            backup_eligible |-> FALSE, backup_state |-> FALSE, sign_count |-> 0,
            attested |-> {}, extensions |-> {} ]
AsUsed(parsed, octets) ==
    LET data == IF parsed.value = {} THEN Unread
                ELSE [The(parsed.value) EXCEPT !.rp_id = (The(@[1].item)).value.of]
        fields == DOMAIN Unread
    IN  [ name \in fields \union {"parse", "octets"} |->
            IF name \in fields THEN data[name]
            ELSE IF name = "parse" THEN parsed.verdict ELSE octets ]
AuthDataOf(octets) == AsUsed(ParseAuthenticatorData(octets), octets)

-----------------------------------------------------------------------------
(***************************************************************************)
(* External: packed self attestation, and the library's reading of it.     *)
(***************************************************************************)
CoseNumbers == [ES256 |-> -7, ES384 |-> -35, EdDSA |-> -8, RS256 |-> -257]
AlgName(number) == {alg \in DOMAIN CoseNumbers : CoseNumbers[alg] = number}

\* The parts of the authenticator data that attestation::verify is given.
AttestedData(ad) ==
    LET cred == The(ad.attested)
    IN  [ octets |-> ad.octets, rp_id |-> ad.rp_id, credential_id |-> cred.id,
          public_key |-> cred.public_key, aaguid |-> cred.aaguid ]

SelfAttestation(d, key, ad, client_data) ==
    CborMap(<< Named("alg", Number(CoseNumbers[d.alg])),
               Named("sig", Bytes(Cbor(Item(Statements!Signature(
                         key.id, d.alg, <<AttestedData(ad), client_data>>))))) >>)

Statement(att_stmt) ==
    [ form |-> att_stmt.type, ill_typed |-> {}, x5c |-> {},
      alg |-> UNION {AlgName(v.int) : v \in Field(att_stmt, "alg")},
      sig |-> UNION {{i.value : i \in v.octets[1].item} : v \in Field(att_stmt, "sig")} ]

\* attestation::verify, without trust anchors; not reached without a key.
Graded(verdict) == IF verdict \in Statements!AttestationTypes THEN Ok ELSE verdict
AttestationVerdict(object, ad, client_data) ==
    IF object.value = {} \/ ad.attested = {} THEN Ok
    ELSE Graded(Statements!Verify(
            [ fmt |-> (The(object.value)).fmt, stmt |-> Statement((The(object.value)).att_stmt),
              auth_data |-> AttestedData(ad), client_data |-> client_data ], {}))
=============================================================================
