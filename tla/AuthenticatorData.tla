-------------------------- MODULE AuthenticatorData --------------------------
(***************************************************************************)
(* The authenticator data parser (authenticator_data.rs): a fixed header,  *)
(* then attested credential data if the AT flag is set, then extensions if *)
(* the ED flag is set, each beginning where the one before it ends.        *)
(***************************************************************************)
EXTENDS Octets

(***************************************************************************)
(* COSE keys.                                                              *)
(***************************************************************************)
\* get_int and get_bytes: the value of the first entry under the label that
\* has the type, if there is one.
Get(map, label, type) ==
    LET found == {i \in DOMAIN map.entries :
                    /\ map.entries[i].text = "" /\ map.entries[i].label = label
                    /\ map.entries[i].value.type = type}
    IN  {map.entries[i].value : i \in {j \in found : \A k \in found : j <= k}}

Has(map, label, type) == Get(map, label, type) # {}
IntIs(map, label, n) == \E v \in Get(map, label, "int") : v.int = n
LenIs(map, label, n) == \E v \in Get(map, label, "bytes") : Len(v.octets) = n

Duplicate(map) ==
    \E i, j \in DOMAIN map.entries :
        /\ i # j
        /\ map.entries[i].text = "" /\ map.entries[j].text = ""
        /\ map.entries[i].label = map.entries[j].label

\* Mutant: an error of its own.
MissingField(map, label, type) == Check(~Has(map, label, type), "MissingField")

Missing(map, label, type) == Check(~Has(map, label, type), "InvalidPublicKey")

ParseOkpKey(map) ==
    << Missing(map, 3, "int"),
       Check(~IntIs(map, 3, -8), "UnsupportedAlgorithm"),
       Missing(map, -1, "int"),
       Check(~IntIs(map, -1, 6), "InvalidPublicKey"),
       Missing(map, -2, "bytes"),
       Check(~LenIs(map, -2, 32), "InvalidPublicKey") >>

\* Mutant: whatever is not ES256 is taken for ES384.
ParseEc2AnyAlgorithm(map) ==
    LET crv  == IF IntIs(map, 3, -7) THEN 1 ELSE 2
        size == IF IntIs(map, 3, -7) THEN 32 ELSE 48
    IN  << Missing(map, 3, "int"),
           Missing(map, -1, "int"),
           Check(~IntIs(map, -1, crv), "InvalidPublicKey"),
           Check(~LenIs(map, -2, size), "InvalidPublicKey"),
           Check(~LenIs(map, -3, size), "InvalidPublicKey") >>

ParseEc2Key(map) ==
    LET crv  == IF IntIs(map, 3, -7) THEN 1 ELSE 2
        size == IF IntIs(map, 3, -7) THEN 32 ELSE 48
    IN  << Missing(map, 3, "int"),
           Missing(map, -1, "int"),
           Check(~IntIs(map, 3, -7) /\ ~IntIs(map, 3, -35), "UnsupportedAlgorithm"),
           Check(~IntIs(map, -1, crv), "InvalidPublicKey"),
           Missing(map, -2, "bytes"),
           Missing(map, -3, "bytes"),
           Check(~LenIs(map, -2, size), "InvalidPublicKey"),
           Check(~LenIs(map, -3, size), "InvalidPublicKey") >>

\* MIN_RSA_N_LEN is 256.
ParseRsaKey(map) ==
    << Missing(map, 3, "int"),
       Check(~IntIs(map, 3, -257), "UnsupportedAlgorithm"),
       Missing(map, -1, "bytes"),
       Check(\E v \in Get(map, -1, "bytes") : Len(v.octets) < 256, "InvalidPublicKey"),
       Missing(map, -2, "bytes"),
       Check(LenIs(map, -2, 0), "InvalidPublicKey") >>

\* Mutant: without the search for duplicate labels.
ParseAmbiguousKey(map) ==
    << Check(map.type # "map", "InvalidPublicKey"),
       Missing(map, 1, "int") >>
      \o CASE IntIs(map, 1, 1) -> ParseOkpKey(map)
           [] IntIs(map, 1, 2) -> ParseEc2Key(map)
           [] IntIs(map, 1, 3) -> ParseRsaKey(map)
           [] OTHER -> <<Check(TRUE, "InvalidPublicKey")>>

ParseCoseKey(map) ==
    << Check(map.type # "map", "InvalidPublicKey"),
       Check(Duplicate(map), "InvalidPublicKey"),
       Missing(map, 1, "int") >>
      \o (IF IntIs(map, 1, 1) THEN ParseOkpKey(map)
          ELSE IF IntIs(map, 1, 2) THEN ParseEc2Key(map)
          ELSE IF IntIs(map, 1, 3) THEN ParseRsaKey(map)
          ELSE <<Check(TRUE, "InvalidPublicKey")>>)

\* The typed key, in the form the ceremonies use.
CoseKey(map) ==
    [ kty |-> CASE IntIs(map, 1, 1) -> "OKP" [] IntIs(map, 1, 2) -> "EC2" [] OTHER -> "RSA",
      alg |-> CASE IntIs(map, 3, -7) -> "ES256" [] IntIs(map, 3, -35) -> "ES384"
                [] IntIs(map, 3, -8) -> "EdDSA" [] OTHER -> "RS256",
      id  |-> [label \in -3 .. -1 |-> Get(map, label, "bytes")] ]

-----------------------------------------------------------------------------
(***************************************************************************)
(* The parser.                                                             *)
(***************************************************************************)

\* MAX_CREDENTIAL_ID_LEN is 1023.
ParseAttestedCredentialData(data) ==
    IF Len(data) < 18 THEN Read("InvalidAuthenticatorData", {}, 0) ELSE
    LET cred_id_len == BigEndian(SubSeq(data, 17, 18))
        remaining   == Drop(data, 18 + cred_id_len)
        keys        == Decoded(remaining)
        early       == FirstError(
            << Check(cred_id_len = 0, "InvalidAuthenticatorData"),
               Check(cred_id_len > 1023, "InvalidAuthenticatorData"),
               Check(18 + cred_id_len > Len(data), "InvalidAuthenticatorData"),
               Check(remaining = <<>>, "InvalidAuthenticatorData"),
               Check(keys = {}, "CborDecodeError") >>)
    IN  IF early # Ok THEN Read(early, {}, 0) ELSE
        LET key == CHOOSE i \in keys : TRUE
        IN  Read(FirstError(ParseCoseKey(key.value)),
                 {[ aaguid     |-> SubSeq(data, 1, 16),
                    id         |-> SubSeq(data, 19, 18 + cred_id_len),
                    public_key |-> CoseKey(key.value) ]},
                 18 + cred_id_len + key.len)

\* Text keys only; of a repeated key the last value.
ExtensionMap(map) ==
    LET named(text) == {i \in DOMAIN map.entries : map.entries[i].text = text}
        texts == {map.entries[i].text : i \in DOMAIN map.entries} \ {""}
    IN  [text \in texts |-> map.entries[CHOOSE i \in named(text) :
                                            \A j \in named(text) : j <= i].value]

\* Mutant: no octets are no extensions.
ParseOptionalExtensions(data) ==
    LET verdict == FirstError(
            << Check(data # <<>> /\ Decoded(data) = {}, "CborDecodeError"),
               Check(\E i \in Decoded(data) : i.value.type # "map", "InvalidAuthenticatorData") >>)
    IN  Read(verdict, {ExtensionMap(i.value) : i \in Decoded(data)}, 0)

ParseExtensionMap(data) ==
    LET verdict == FirstError(
            << Check(data = <<>>, "InvalidAuthenticatorData"),
               Check(Decoded(data) = {}, "CborDecodeError"),
               Check(\E i \in Decoded(data) : i.value.type # "map", "InvalidAuthenticatorData") >>)
    IN  Read(verdict, {ExtensionMap(i.value) : i \in Decoded(data)}, 0)

\* A section that is there when its flag is set.
Section(present, parsed) == IF present THEN parsed ELSE Read(Ok, {}, 0)

ExtStart(at_bytes_consumed) == 37 + at_bytes_consumed

\* 32 octets of rpIdHash, one of flags, four of signCount, and the sections.
ParseAuthenticatorData(data) ==
    IF Len(data) < 37 THEN Read("InvalidAuthenticatorData", {}, 0) ELSE
    LET flags == data[33].byte
        at == Section(Bit(flags, 6), ParseAttestedCredentialData(Drop(data, 37)))
        ed == Section(Bit(flags, 7), ParseExtensionMap(Drop(data, ExtStart(at.consumed))))
    IN  Read(FirstError(<< Check(Bit(flags, 4) /\ ~Bit(flags, 3), "InvalidAuthenticatorData"),
                           Check(at.verdict # Ok, at.verdict),
                           Check(ed.verdict # Ok, ed.verdict) >>),
             {[ rp_id           |-> SubSeq(data, 1, 32),
                user_present    |-> Bit(flags, 0),
                user_verified   |-> Bit(flags, 2),
                backup_eligible |-> Bit(flags, 3),
                backup_state    |-> Bit(flags, 4),
                sign_count      |-> BigEndian(SubSeq(data, 34, 37)),
                attested        |-> at.value,
                extensions      |-> ed.value ]}, 0)
=============================================================================
