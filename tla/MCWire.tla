------------------------------- MODULE MCWire --------------------------------
(***************************************************************************)
(* Authenticator data of each shape, with keys of every kind and with      *)
(* every defect the parser looks for; certificates with keys at the        *)
(* lengths where DER changes its form; TPM structures that fit a key and   *)
(* ones that differ in one field.                                          *)
(***************************************************************************)
EXTENDS Wire

Source(kind, data, expect, spots) ==
    [kind |-> kind, data |-> data, expect |-> expect, spots |-> spots]

-----------------------------------------------------------------------------
(* Keys; material of the right and of the wrong length. *)
Ec2(alg, crv, x, y) ==
    << Entry(1, Number(2)), Entry(3, Number(alg)), Entry(-1, Number(crv)),
       Entry(-2, Bytes(Octets(x, 7))), Entry(-3, Bytes(Octets(y, 8))) >>
Okp(crv, x) ==
    << Entry(1, Number(1)), Entry(3, Number(-8)), Entry(-1, Number(crv)),
       Entry(-2, Bytes(Octets(x, 7))) >>
Rsa(n, e) ==
    << Entry(1, Number(3)), Entry(3, Number(-257)), Entry(-1, Bytes(Octets(n, 7))),
       Entry(-2, Bytes(Octets(e, 3))) >>

Point(size) == Octets(1, 4) \o Octets(size, 7) \o Octets(size, 8)

SoundKeys == {EncodeEs256CoseKey(Point(32)), EncodeEs384CoseKey(Point(48)),
              EncodeEddsaCoseKey(Octets(32, 7)), EncodeRs256CoseKey(Octets(256, 7), Octets(3, 1))}

\* A defective key and the error that names its defect.
BadKeys ==
    { <<Ec2(-7, 2, 32, 32), "InvalidPublicKey">>,
      <<Ec2(-35, 2, 48, 32), "InvalidPublicKey">>,
      <<Ec2(-35, 1, 32, 32), "InvalidPublicKey">>,
      <<Ec2(-37, 1, 32, 32), "UnsupportedAlgorithm">>,
      <<Ec2(-37, 2, 48, 48), "UnsupportedAlgorithm">>,
      <<Okp(7, 32), "InvalidPublicKey">>,
      <<Okp(6, 31), "InvalidPublicKey">>,
      <<Rsa(255, 3), "InvalidPublicKey">>,
      <<Rsa(256, 0), "InvalidPublicKey">>,
      <<SubSeq(Rsa(256, 3), 1, 3), "InvalidPublicKey">>,
      <<SubSeq(Okp(6, 32), 2, 4), "InvalidPublicKey">>,
      <<<<Entry(1, Number(4))>>, "InvalidPublicKey">>,
      <<[Okp(6, 32) EXCEPT ![2] = Entry(3, Bytes(Octets(1, 7)))], "InvalidPublicKey">>,
      \* two key types in one map, and an algorithm for each
      <<<<Entry(1, Number(1))>> \o Ec2(-7, 1, 32, 32), "InvalidPublicKey">>,
      <<Okp(6, 32) \o <<Entry(-2, Bytes(Octets(31, 7)))>>, "InvalidPublicKey">> }

\* An identifier that wraps a key, as those of authenticators without storage do.
Wrapped == <<Octet(9)>> \o Cbor(Item(CborMap(Ec2(-7, 1, 32, 32)))) \o Octets(2, 99)

Cred(id, key) == {[aaguid |-> Octets(16, 5), id |-> id, key |-> key]}

Data(attested, extensions) ==
    [ rp_id |-> "example.com", user_present |-> TRUE, user_verified |-> FALSE,
      backup_eligible |-> TRUE, backup_state |-> FALSE, sign_count |-> 66051,
      attested |-> attested, extensions |-> extensions ]

NotAMap == [value |-> Scalar, len |-> 1]
Rs256 == EncodeRs256CoseKey(Octets(256, 7), Octets(3, 1))

-----------------------------------------------------------------------------
(* Extension outputs, and what the typed views must make of them. *)
NoViews == [ cred_props |-> {}, appid |-> {}, prf |-> {}, large_blob |-> {},
             cred_protect |-> {}, min_pin_length |-> {} ]

Outputs ==
    { << <<>>, NoViews >>,
      << << Named("credProps", Number(1)), Entry(2, Number(1)),
            Named("credProps", CborMap(<<Named("rk", Bool(TRUE)), Named("rk", Bool(FALSE))>>)) >>,
         [NoViews EXCEPT !.cred_props = {[rk |-> {TRUE}]}] >>,
      << << Named("credProps", CborMap(<<Named("rk", Number(1)), Named("rk", Bool(TRUE))>>)),
            Named("appid", Bool(FALSE)), Named("prf", CborMap(<<>>)) >>,
         [NoViews EXCEPT !.cred_props = {[rk |-> {}]}, !.appid = {FALSE},
                         !.prf = {[results |-> {}]}] >>,
      << << Named("prf", CborMap(<<Named("results",
               CborMap(<<Named("first", Bytes(Octets(2, 1))), Named("second", Bool(TRUE))>>))>>)),
            Named("largeBlob", CborMap(<<Named("blob", Bytes(Octets(2, 6))),
                                         Named("written", Bool(TRUE))>>)) >>,
         [NoViews EXCEPT !.prf = {[results |-> {[first |-> Octets(2, 1), second |-> {}]}]},
                         !.large_blob = {[supported |-> {}, blob |-> {Octets(2, 6)},
                                          written |-> {TRUE}]}] >>,
      << << Named("prf", CborMap(<<Named("results", CborMap(<<Named("second", Bytes(<<>>))>>))>>)) >>,
         NoViews >> }
  \union { << << Named("credProtect", Number(n)), Named("minPinLength", Number(n)) >>,
              [NoViews EXCEPT
                  !.cred_protect = CASE n = 1 -> {"UserVerificationOptional"}
                                     [] n = 2 -> {"UserVerificationOptionalWithCredentialIdList"}
                                     [] n = 3 -> {"UserVerificationRequired"}
                                     [] OTHER -> {},
                  !.min_pin_length = IF n < 0 \/ n > MaxU32 THEN {} ELSE {n}] >> :
           n \in {-1, 0, 1, 2, 3, 4, 257, 511, 512, 65535, 65536} }

NoOutputs == CHOOSE o \in Outputs : o[1] = <<>>
Ext(outputs) == {Item(CborMap(outputs[1]))}

AuthData(data, outputs, expect) ==
    [views |-> outputs[2]] @@ Source("authData", data, expect, {54, 55})

AuthDataSources ==
    { AuthData(Data({}, {}), NoOutputs, Ok),
      AuthData([Data({}, {}) EXCEPT !.backup_eligible = FALSE, !.backup_state = TRUE], NoOutputs,
               "InvalidAuthenticatorData"),
      AuthData(Data({}, {NotAMap}), NoOutputs, "InvalidAuthenticatorData"),
      AuthData(Data(Cred(Wrapped, Rs256), {}), NoOutputs, Ok),
      AuthData(Data(Cred(Wrapped, Rs256), Ext(NoOutputs)), NoOutputs, Ok),
      AuthData(Data(Cred(<<>>, Rs256), {}), NoOutputs, "InvalidAuthenticatorData"),
      AuthData(Data(Cred(Octets(1, 30), NotAMap), {}), NoOutputs, "InvalidPublicKey"),
      AuthData(Data(Cred(Octets(1023, 30), EncodeEddsaCoseKey(Octets(32, 7))), {}), NoOutputs, Ok),
      AuthData(Data(Cred(Octets(1024, 30), EncodeEddsaCoseKey(Octets(32, 7))), {}), NoOutputs,
               "InvalidAuthenticatorData") }
    \union {AuthData(Data({}, Ext(o)), o, Ok) : o \in Outputs}
    \union {AuthData(Data(Cred(Octets(1, 30), key), Ext(o)), o, Ok) :
                key \in SoundKeys, o \in {p \in Outputs : p[2].appid # {}}}
    \union {AuthData(Data(Cred(Octets(1, 30), Item(CborMap(bad[1]))), {}), NoOutputs, bad[2]) :
                bad \in BadKeys}

-----------------------------------------------------------------------------
(* Attestation objects: fields in another order, twice, of another type. *)
Fmt == Named("fmt", Text("none"))
AttStmt == Named("attStmt", CborMap(<<>>))
AuthDataField == Named("authData", Bytes(Octets(2, 37)))
None == [fmt |-> "none", auth_data |-> Octets(2, 37), att_stmt |-> CborMap(<<>>)]

AttObj(entries, object, expect) ==
    [object |-> object] @@ Source("attObj", CborMap(entries), expect, {1})

AttObjSources ==
    { AttObj(<<Fmt, AttStmt, AuthDataField>>, None, Ok),
      AttObj(<<AuthDataField, Fmt, Named("fmt", Number(1)), Entry(1, Number(1)), AttStmt>>, None, Ok),
      AttObj(<<Named("fmt", Text("tpm")), Fmt, Named("authData", Number(1)), AuthDataField, AttStmt>>,
             None, Ok),
      AttObj(<<Fmt, AttStmt, AuthDataField, Named("authData", Number(1))>>, None,
             "InvalidAttestationObject") }
    \union {AttObj(fields, None, "InvalidAttestationObject") :
               fields \in {<<Fmt, AttStmt>>, <<Fmt, AuthDataField>>, <<AttStmt, AuthDataField>>, <<>>}}

-----------------------------------------------------------------------------
(* Certificates.  Moduli of these lengths take each of the lengths around    *)
(* them past a boundary.                                                     *)
RsaCert(n, e) ==
    Source("rsaCert", [n |-> n, e |-> e, after |-> Octets(60, 48)], Ok, {17, 19, 20, 21})

RsaSources ==
    { RsaCert(Octets(size, byte), Octets(3, 1)) :
         size \in {1, 119, 120, 126, 127, 128, 246, 247, 255, 256}, byte \in {127, 128} }

\* The octets of length of the extension, which begins at octet 96.
AppleCert(critical, after) ==
    Source("appleCert",
           [point |-> Point(32), nonce |-> Octets(32, 9), critical |-> critical,
            after |-> Octets(after, 48)],
           Ok, {(IF critical THEN 109 ELSE 106) + i : i \in {2, 4, 6, 8}})

CertSources ==
    {AppleCert(critical, after) : critical \in BOOLEAN, after \in {0, 60}}
    \union {Source("ecCert", [point |-> Point(32), after |-> Octets(after, 48)], Ok, {6, 30, 31}) :
               after \in {0, 2}}

-----------------------------------------------------------------------------
(* TPM structures that fit, and ones that differ in one field. *)
EcKey == [kty |-> "EC2", x |-> Octets(32, 7), y |-> Octets(32, 8), n |-> <<>>]
RsaKey(n) == [kty |-> "RSA", x |-> <<>>, y |-> <<>>, n |-> n]

Area(type, unique, key) ==
    [type |-> type, name_alg |-> 11, policy |-> <<>>, unique |-> unique, key |-> key]

Modulus == Octets(32, 7)
Padded(n) == Octets(1, 0) \o n

Fitting ==
    LET plain == { Area(35, <<EcKey.x, EcKey.y>>, EcKey) }
                   \union { Area(1, <<n>>, RsaKey(m)) : n, m \in {Modulus, Padded(Modulus)} }
    IN  plain \union {[p EXCEPT !.name_alg = 12] : p \in plain}
              \union {[p EXCEPT !.policy = Octets(32, 7)] : p \in plain}
Unfitting ==
    LET ec == Area(35, <<EcKey.x, EcKey.y>>, EcKey)
        rsa == Area(1, <<Modulus>>, RsaKey(Modulus))
    IN  { Area(35, <<EcKey.y, EcKey.x>>, EcKey), Area(35, <<Padded(EcKey.x), EcKey.y>>, EcKey),
          Area(35, ec.unique, rsa.key), Area(1, rsa.unique, EcKey), Area(8, ec.unique, EcKey),
          Area(1, <<Octets(31, 7)>>, rsa.key), [ec EXCEPT !.name_alg = 4] }

CertInfoFor(name) ==
    [ magic |-> TpmGeneratedValue, type |-> TpmStAttestCertify, signer |-> <<>>,
      extra_data |-> Octets(32, 5), name |-> name,
      expected_extra_data |-> Octets(32, 5), expected_name |-> name ]
Certified(name) == {CertInfoFor(name), [CertInfoFor(name) EXCEPT !.signer = Octets(34, 6)]}
Uncertified ==
    LET c == CertInfoFor(U16(11) \o Octets(32, 3))
    IN  { [c EXCEPT !.magic = Octets(4, 0)], [c EXCEPT !.type = U16(0)],
          [c EXCEPT !.extra_data = Octets(32, 6)], [c EXCEPT !.extra_data = Octets(31, 5)],
          [c EXCEPT !.name = U16(12) \o Octets(32, 3)] }

TpmSources ==
    {Source("pubArea", p, Ok, {2, 4, 9, 10, 22, 24}) : p \in Fitting}
    \union {Source("pubArea", p, "InvalidAttestationObject", {2, 10}) : p \in Unfitting}
    \union {Source("certInfo", c, Ok, {6, 8, 10, 12}) :
               c \in Certified(U16(11) \o Octets(32, 3)) \union Certified(U16(12) \o Octets(48, 3))}
    \union {Source("certInfo", c, "InvalidAttestationObject", {10, 12}) : c \in Uncertified}

MCSources == AuthDataSources \union AttObjSources \union RsaSources \union CertSources \union TpmSources

\* Only the certificates whose lengths are read, for the width of a length.
DerSources == {s \in CertSources : s.kind = "appleCert"}
=============================================================================
