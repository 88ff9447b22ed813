------------------------ MODULE SoftwareAuthenticator ------------------------
(***************************************************************************)
(* The authenticator that the examples simulate (examples/demo.rs, and     *)
(* examples/mds_metadata.rs for its model), and the reader of what it      *)
(* wraps its registrations in (registration.rs, parse_attestation_object). *)
(*                                                                         *)
(* The octets of an encoded item are scaled down to ItemOctets: parsers    *)
(* only look at where it ends.                                             *)
(***************************************************************************)
EXTENDS AuthenticatorData

ItemOctets == 3
Item(value) == [value |-> value, len |-> ItemOctets]

\* u32::to_be_bytes.
U32(n) == U16(n \div 65536) \o U16(n % 65536)

-----------------------------------------------------------------------------
(***************************************************************************)
(* Keys.  A point is its prefix and two coordinates.                       *)
(***************************************************************************)
EncodeEs256CoseKey(point) ==
    Item(CborMap(<< Entry(1, Number(2)), Entry(3, Number(-7)), Entry(-1, Number(1)),
                    Entry(-2, Bytes(SubSeq(point, 2, 33))),
                    Entry(-3, Bytes(SubSeq(point, 34, 65))) >>))

EncodeEs384CoseKey(point) ==
    Item(CborMap(<< Entry(1, Number(2)), Entry(3, Number(-35)), Entry(-1, Number(2)),
                    Entry(-2, Bytes(SubSeq(point, 2, 49))),
                    Entry(-3, Bytes(SubSeq(point, 50, 97))) >>))

EncodeEddsaCoseKey(public_key) ==
    Item(CborMap(<< Entry(1, Number(1)), Entry(3, Number(-8)), Entry(-1, Number(6)),
                    Entry(-2, Bytes(public_key)) >>))

EncodeRs256CoseKey(n, e) ==
    Item(CborMap(<< Entry(1, Number(3)), Entry(3, Number(-257)), Entry(-1, Bytes(n)),
                    Entry(-2, Bytes(e)) >>))

\* A DER length: its value, and the position after it.
LengthAt(der, pos) ==
    IF der[pos].byte < 128 THEN [value |-> der[pos].byte, next |-> pos + 1]
    ELSE LET extra == der[pos].byte - 128
         IN  [value |-> BigEndian(SubSeq(der, pos + 1, pos + extra)), next |-> pos + 1 + extra]

\* One leading zero of the modulus is padding; the exponent is short.
ExtractRsaComponents(der) ==
    LET n     == LengthAt(der, LengthAt(der, 2).next + 1)
        start == IF der[n.next] = Octet(0) THEN n.next + 1 ELSE n.next
        e     == n.next + n.value
    IN  [ n |-> SubSeq(der, start, e - 1),
          e |-> SubSeq(der, e + 2, e + 1 + der[e + 1].byte) ]

-----------------------------------------------------------------------------
(***************************************************************************)
(* Authenticator data and attestation objects.  A credential is a set of   *)
(* at most one record.                                                     *)
(***************************************************************************)
AttestedCredential(cred) == cred.aaguid \o U16(Len(cred.id)) \o cred.id \o Cbor(cred.key)

\* What is in a set of at most one.
The(set) == CHOOSE v \in set : TRUE

MakeAuthenticatorData(rp_id, flags, sign_count, credential) ==
    Digest(rp_id, 32) \o Octets(1, flags) \o U32(sign_count)
      \o (IF credential = {} THEN <<>> ELSE AttestedCredential(The(credential)))

\* Authenticator data from what it means: the flags follow from the sections.
BitOf(flag, n) == IF flag THEN 2 ^ n ELSE 0

Flags(s) ==
    BitOf(s.user_present, 0) + BitOf(s.user_verified, 2) + BitOf(s.backup_eligible, 3)
      + BitOf(s.backup_state, 4) + BitOf(s.attested # {}, 6) + BitOf(s.extensions # {}, 7)

Encode(s) ==
    MakeAuthenticatorData(s.rp_id, Flags(s), s.sign_count, s.attested)
      \o (IF s.extensions = {} THEN <<>> ELSE Cbor(The(s.extensions)))

AttestationObject(fmt, att_stmt, auth_data) ==
    Cbor(Item(CborMap(<< Named("fmt", Text(fmt)), Named("attStmt", att_stmt),
                         Named("authData", Bytes(auth_data)) >>)))

MakeAttestationObject(auth_data) == AttestationObject("none", CborMap(<<>>), auth_data)

\* Where a text key is in a map, and the value that is last of some.
Under(map, text) == {i \in DOMAIN map.entries : map.entries[i].text = text}
LastOf(map, found) == {map.entries[i].value : i \in {j \in found : \A k \in found : k <= j}}

\* Of a repeated field the last counts, except that a fmt which is not text
\* is passed over.
AttestationObjectOf(map) ==
    LET fmt       == LastOf(map, {i \in Under(map, "fmt") : map.entries[i].value.type = "text"})
        auth_data == LastOf(map, Under(map, "authData"))
        att_stmt  == LastOf(map, Under(map, "attStmt"))
        absent    == \/ map.type # "map" \/ {} \in {fmt, auth_data, att_stmt}
                     \/ \E v \in auth_data : v.type # "bytes"
    IN  Read(IF absent THEN "InvalidAttestationObject" ELSE Ok,
             {[fmt |-> f.text, auth_data |-> d.octets, att_stmt |-> s] :
                 f \in fmt, d \in auth_data, s \in att_stmt}, 0)
ParseAttestationObject(data) ==
    IF Decoded(data) = {} THEN Read("CborDecodeError", {}, 0)
    ELSE AttestationObjectOf((CHOOSE i \in Decoded(data) : TRUE).value)
=============================================================================
