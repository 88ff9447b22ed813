---------------------------- MODULE Wire_proofs -----------------------------
(***************************************************************************)
(* Theorems of module Wire: what the readers answer, however a buffer was  *)
(* damaged, and that the records of module Attestation have the verdicts   *)
(* of the octets they stand for.                                           *)
(***************************************************************************)
EXTENDS Wire, Octets_proofs

-----------------------------------------------------------------------------
(***************************************************************************)
(* Keys.                                                                   *)
(***************************************************************************)

\* Without duplicates there is at most one value under a label.
LEMMA GetOne ==
    ASSUME NEW map, ~Duplicate(map), NEW label, NEW type,
           NEW v \in Get(map, label, type), NEW w \in Get(map, label, type)
    PROVE  v = w
<1> DEFINE found == {i \in DOMAIN map.entries :
                       /\ map.entries[i].text = "" /\ map.entries[i].label = label
                       /\ map.entries[i].value.type = type}
<1>1. \A u \in Get(map, label, type) : \E i \in found : u = map.entries[i].value
  BY Zenon DEF Get
<1>2. \A i, j \in found : i = j
  BY Zenon DEF Duplicate
<1> QED
  BY <1>1, <1>2, Zenon

\* The number under a label is one number.
LEMMA OneNumber ==
    ASSUME NEW map, ~Duplicate(map), NEW label, NEW m, NEW n,
           IntIs(map, label, m), IntIs(map, label, n)
    PROVE  m = n
BY GetOne, Zenon DEF IntIs

\* A key that is accepted has a type, and the algorithm of that type.
LEMMA KeyUsable ==
    ASSUME NEW map, FirstError(ParseCoseKey(map)) = Ok
    PROVE  Convertible(CoseKey(map)) /\ CoseAlg(CoseKey(map)) = CoseKey(map).alg
<1> DEFINE key == CoseKey(map)
<1>1. KeyAgrees(map)
  BY KeyVerdicts
<1>2. \A label : \A m, n : IntIs(map, label, m) /\ IntIs(map, label, n) => m = n
  BY <1>1, OneNumber, Zenon DEF KeyAgrees
<1>3. /\ key.kty = CASE IntIs(map, 1, 1) -> "OKP" [] IntIs(map, 1, 2) -> "EC2" [] OTHER -> "RSA"
      /\ key.alg = CASE IntIs(map, 3, -7) -> "ES256" [] IntIs(map, 3, -35) -> "ES384"
                     [] IntIs(map, 3, -8) -> "EdDSA" [] OTHER -> "RS256"
  BY DEF CoseKey
<1> HIDE DEF key
<1>4. CASE IntIs(map, 1, 1)
  <2>1. IntIs(map, 3, -8) /\ ~IntIs(map, 1, 2) /\ ~IntIs(map, 3, -7) /\ ~IntIs(map, 3, -35)
    BY <1>1, <1>2, <1>4 DEF KeyAgrees
  <2>2. key.kty = "OKP" /\ key.alg = "EdDSA"
    BY <1>3, <1>4, <2>1
  <2> QED
    BY <2>2 DEF Convertible, CoseAlg, key
<1>5. CASE ~IntIs(map, 1, 1) /\ IntIs(map, 1, 2)
  <2>1. IntIs(map, 3, -7) \/ IntIs(map, 3, -35)
    BY <1>1, <1>5 DEF KeyAgrees
  <2>2. key.kty = "EC2"
    BY <1>3, <1>5
  <2>3. CASE IntIs(map, 3, -7)
    <3>1. ~IntIs(map, 3, -35) /\ ~IntIs(map, 3, -8)
      BY <1>2, <2>3
    <3>2. key.alg = "ES256"
      BY <1>3, <2>3, <3>1
    <3> QED
      BY <2>2, <3>2 DEF Convertible, CoseAlg, key
  <2>4. CASE IntIs(map, 3, -35)
    <3>1. ~IntIs(map, 3, -7) /\ ~IntIs(map, 3, -8)
      BY <1>2, <2>4
    <3>2. key.alg = "ES384"
      BY <1>3, <2>4, <3>1
    <3> QED
      BY <2>2, <3>2 DEF Convertible, CoseAlg, key
  <2> QED
    BY <2>1, <2>3, <2>4
<1>6. CASE ~IntIs(map, 1, 1) /\ ~IntIs(map, 1, 2)
  <2>1. IntIs(map, 3, -257)
    BY <1>1, <1>6 DEF KeyAgrees
  <2>2. ~IntIs(map, 3, -7) /\ ~IntIs(map, 3, -35) /\ ~IntIs(map, 3, -8)
    BY <1>2, <2>1
  <2>3. key.kty = "RSA" /\ key.alg = "RS256"
    BY <1>3, <1>6, <2>2
  <2> QED
    BY <2>3 DEF Convertible, CoseAlg, key
<1> QED
  BY <1>4, <1>5, <1>6

\* A key that is reported was accepted.
LEMMA KeyAccepted ==
    ASSUME NEW data, NEW ad \in ParseAuthenticatorData(data).value, NEW cred \in ad.attested
    PROVE  \E map : FirstError(ParseCoseKey(map)) = Ok /\ cred.public_key = CoseKey(map)
<1> DEFINE rest == Drop(data, 37)
           at == Section(Bit(data[33].byte, 6), ParseAttestedCredentialData(rest))
<1>1. ad.attested = at.value
  <2> DEFINE flags == data[33].byte
             ed == Section(Bit(flags, 7), ParseExtensionMap(Drop(data, ExtStart(at.consumed))))
             verdict == FirstError(<< Check(Bit(flags, 4) /\ ~Bit(flags, 3), "InvalidAuthenticatorData"),
                                      Check(at.verdict # Ok, at.verdict),
                                      Check(ed.verdict # Ok, ed.verdict) >>)
             v == [ rp_id           |-> SubSeq(data, 1, 32),
                    user_present    |-> Bit(flags, 0),
                    user_verified   |-> Bit(flags, 2),
                    backup_eligible |-> Bit(flags, 3),
                    backup_state    |-> Bit(flags, 4),
                    sign_count      |-> BigEndian(SubSeq(data, 34, 37)),
                    attested        |-> at.value,
                    extensions      |-> ed.value ]
  <2>1. ParseAuthenticatorData(data) =
          IF Len(data) < 37 THEN Read("InvalidAuthenticatorData", {}, 0) ELSE Read(verdict, {v}, 0)
    BY DEF ParseAuthenticatorData
  <2>2. v.attested = at.value
    OBVIOUS
  <2> HIDE DEF v, verdict, at, ed, flags
  <2>3. ad = v
    BY <2>1 DEF Read
  <2> QED
    BY <2>2, <2>3
<1>2. cred \in ParseAttestedCredentialData(rest).value
  BY <1>1 DEF Section, Read
<1> HIDE DEF rest, at
<1> DEFINE cred_id_len == BigEndian(SubSeq(rest, 17, 18))
           remaining == Drop(rest, 18 + cred_id_len)
           key == CHOOSE i \in Decoded(remaining) : TRUE
<1>3. /\ FirstError(ParseCoseKey(key.value)) = Ok
      /\ cred = [ aaguid     |-> SubSeq(rest, 1, 16),
                  id         |-> SubSeq(rest, 19, 18 + cred_id_len),
                  public_key |-> CoseKey(key.value) ]
  BY <1>2 DEF ParseAttestedCredentialData, Read
<1> HIDE DEF key, cred_id_len
<1> QED
  BY <1>3

\* Every key the parser lets through, of whatever octets, is one that
\* registration can turn into a PublicKey, with the algorithm it names
\* (authenticator_data.rs:247-468, registration.rs:669-676).
THEOREM KeysUsable == Spec => []KeyAlwaysUsable
<1>1. KeyAlwaysUsable
  <2> SUFFICES ASSUME source.kind = "authData",
                      NEW ad \in Parsed.value, NEW cred \in ad.attested
               PROVE  /\ Convertible(cred.public_key)
                      /\ CoseAlg(cred.public_key) = cred.public_key.alg
    BY DEF KeyAlwaysUsable
  <2>1. Parsed = ParseAuthenticatorData(buffer)
    BY DEF Parsed
  <2> QED
    BY <2>1, KeyAccepted, KeyUsable
<1> QED
  BY <1>1, PTL

-----------------------------------------------------------------------------
(***************************************************************************)
(* The invariant: damage leaves a buffer of authenticator data a list of   *)
(* octets, with no other items than were written.                          *)
(***************************************************************************)
IInv ==
    /\ source \in Sources
    /\ damage \in 0 .. MaxDamage
    /\ source.kind = "authData" => IsBuffer(buffer)

\* What is made of octets of a buffer, and of octets without an item, is one.
LEMMA StillBuffer ==
    ASSUME NEW old, IsBuffer(old), NEW new, IsList(new),
           \A octet \in Range(new) : \E byte, item :
              /\ octet = [byte |-> byte, item |-> item]
              /\ item = {} \/ \E o \in Range(old) : item = o.item
    PROVE  IsBuffer(new)
<1> SUFFICES ASSUME NEW octet \in Range(new)
             PROVE  /\ octet = [byte |-> octet.byte, item |-> octet.item]
                    /\ \A item \in octet.item :
                          item.value.type = "map" => IsList(item.value.entries)
  BY DEF IsBuffer
<1>1. PICK byte, item : /\ octet = [byte |-> byte, item |-> item]
                        /\ item = {} \/ \E o \in Range(old) : item = o.item
  OBVIOUS
<1>2. octet.byte = byte /\ octet.item = item
  BY <1>1
<1> QED
  BY <1>1, <1>2, Zenon DEF IsBuffer

\* The elements of a list, and lists of them.
LEMMA Elements ==
    ASSUME NEW S, NEW s \in Seq(S)
    PROVE  IsList(s) /\ Range(s) \subseteq S /\ DOMAIN s = 1 .. Len(s)
<1>1. DOMAIN s = 1 .. Len(s) /\ Len(s) \in Nat /\ \A i \in DOMAIN s : s[i] \in Range(s)
  BY DEF Range
<1>2. s \in Seq(Range(s))
  <2> DEFINE R == Range(s)
  <2>1. s \in [1 .. Len(s) -> R]
    BY <1>1
  <2> HIDE DEF R
  <2>2. s \in UNION {[1 .. n -> R] : n \in Nat}
    BY <1>1, <2>1
  <2> QED
    BY <2>2, SeqDef, Zenon DEF R
<1> QED
  BY <1>1, <1>2 DEF IsList, Range

\* Every damage keeps the invariant.
LEMMA Invariance == Spec => []IInv
<1>1. Init => IInv
  <2> SUFFICES ASSUME Init PROVE IInv
    OBVIOUS
  <2>1. source \in Sources /\ damage \in 0 .. MaxDamage
    BY DamageAssumption DEF Init
  <2>2. ASSUME source.kind = "authData" PROVE IsBuffer(buffer)
    <3>1. IsBuffer(Written(source))
      BY <2>1, <2>2, SourcesAssumption
    <3>2. buffer = Written(source) \o <<>>
      BY <2>2 DEF Init, Trailer
    <3>3. Written(source) \in Seq(Range(Written(source)))
      BY <3>1 DEF IsBuffer, IsList
    <3> QED
      BY <3>1, <3>2, <3>3, ConcatEmptySeq
  <2> QED
    BY <2>1, <2>2 DEF IInv
<1>2. IInv /\ [Next]_vars => IInv'
  <2> SUFFICES ASSUME IInv, Next PROVE IInv'
    BY DEF IInv, vars
  <2>1. /\ source' = source /\ damage' \in 0 .. MaxDamage /\ source' \in Sources
    BY DamageAssumption DEF IInv, Next, Truncate, Extend, FlipFlag, Overwrite, Damage
  <2> SUFFICES ASSUME source.kind = "authData" PROVE IsBuffer(buffer')
    BY <2>1 DEF IInv
  <2> DEFINE S == Range(buffer)
  <2>2. IsBuffer(buffer) /\ buffer \in Seq(S)
    BY DEF IInv, IsBuffer, IsList
  <2>3. \A octet \in S : octet = [byte |-> octet.byte, item |-> octet.item]
    BY <2>2 DEF IsBuffer
  <2>4. DOMAIN buffer = 1 .. Len(buffer) /\ Len(buffer) \in Nat /\ \A i \in DOMAIN buffer : buffer[i] \in S
    BY <2>2
  <2>5. ASSUME NEW n \in Cuts, Truncate(n) PROVE IsBuffer(buffer')
    <3>1. buffer' = SubSeq(buffer, 1, n) /\ n \in Nat /\ n < Len(buffer)
      BY <2>5, DamageAssumption DEF Truncate, Damage
    <3> HIDE DEF S
    <3>2. buffer' \in Seq(S)
      BY <2>2, <3>1
    <3>3. IsList(buffer') /\ Range(buffer') \subseteq S
      BY <3>2, Elements
    <3> QED
      BY <2>2, <2>3, <3>3, StillBuffer DEF S
  <2>6. ASSUME Extend PROVE IsBuffer(buffer')
    <3> DEFINE zero == Octet(0)
    <3>1. buffer' = Append(buffer, zero)
      BY <2>6 DEF Extend, Damage
    <3>2. zero = [byte |-> 0, item |-> {}]
      BY DEF Octet
    <3> HIDE DEF S, zero
    <3>3. buffer' \in Seq(S \union {zero})
      BY <2>2, <3>1
    <3>4. IsList(buffer') /\ Range(buffer') \subseteq S \union {zero}
      BY <3>3, Elements
    <3> QED
      BY <2>2, <2>3, <3>2, <3>4, StillBuffer DEF S
  <2>7. ASSUME NEW i \in 1 .. Len(buffer), NEW new, buffer' = [buffer EXCEPT ![i] = new],
               NEW byte, NEW item, new = [byte |-> byte, item |-> item],
               item = {} \/ (\E o \in S : item = o.item)
        PROVE  IsBuffer(buffer')
    <3> HIDE DEF S
    <3>1. buffer' \in Seq(S \union {new})
      BY <2>2, <2>4, <2>7
    <3>2. IsList(buffer') /\ Range(buffer') \subseteq S \union {new}
      BY <3>1, Elements
    <3>3. \A octet \in Range(buffer') : \E b, it :
             /\ octet = [byte |-> b, item |-> it]
             /\ it = {} \/ \E o \in S : it = o.item
      <4> TAKE octet \in Range(buffer')
      <4>1. CASE octet = new
        BY <2>7, <4>1
      <4>2. CASE octet \in S
        BY <2>3, <4>2
      <4> QED
        BY <3>2, <4>1, <4>2
    <3> QED
      BY <2>2, <3>2, <3>3, StillBuffer DEF S
  <2>8. ASSUME NEW n \in 0 .. 7, FlipFlag(n) PROVE IsBuffer(buffer')
    <3> DEFINE old == buffer[33]
               byte == IF Bit(old.byte, n) THEN old.byte - 2 ^ n ELSE old.byte + 2 ^ n
               new == [byte |-> byte, item |-> old.item]
    <3>1. 33 \in 1 .. Len(buffer) /\ old \in S
      BY <2>4, <2>8 DEF FlipFlag
    <3>2. buffer' = [buffer EXCEPT ![33].byte = byte]
      BY <2>8 DEF FlipFlag, Damage
    <3> HIDE DEF byte
    <3>3. buffer' = [buffer EXCEPT ![33] = new]
      <4>1. old = [byte |-> old.byte, item |-> old.item]
        BY <2>3, <3>1
      <4>2. [old EXCEPT !.byte = byte] = new
        BY <4>1
      <4>3. buffer' = [buffer EXCEPT ![33] = [old EXCEPT !.byte = byte]]
        BY <3>2
      <4> QED
        BY <4>2, <4>3
    <3>4. new = [byte |-> byte, item |-> old.item] /\ \E o \in S : old.item = o.item
      BY <3>1
    <3> HIDE DEF S, old, new
    <3> QED
      BY <2>7, <3>1, <3>3, <3>4
  <2>9. ASSUME NEW i \in source.spots, NEW byte \in Damages, Overwrite(i, byte)
        PROVE  IsBuffer(buffer')
    <3>1. i \in 1 .. Len(buffer) /\ buffer' = [buffer EXCEPT ![i] = Octet(byte)]
      BY <2>4, <2>9 DEF Overwrite, Damage
    <3>2. Octet(byte) = [byte |-> byte, item |-> {}]
      BY DEF Octet
    <3> HIDE DEF S
    <3> QED
      BY <2>7, <3>1, <3>2
  <2> QED
    BY <2>5, <2>6, <2>8, <2>9 DEF Next
<1> QED
  BY <1>1, <1>2, PTL DEF Spec
-----------------------------------------------------------------------------
(***************************************************************************)
(* What the readers answer.                                                *)
(***************************************************************************)

\* The two structures of a TPM fit or do not.
LEMMA TpmVerdicts ==
    ASSUME NEW pub_area, NEW key, NEW cert_info, NEW extra_data, NEW name
    PROVE  /\ ComputePubAreaName(pub_area).verdict \in {Ok, "InvalidAttestationObject"}
           /\ VerifyPubAreaMatchesCredential(pub_area, key) \in {Ok, "InvalidAttestationObject"}
           /\ VerifyCertInfo(cert_info, extra_data, name) \in {Ok, "InvalidAttestationObject"}
<1>1. ComputePubAreaName(pub_area).verdict \in {Ok, "InvalidAttestationObject"}
  BY DEF ComputePubAreaName, Read
<1>2. VerifyPubAreaMatchesCredential(pub_area, key) \in {Ok, "InvalidAttestationObject"}
  BY Zenon DEF VerifyPubAreaMatchesCredential
<1>3. VerifyCertInfo(cert_info, extra_data, name) \in {Ok, "InvalidAttestationObject"}
  BY Zenon DEF VerifyCertInfo
<1> QED
  BY <1>1, <1>2, <1>3

\* An attestation object is read, or refused with one of two errors.
LEMMA AttestationObjectVerdicts ==
    ASSUME NEW data
    PROVE  ParseAttestationObject(data).verdict \in
             {Ok, "InvalidAttestationObject", "CborDecodeError"}
<1>0. \A verdict, value, n : Read(verdict, value, n).verdict = verdict
  BY DEF Read
<1>1. \A map : AttestationObjectOf(map).verdict \in {Ok, "InvalidAttestationObject"}
  <2> TAKE map
  <2> DEFINE fmt == LastOf(map, {i \in Under(map, "fmt") : map.entries[i].value.type = "text"})
             auth_data == LastOf(map, Under(map, "authData"))
             att_stmt == LastOf(map, Under(map, "attStmt"))
             absent == \/ map.type # "map" \/ {} \in {fmt, auth_data, att_stmt}
                       \/ \E v \in auth_data : v.type # "bytes"
             verdict == IF absent THEN "InvalidAttestationObject" ELSE Ok
             value == {[fmt |-> f.text, auth_data |-> d.octets, att_stmt |-> s] :
                         f \in fmt, d \in auth_data, s \in att_stmt}
  <2>1. AttestationObjectOf(map) = Read(verdict, value, 0)
    BY DEF AttestationObjectOf
  <2>2. verdict \in {Ok, "InvalidAttestationObject"}
    OBVIOUS
  <2> HIDE DEF verdict, value
  <2> QED
    BY <1>0, <2>1, <2>2
<1> QED
  BY <1>1 DEF ParseAttestationObject, Read

\* Every reader answers every buffer, damaged or not, with a result or one of
\* the errors its documentation names (authenticator_data.rs:172-177, 245-257;
\* registration.rs:732-785; attestation.rs:1512-1760).
THEOREM TypeCorrect == Spec => []TypeOK
<1>1. ASSUME IInv PROVE TypeOK
  <2>1. source \in Sources /\ damage \in 0 .. MaxDamage /\ source.kind \in Kinds
    BY <1>1, SourcesAssumption DEF IInv
  <2> DEFINE errors == CASE source.kind = "authData" -> {"InvalidAuthenticatorData", "CborDecodeError",
                                                        "InvalidPublicKey", "UnsupportedAlgorithm"}
                         [] source.kind = "attObj"   -> {"InvalidAttestationObject", "CborDecodeError"}
                         [] OTHER                    -> {"InvalidAttestationObject"}
  <2>0. SUFFICES Parsed.verdict \in {Ok} \union errors
    BY <2>1 DEF TypeOK
  <2>2. CASE source.kind = "authData"
    <3>1. Parsed = ParseAuthenticatorData(buffer)
      BY <2>2 DEF Parsed
    <3>2. errors = {"InvalidAuthenticatorData", "CborDecodeError", "InvalidPublicKey",
                    "UnsupportedAlgorithm"}
      BY <2>2
    <3> HIDE DEF errors
    <3> QED
      BY <3>1, <3>2, AuthenticatorDataVerdicts DEF ParserVerdicts
  <2>3. CASE source.kind = "attObj"
    <3>1. Parsed = ParseAttestationObject(buffer)
      BY <2>3 DEF Parsed
    <3>2. errors = {"InvalidAttestationObject", "CborDecodeError"}
      BY <2>3
    <3> HIDE DEF errors
    <3> QED
      BY <3>1, <3>2, AttestationObjectVerdicts
  <2>4. CASE source.kind \in Kinds \ {"authData", "attObj"}
    <3>1. errors = {"InvalidAttestationObject"}
      BY <2>4
    <3>2. \A set : Found(set).verdict \in {Ok, "InvalidAttestationObject"}
      BY DEF Found, Read
    <3>3. \A verdict : Verdict(verdict).verdict = verdict
      BY DEF Verdict, Read
    <3> HIDE DEF errors
    <3>4. Parsed.verdict \in {Ok, "InvalidAttestationObject"}
      <4>1. CASE source.kind = "rsaCert"
        <5>1. Parsed = ExtractRsaPublicKey(buffer)
          BY <4>1 DEF Parsed
        <5> QED
          BY <3>2, <5>1, Zenon DEF ExtractRsaPublicKey
      <4>2. CASE source.kind = "appleCert"
        <5>1. Parsed = ExtractAppleNonce(buffer)
          BY <4>2 DEF Parsed
        <5> QED
          BY <3>2, <5>1, Zenon DEF ExtractAppleNonce
      <4>3. CASE source.kind = "ecCert"
        <5>1. Parsed = ExtractEcP256PublicKey(buffer)
          BY <4>3 DEF Parsed
        <5> QED
          BY <3>2, <5>1, Zenon DEF ExtractEcP256PublicKey
      <4>4. CASE source.kind = "pubArea"
        <5> DEFINE named == ComputePubAreaName(buffer).verdict
                   matched == VerifyPubAreaMatchesCredential(buffer, source.data.key)
                   a == Check(named # Ok, named)
                   b == Check(matched # Ok, "InvalidAttestationObject")
                   E == {Ok, "InvalidAttestationObject"}
        <5>1. Parsed = Verdict(FirstError(<<a, b>>))
          BY <4>4 DEF Parsed
        <5>2. named \in E
          BY TpmVerdicts
        <5> HIDE DEF named, matched
        <5>3. a \in Checks(E) /\ b \in Checks(E)
          BY <5>2 DEF Checks, Check, Ok
        <5> HIDE DEF a, b
        <5>4. <<a, b>> \in Lines(E)
          BY <5>3 DEF Lines
        <5>5. FirstError(<<a, b>>) \in E
          BY <5>4, FirstErrorType
        <5> QED
          BY <3>3, <5>1, <5>5
      <4>5. CASE source.kind = "certInfo"
        <5>1. Parsed = Verdict(VerifyCertInfo(buffer, source.data.expected_extra_data,
                                              source.data.expected_name))
          BY <4>5 DEF Parsed
        <5> QED
          BY <3>3, <5>1, TpmVerdicts
      <4> QED
        BY <2>4, <4>1, <4>2, <4>3, <4>4, <4>5 DEF Kinds
    <3> QED
      BY <3>1, <3>4
  <2> QED
    BY <2>1, <2>2, <2>3, <2>4
<1> QED
  BY <1>1, Invariance, PTL

\* Two maps with the same entries at other places: neither or both have
\* duplicates, and without them each label has the same value in both.
Permuted(m, b, n) ==
    /\ n \in Nat /\ DOMAIN m.entries = 1 .. n /\ DOMAIN b.entries = 1 .. n
    /\ \A i \in 1 .. n : n - i + 1 \in 1 .. n /\ b.entries[i] = m.entries[n - i + 1]

\* Read backwards, a map has its entries at other places.
LEMMA Backwards ==
    ASSUME NEW m, IsList(m.entries)
    PROVE  Permuted(m, CborMap(Reverse(m.entries)), Len(m.entries))
<1> DEFINE e == m.entries
           R == Range(e)
           b == CborMap(Reverse(e))
           n == Len(e)
<1>1. b.entries = Reverse(e)
  BY DEF CborMap
<1>2. e \in Seq(R)
  BY DEF IsList
<1> HIDE DEF e, b, R
<1>3. n \in Nat /\ DOMAIN e = 1 .. n
  BY <1>2
<1>4. \A i \in 1 .. n : n - i + 1 \in 1 .. n
  BY <1>3
<1>5. Reverse(e) = [i \in 1 .. n |-> e[n - i + 1]]
  BY <1>3 DEF Reverse
<1> HIDE DEF n
<1>6. DOMAIN b.entries = 1 .. n /\ \A i \in 1 .. n : b.entries[i] = e[n - i + 1]
  BY <1>1, <1>5
<1>7. Permuted(m, b, n)
  BY <1>3, <1>4, <1>6 DEF Permuted, e
<1> QED
  BY <1>7 DEF b, n, e

\* What is a duplicate in one is a duplicate in the other.
LEMMA DuplicatePermuted ==
    ASSUME NEW m, NEW b, NEW n, Permuted(m, b, n), Duplicate(m)
    PROVE  Duplicate(b)
<1>1. PICK i, j \in 1 .. n :
         /\ i # j
         /\ m.entries[i].text = "" /\ m.entries[j].text = ""
         /\ m.entries[i].label = m.entries[j].label
  BY Zenon DEF Permuted, Duplicate
<1> DEFINE k == n - i + 1
           l == n - j + 1
<1>2. n \in Nat /\ k \in 1 .. n /\ l \in 1 .. n
  BY DEF Permuted
<1>3. k # l /\ n - k + 1 = i /\ n - l + 1 = j
  <2>1. i # j
    BY <1>1
  <2> QED
    BY <1>2, <2>1
<1> HIDE DEF k, l
<1>4. b.entries[k] = m.entries[i] /\ b.entries[l] = m.entries[j]
  BY <1>2, <1>3 DEF Permuted
<1>5. k \in DOMAIN b.entries /\ l \in DOMAIN b.entries
  BY <1>2 DEF Permuted
<1> QED
  BY <1>1, <1>3, <1>4, <1>5, Zenon DEF Duplicate

\* What is found in one is found in the other.
LEMMA GetPermuted ==
    ASSUME NEW m, NEW b, NEW n, Permuted(m, b, n), ~Duplicate(b), NEW label, NEW type,
           NEW v \in Get(m, label, type)
    PROVE  v \in Get(b, label, type)
<1> DEFINE found == {j \in DOMAIN b.entries :
                       /\ b.entries[j].text = "" /\ b.entries[j].label = label
                       /\ b.entries[j].value.type = type}
<1>1. PICK i \in DOMAIN m.entries : /\ m.entries[i].text = "" /\ m.entries[i].label = label
                                    /\ m.entries[i].value.type = type
                                    /\ v = m.entries[i].value
  BY Zenon DEF Get
<1> DEFINE k == n - i + 1
<1>2. k \in 1 .. n /\ n - k + 1 = i /\ k \in DOMAIN b.entries
  BY DEF Permuted
<1> HIDE DEF k
<1>3. b.entries[k] = m.entries[i]
  BY <1>2 DEF Permuted
<1>4. k \in found
  BY <1>1, <1>2, <1>3, Zenon
<1>5. \A j \in found : j = k
  BY <1>4, Zenon DEF Duplicate
<1> HIDE DEF found
<1>6. \A j \in found : k <= j
  BY <1>2, <1>5
<1>7. k \in {j \in found : \A l \in found : j <= l}
  BY <1>4, <1>6
<1> QED
  BY <1>1, <1>3, <1>7, Zenon DEF Get, found

\* Two maps of one type, in which each label has the same values, are the
\* same key, with the same verdict.
LEMMA SameKey ==
    ASSUME NEW m, NEW b, b.type = m.type, Duplicate(b) = Duplicate(m),
           \A label, type : Get(b, label, type) = Get(m, label, type)
    PROVE  ParseCoseKey(b) = ParseCoseKey(m) /\ CoseKey(b) = CoseKey(m)
<1>1. /\ \A label, type : Missing(b, label, type) = Missing(m, label, type)
      /\ \A label, n : IntIs(b, label, n) = IntIs(m, label, n)
      /\ \A label, n : LenIs(b, label, n) = LenIs(m, label, n)
  BY DEF Missing, Has, IntIs, LenIs
<1>2. ParseOkpKey(b) = ParseOkpKey(m)
  BY <1>1 DEF ParseOkpKey
<1>3. ParseEc2Key(b) = ParseEc2Key(m)
  BY <1>1 DEF ParseEc2Key
<1>4. ParseRsaKey(b) = ParseRsaKey(m)
  <2> DEFINE short(map) == \E v \in Get(map, -1, "bytes") : Len(v.octets) < 256
  <2>1. Get(b, -1, "bytes") = Get(m, -1, "bytes")
    OBVIOUS
  <2>2. short(b) = short(m)
    BY <2>1
  <2>3. \A map : ParseRsaKey(map) =
          << Missing(map, 3, "int"),
             Check(~IntIs(map, 3, -257), "UnsupportedAlgorithm"),
             Missing(map, -1, "bytes"),
             Check(short(map), "InvalidPublicKey"),
             Missing(map, -2, "bytes"),
             Check(LenIs(map, -2, 0), "InvalidPublicKey") >>
    BY DEF ParseRsaKey
  <2> HIDE DEF short
  <2> QED
    BY <1>1, <2>2, <2>3
<1>5. ParseCoseKey(b) = ParseCoseKey(m)
  BY <1>1, <1>2, <1>3, <1>4 DEF ParseCoseKey
<1>6. CoseKey(b) = CoseKey(m)
  BY <1>1 DEF CoseKey
<1> QED
  BY <1>5, <1>6

\* The order in which a COSE map is encoded does not matter: read backwards
\* it is the same key, or refused with the same error
\* (authenticator_data.rs:270-285).
THEOREM OrderIrrelevant == Spec => []KeyOrderIrrelevant
<1>1. ASSUME IInv PROVE KeyOrderIrrelevant
  <2> SUFFICES ASSUME NEW item \in ItemsWithin, source.kind = "authData", item.value.type = "map"
               PROVE  LET b == CborMap(Reverse(item.value.entries))
                          verdict == FirstError(ParseCoseKey(item.value))
                      IN  /\ FirstError(ParseCoseKey(b)) = verdict
                          /\ verdict = Ok => CoseKey(b) = CoseKey(item.value)
    BY DEF KeyOrderIrrelevant
  <2> DEFINE m == item.value
             b == CborMap(Reverse(m.entries))
             n == Len(m.entries)
  <2>1. IsList(m.entries)
    BY <1>1, Zenon DEF IInv, IsBuffer, ItemsWithin, Range
  <2>2. b.type = "map" /\ m.type = "map"
    BY DEF CborMap
  <2>3. Permuted(m, b, n)
    BY <2>1, Backwards
  <2> HIDE DEF m, b, n
  <2>4. Permuted(b, m, n)
    BY <2>3 DEF Permuted
  <2>5. CASE Duplicate(m)
    <3>1. Duplicate(b)
      BY <2>3, <2>5, DuplicatePermuted
    <3> QED
      BY <2>2, <2>5, <3>1, KeyVerdicts DEF Ok, m, b
  <2>6. CASE ~Duplicate(m)
    <3>1. ~Duplicate(b)
      BY <2>4, <2>6, DuplicatePermuted
    <3>2. \A label, type : Get(b, label, type) = Get(m, label, type)
      BY <2>3, <2>4, <2>6, <3>1, GetPermuted
    <3>3. Duplicate(b) = Duplicate(m)
      BY <2>6, <3>1, Zenon DEF Duplicate
    <3>4. ParseCoseKey(b) = ParseCoseKey(m) /\ CoseKey(b) = CoseKey(m)
      BY <2>2, <3>2, <3>3, SameKey
    <3> QED
      BY <3>4 DEF m, b
  <2> QED
    BY <2>5, <2>6
<1> QED
  BY <1>1, Invariance, PTL

-----------------------------------------------------------------------------
(***************************************************************************)
(* Octets and where they stand.                                            *)
(***************************************************************************)
\* A part stands in a row of octets behind p others.
Holds(w, p, part) ==
    /\ p + Len(part) <= Len(w)
    /\ \A i \in 1 .. Len(part) : w[p + i] = part[i]

\* What stands in two rows stands in both, one after the other.
LEMMA Grown ==
    ASSUME NEW S, NEW a \in Seq(S), NEW b \in Seq(S)
    PROVE  LET w == a \o b
           IN  /\ w \in Seq(S) /\ Len(w) = Len(a) + Len(b)
               /\ Holds(w, Len(a), b)
               /\ \A p \in Nat, part \in Seq(S) :
                     /\ Holds(a, p, part) => Holds(w, p, part)
                     /\ Holds(b, p, part) => Holds(w, Len(a) + p, part)
<1> DEFINE w == a \o b
<1>1. w \in Seq(S) /\ Joins(w, a, b) /\ Len(a) \in Nat /\ Len(b) \in Nat
  BY Joined
<1> HIDE DEF w
<1>2. /\ Len(w) = Len(a) + Len(b) /\ \A i \in 1 .. Len(a) : w[i] = a[i]
      /\ \A i \in 1 .. Len(b) : w[Len(a) + i] = b[i]
  BY <1>1 DEF Joins
<1>3. ASSUME NEW p \in Nat, NEW part \in Seq(S), Holds(a, p, part)
      PROVE  Holds(w, p, part)
  <2>1. Len(part) \in Nat
    OBVIOUS
  <2>2. \A i \in 1 .. Len(part) : p + i \in 1 .. Len(a)
    BY <1>1, <1>3, <2>1 DEF Holds
  <2> QED
    BY <1>1, <1>2, <1>3, <2>1, <2>2 DEF Holds
<1>4. ASSUME NEW p \in Nat, NEW part \in Seq(S), Holds(b, p, part)
      PROVE  Holds(w, Len(a) + p, part)
  <2>1. Len(part) \in Nat
    OBVIOUS
  <2>2. \A i \in 1 .. Len(part) : p + i \in 1 .. Len(b) /\ Len(a) + p + i = Len(a) + (p + i)
    BY <1>1, <1>4, <2>1 DEF Holds
  <2> QED
    BY <1>1, <1>2, <1>4, <2>1, <2>2 DEF Holds
<1>5. Holds(w, Len(a), b)
  BY <1>1, <1>2 DEF Holds
<1> QED
  BY <1>1, <1>2, <1>3, <1>4, <1>5 DEF w

\* A field behind its length.
LEMMA BlobIs ==
    ASSUME NEW S, PlainOctets \subseteq S, NEW o \in Seq(S)
    PROVE  /\ Blob(o) \in Seq(S) /\ Len(Blob(o)) = 2 + Len(o)
           /\ U16(Len(o)) \in Seq(S) /\ Len(U16(Len(o))) = 2 /\ BigEndian(U16(Len(o))) = Len(o)
           /\ Joins(Blob(o), U16(Len(o)), o)
<1> DEFINE u == U16(Len(o))
           b == u \o o
<1>1. Len(o) \in Nat
  OBVIOUS
<1>2. u \in Seq(S) /\ Len(u) = 2 /\ BigEndian(u) = Len(o)
  BY <1>1, U16ReadBack, SeqMonotonic
<1> HIDE DEF u
<1>3. b \in Seq(S) /\ Joins(b, u, o)
  BY <1>2, Joined
<1>4. Blob(o) = b
  BY DEF Blob, u
<1> HIDE DEF b
<1>5. Len(b) = 2 + Len(o)
  BY <1>2, <1>3 DEF Joins
<1> QED
  BY <1>2, <1>3, <1>4, <1>5 DEF u

\* Where a field stands, its length stands, and its octets behind it.
LEMMA BlobStands ==
    ASSUME NEW S, PlainOctets \subseteq S, NEW o \in Seq(S),
           NEW w \in Seq(S), NEW p \in Nat, Holds(w, p, Blob(o))
    PROVE  Holds(w, p, U16(Len(o))) /\ Holds(w, p + 2, o)
<1> DEFINE u == U16(Len(o))
           b == Blob(o)
<1>1. Len(o) \in Nat /\ Len(w) \in Nat
  OBVIOUS
<1>2. /\ Len(b) = 2 + Len(o) /\ Len(u) = 2 /\ \A i \in 1 .. 2 : b[i] = u[i]
      /\ \A i \in 1 .. Len(o) : b[2 + i] = o[i]
  <2> HIDE DEF u, b
  <2>1. Len(b) = 2 + Len(o) /\ Len(u) = 2 /\ Joins(b, u, o)
    BY BlobIs DEF u, b
  <2> QED
    BY <2>1 DEF Joins
<1> HIDE DEF u, b
<1>3. p + (2 + Len(o)) <= Len(w) /\ \A i \in 1 .. 2 + Len(o) : w[p + i] = b[i]
  BY <1>2 DEF Holds, b
<1>4. \A i \in 1 .. Len(o) : w[p + 2 + i] = o[i]
  <2> TAKE i \in 1 .. Len(o)
  <2>1. 2 + i \in 1 .. 2 + Len(o) /\ p + 2 + i = p + (2 + i)
    BY <1>1
  <2> QED
    BY <1>2, <1>3, <2>1
<1>5. \A i \in 1 .. 2 : w[p + i] = u[i]
  BY <1>1, <1>2, <1>3
<1>6. Holds(w, p, u) /\ Holds(w, p + 2, o)
  BY <1>1, <1>2, <1>3, <1>4, <1>5 DEF Holds
<1> QED
  BY <1>6 DEF u

\* What arrives of what was written: its first octets.
Begins(d, w) == Len(d) <= Len(w) /\ \A i \in 1 .. Len(d) : d[i] = w[i]

\* Where a reader starts that should have come p octets far.
From(d, from, p) ==
    \/ from.ok = TRUE /\ from.pos = p
    \/ from.ok = FALSE /\ p > Len(d)

\* A reader that is to end at `pos`, having read these octets.
Reached(d, reader, octets, pos) ==
    IF pos <= Len(d) THEN reader.ok = TRUE /\ reader.octets = octets /\ reader.pos = pos
    ELSE reader.ok = FALSE

\* The next reader starts where this one has arrived.
LEMMA FromReached ==
    ASSUME NEW S, NEW d \in Seq(S), NEW reader, NEW octets, NEW pos \in Nat,
           Reached(d, reader, octets, pos)
    PROVE  From(d, reader, pos)
<1>1. Len(d) \in Nat
  OBVIOUS
<1> QED
  BY <1>1 DEF From, Reached

\* A part that has arrived is a part of what has arrived.
LEMMA PartIs ==
    ASSUME NEW S, NEW w \in Seq(S), NEW d \in Seq(S), Begins(d, w),
           NEW part \in Seq(S), NEW p \in Nat, Holds(w, p, part), p + Len(part) <= Len(d)
    PROVE  SubSeq(d, p + 1, p + Len(part)) = part
<1> DEFINE n == Len(part)
           sub == SubSeq(d, p + 1, p + n)
<1>1. n \in Nat /\ Len(d) \in Nat /\ p + n <= Len(d)
  OBVIOUS
<1>2. \A i \in p + 1 .. p + n : d[i] \in S
  BY <1>1
<1> HIDE DEF n
<1>3. /\ sub \in Seq(S) /\ Len(sub) = IF p + 1 <= p + n THEN (p + n) - (p + 1) + 1 ELSE 0
      /\ \A i \in 1 .. (p + n) - (p + 1) + 1 : sub[i] = d[p + 1 + i - 1]
  <2> HIDE DEF sub
  <2>1. p + 1 \in Int /\ p + n \in Int
    BY <1>1
  <2> QED
    BY <1>2, <2>1, SubSeqProperties DEF sub
<1> HIDE DEF sub
<1>4. Len(sub) = n /\ \A i \in 1 .. n : sub[i] = d[p + i]
  <2>1. (p + n) - (p + 1) + 1 = n
    BY <1>1
  <2>2. ASSUME NEW i \in 1 .. n PROVE sub[i] = d[p + i]
    <3>1. p + 1 + i - 1 = p + i
      OBVIOUS
    <3> QED
      BY <1>3, <2>1, <3>1
  <2> QED
    BY <1>1, <1>3, <2>1, <2>2
<1>5. \A i \in 1 .. n : p + i \in 1 .. Len(d)
  BY <1>1
<1>6. \A i \in 1 .. n : d[p + i] = part[i]
  BY <1>5 DEF Begins, Holds, n
<1>7. sub = part
  BY <1>3, <1>4, <1>6, SeqEqual DEF n
<1> QED
  BY <1>7 DEF sub, n

\* A part of the octets is read where it stands, or they end within it.
LEMMA PartRead ==
    ASSUME NEW S, NEW w \in Seq(S), NEW d \in Seq(S), Begins(d, w),
           NEW part \in Seq(S), NEW p \in Nat, Holds(w, p, part),
           NEW from, From(d, from, p), NEW q \in Nat, p + Len(part) = q
    PROVE  /\ Reached(d, TpmRead(d, from, Len(part)), part, q)
           /\ From(d, TpmRead(d, from, Len(part)), q)
<1> DEFINE n == Len(part)
<1>1. n \in Nat /\ Len(d) \in Nat
  OBVIOUS
<1>2. ASSUME p + n <= Len(d) PROVE Reached(d, TpmRead(d, from, n), part, p + n)
  <2>1. from.ok /\ from.pos = p
    BY <1>1, <1>2 DEF From
  <2>2. SubSeq(d, p + 1, p + n) = part
    BY <1>2, PartIs
  <2> QED
    BY <1>2, <2>1, <2>2 DEF TpmRead, Reached
<1>3. ASSUME p + n > Len(d) PROVE Reached(d, TpmRead(d, from, n), part, p + n)
  <2>1. ~(from.ok /\ from.pos + n <= Len(d))
    BY <1>3 DEF From
  <2>2. ~(p + n <= Len(d))
    BY <1>1, <1>3
  <2> QED
    BY <2>1, <2>2 DEF TpmRead, Reached, Failed
<1>4. Reached(d, TpmRead(d, from, n), part, q)
  BY <1>1, <1>2, <1>3
<1>5. From(d, TpmRead(d, from, n), q)
  <2> HIDE DEF n
  <2> QED
    BY <1>4, FromReached
<1> QED
  BY <1>4, <1>5

\* So is a field behind its length.
LEMMA BlobRead ==
    ASSUME NEW S, PlainOctets \subseteq S, NEW w \in Seq(S), NEW d \in Seq(S), Begins(d, w),
           NEW o \in Seq(S), NEW p \in Nat, Holds(w, p, Blob(o)),
           NEW from, From(d, from, p), NEW q \in Nat, p + 2 + Len(o) = q
    PROVE  Reached(d, TpmReadBlob(d, from), o, q) /\ From(d, TpmReadBlob(d, from), q)
<1> DEFINE n == Len(o)
           u == U16(n)
           len == TpmRead(d, from, 2)
<1>1. n \in Nat /\ Len(d) \in Nat
  OBVIOUS
<1>2. /\ u \in Seq(S) /\ Len(u) = 2 /\ BigEndian(u) = n
      /\ Holds(w, p, u) /\ Holds(w, p + 2, o)
  <2> HIDE DEF u
  <2>1. u \in Seq(S) /\ Len(u) = 2 /\ BigEndian(u) = n
    BY BlobIs DEF u
  <2>2. Holds(w, p, u) /\ Holds(w, p + 2, o)
    BY BlobStands DEF u
  <2> QED
    BY <2>1, <2>2
<1> HIDE DEF u
<1> DEFINE m == p + 2
<1>0. m \in Nat /\ p + 2 = m /\ m + n = q
  BY <1>1
<1> HIDE DEF m
<1>3. Reached(d, len, u, m) /\ From(d, len, m) /\ Holds(w, m, o)
  <2>1. p + Len(u) = m /\ Holds(w, m, o) /\ len = TpmRead(d, from, Len(u))
    BY <1>0, <1>2
  <2> HIDE DEF len
  <2>2. /\ Reached(d, TpmRead(d, from, Len(u)), u, m)
        /\ From(d, TpmRead(d, from, Len(u)), m)
    BY <1>0, <1>2, <2>1, PartRead
  <2> QED
    BY <2>1, <2>2
<1> HIDE DEF len
<1>4. ASSUME m <= Len(d) PROVE Reached(d, TpmReadBlob(d, from), o, q)
  <2>1. len.octets = u
    BY <1>3, <1>4 DEF Reached
  <2>2. Reached(d, TpmRead(d, len, n), o, q)
    BY <1>0, <1>3, PartRead
  <2> QED
    BY <1>2, <2>1, <2>2 DEF TpmReadBlob, len
<1>5. ASSUME m > Len(d) PROVE Reached(d, TpmReadBlob(d, from), o, q)
  <2>1. len.ok = FALSE
    BY <1>0, <1>1, <1>3, <1>5 DEF Reached
  <2>2. \A k : TpmRead(d, len, k) = Failed
    BY <2>1 DEF TpmRead
  <2>3. ~(q <= Len(d))
    BY <1>0, <1>1, <1>5
  <2> QED
    BY <2>2, <2>3 DEF TpmReadBlob, Reached, Failed, len
<1>6. Reached(d, TpmReadBlob(d, from), o, q)
  BY <1>0, <1>1, <1>4, <1>5
<1>7. From(d, TpmReadBlob(d, from), q)
  BY <1>6, FromReached
<1> QED
  BY <1>6, <1>7

-----------------------------------------------------------------------------
(***************************************************************************)
(* The structures of a TPM, and what is read of their octets.              *)
(***************************************************************************)
\* Where the fields of a certInfo stand.
LEMMA CertInfoStands ==
    ASSUME NEW S, PlainOctets \subseteq S, NEW c,
           c.magic \in Seq(S), c.type \in Seq(S), c.signer \in Seq(S),
           c.extra_data \in Seq(S), c.name \in Seq(S), Len(c.magic) = 4, Len(c.type) = 2
    PROVE  LET w == CertInfo(c)
               m == Len(c.signer)
               n == Len(c.extra_data)
           IN  /\ w \in Seq(S) /\ Len(w) = 30 + m + n + Len(c.name)
               /\ \E size \in Seq(S) : Len(size) = 2 /\ Holds(w, 0, size)
               /\ Holds(w, 2, c.magic) /\ Holds(w, 6, c.type)
               /\ Holds(w, 8, Blob(c.signer)) /\ Holds(w, 10 + m, Blob(c.extra_data))
               /\ Holds(w, 12 + m + n, Octets(16, 0)) /\ Holds(w, 28 + m + n, Blob(c.name))
<1> DEFINE m == Len(c.signer)
           n == Len(c.extra_data)
           k == Len(c.name)
           signer == Blob(c.signer)
           extra == Blob(c.extra_data)
           clock == Octets(16, 0)
           name == Blob(c.name)
           a2 == c.magic \o c.type
           a3 == a2 \o signer
           a4 == a3 \o extra
           a5 == a4 \o clock
           attest == a5 \o name
           w == Blob(attest)
<1>1. /\ signer \in Seq(S) /\ Len(signer) = 2 + m /\ extra \in Seq(S) /\ Len(extra) = 2 + n
      /\ name \in Seq(S) /\ Len(name) = 2 + k
  <2>1. signer \in Seq(S) /\ Len(signer) = 2 + m
    BY BlobIs
  <2>2. extra \in Seq(S) /\ Len(extra) = 2 + n
    BY BlobIs
  <2>3. name \in Seq(S) /\ Len(name) = 2 + k
    BY BlobIs
  <2> QED
    BY <2>1, <2>2, <2>3
<1>2. clock \in Seq(S) /\ Len(clock) = 16
  <2>1. Octet(0) \in S
    BY DEF Octet, PlainOctets
  <2>2. clock \in Seq({Octet(0)}) /\ Len(clock) = 16
    BY OctetsAre
  <2> HIDE DEF clock
  <2> QED
    BY <2>1, <2>2, SeqMonotonic
<1>3. CertInfo(c) = w
  BY DEF CertInfo
<1> HIDE DEF signer, extra, clock, name, w
<1>a. m \in Nat /\ n \in Nat /\ k \in Nat
  OBVIOUS
<1> HIDE DEF m, n, k
<1> DEFINE p8 == 8 + m
           p10 == 10 + m + n
           p26 == 26 + m + n
<1>0. 0 \in Nat /\ 4 \in Nat /\ 6 \in Nat /\ p8 \in Nat /\ p10 \in Nat /\ p26 \in Nat
  BY <1>a
<1>4. /\ a2 \in Seq(S) /\ Len(a2) = 6
      /\ Holds(a2, 4, c.type) /\ Holds(a2, 0, c.magic)
  <2>1. a2 \in Seq(S) /\ Len(a2) = Len(c.magic) + Len(c.type) /\ Holds(a2, Len(c.magic), c.type)
    BY Grown
  <2>2. Holds(c.magic, 0, c.magic)
    BY DEF Holds
  <2>3. Holds(a2, 0, c.magic)
    BY <1>0, <2>2, Grown, Zenon
  <2> QED
    BY <2>1, <2>3
<1> HIDE DEF a2
<1>5. /\ a3 \in Seq(S) /\ Len(a3) = p8
      /\ Holds(a3, 6, signer) /\ Holds(a3, 4, c.type) /\ Holds(a3, 0, c.magic)
  <2>1. a3 \in Seq(S) /\ Len(a3) = Len(a2) + Len(signer) /\ Holds(a3, Len(a2), signer)
    BY <1>1, <1>4, Grown
  <2>2. Holds(a3, 4, c.type) /\ Holds(a3, 0, c.magic)
    BY <1>0, <1>1, <1>4, Grown, Zenon
  <2> QED
    BY <1>1, <1>4, <1>a, <2>1, <2>2 DEF p8
<1> HIDE DEF a3, p8
<1>6. /\ a4 \in Seq(S) /\ Len(a4) = p10 /\ Holds(a4, p8, extra)
      /\ Holds(a4, 6, signer) /\ Holds(a4, 4, c.type) /\ Holds(a4, 0, c.magic)
  <2>1. a4 \in Seq(S) /\ Len(a4) = Len(a3) + Len(extra) /\ Holds(a4, Len(a3), extra)
    BY <1>1, <1>5, Grown
  <2>2. Holds(a4, 6, signer) /\ Holds(a4, 4, c.type) /\ Holds(a4, 0, c.magic)
    BY <1>0, <1>1, <1>5, Grown, Zenon
  <2>3. p8 + (2 + n) = p10
    BY <1>a DEF p8
  <2> QED
    BY <1>1, <1>5, <2>1, <2>2, <2>3
<1> HIDE DEF a4, p10
<1>7. /\ a5 \in Seq(S) /\ Len(a5) = p26 /\ Holds(a5, p10, clock) /\ Holds(a5, p8, extra)
      /\ Holds(a5, 6, signer) /\ Holds(a5, 4, c.type) /\ Holds(a5, 0, c.magic)
  <2>1. a5 \in Seq(S) /\ Len(a5) = Len(a4) + Len(clock) /\ Holds(a5, Len(a4), clock)
    BY <1>2, <1>6, Grown
  <2>2. /\ Holds(a5, p8, extra) /\ Holds(a5, 6, signer)
        /\ Holds(a5, 4, c.type) /\ Holds(a5, 0, c.magic)
    BY <1>0, <1>1, <1>2, <1>6, Grown, Zenon
  <2>3. p10 + 16 = p26
    BY <1>a DEF p10
  <2> QED
    BY <1>2, <1>6, <2>1, <2>2, <2>3
<1> HIDE DEF a5, p26
<1>8. /\ attest \in Seq(S) /\ Len(attest) = p26 + (2 + k)
      /\ Holds(attest, p26, name) /\ Holds(attest, p10, clock) /\ Holds(attest, p8, extra)
      /\ Holds(attest, 6, signer) /\ Holds(attest, 4, c.type) /\ Holds(attest, 0, c.magic)
  <2>1. attest \in Seq(S) /\ Len(attest) = Len(a5) + Len(name) /\ Holds(attest, Len(a5), name)
    BY <1>1, <1>7, Grown
  <2>2. /\ Holds(attest, p10, clock) /\ Holds(attest, p8, extra) /\ Holds(attest, 6, signer)
        /\ Holds(attest, 4, c.type) /\ Holds(attest, 0, c.magic)
    BY <1>0, <1>1, <1>2, <1>7, Grown, Zenon
  <2> QED
    BY <1>1, <1>7, <2>1, <2>2
<1> HIDE DEF attest
<1> DEFINE size == U16(Len(attest))
<1>9. /\ size \in Seq(S) /\ Len(size) = 2 /\ w \in Seq(S) /\ Len(w) = 2 + Len(attest)
      /\ w = size \o attest
  <2>1. w = size \o attest
    BY DEF w, Blob
  <2> HIDE DEF size
  <2>2. size \in Seq(S) /\ Len(size) = 2 /\ w \in Seq(S) /\ Len(w) = 2 + Len(attest)
    BY <1>8, BlobIs DEF w, size
  <2> QED
    BY <2>1, <2>2
<1> HIDE DEF size
<1>10. /\ Holds(w, 0, size)
       /\ \A p \in Nat, part \in Seq(S) : Holds(attest, p, part) => Holds(w, 2 + p, part)
  <2>1. Holds(size, 0, size)
    BY <1>9 DEF Holds
  <2>2. Holds(w, 0, size)
    BY <1>0, <1>8, <1>9, <2>1, Grown, Zenon
  <2>3. \A p \in Nat, part \in Seq(S) : Holds(attest, p, part) => Holds(w, Len(size) + p, part)
    BY <1>8, <1>9, Grown, Zenon
  <2> QED
    BY <1>9, <2>2, <2>3
<1>11. /\ Holds(w, 2 + 0, c.magic) /\ Holds(w, 2 + 4, c.type) /\ Holds(w, 2 + 6, signer)
       /\ Holds(w, 2 + p8, extra) /\ Holds(w, 2 + p10, clock) /\ Holds(w, 2 + p26, name)
  BY <1>0, <1>1, <1>2, <1>8, <1>10, Zenon
<1>12. /\ 2 + 0 = 2 /\ 2 + 4 = 6 /\ 2 + 6 = 8 /\ 2 + p8 = 10 + m /\ 2 + p10 = 12 + m + n
       /\ 2 + p26 = 28 + m + n /\ 2 + (p26 + (2 + k)) = 30 + m + n + k
  BY <1>a DEF p8, p10, p26
<1>13. /\ Holds(w, 2, c.magic) /\ Holds(w, 6, c.type) /\ Holds(w, 8, signer)
       /\ Holds(w, 10 + m, extra) /\ Holds(w, 12 + m + n, clock) /\ Holds(w, 28 + m + n, name)
  BY <1>11, <1>12, Zenon
<1>14. Len(w) = 30 + m + n + k
  BY <1>8, <1>9, <1>12
<1>15. /\ w \in Seq(S) /\ Len(w) = 30 + m + n + k
       /\ \E z \in Seq(S) : Len(z) = 2 /\ Holds(w, 0, z)
       /\ Holds(w, 2, c.magic) /\ Holds(w, 6, c.type) /\ Holds(w, 8, signer)
       /\ Holds(w, 10 + m, extra) /\ Holds(w, 12 + m + n, clock) /\ Holds(w, 28 + m + n, name)
  BY <1>9, <1>10, <1>13, <1>14
<1> QED
  BY <1>3, <1>15, Zenon DEF signer, extra, clock, name, m, n, k

\* A certInfo is accepted if it is whole, and its fields are those expected.
LEMMA CertInfoRead ==
    ASSUME NEW S, PlainOctets \subseteq S, NEW c,
           c.magic \in Seq(S), c.type \in Seq(S), c.signer \in Seq(S),
           c.extra_data \in Seq(S), c.name \in Seq(S), Len(c.magic) = 4, Len(c.type) = 2,
           NEW d \in Seq(S), Begins(d, CertInfo(c)), NEW expected_extra_data, NEW expected_name
    PROVE  VerifyCertInfo(d, expected_extra_data, expected_name) =
             IF /\ Len(d) = Len(CertInfo(c))
                /\ c.magic = TpmGeneratedValue /\ c.type = TpmStAttestCertify
                /\ c.extra_data = expected_extra_data /\ c.name = expected_name
             THEN Ok ELSE "InvalidAttestationObject"
<1> DEFINE w == CertInfo(c)
           m == Len(c.signer)
           n == Len(c.extra_data)
           k == Len(c.name)
           clock == Octets(16, 0)
           skipped == TpmRead(d, Start(0), 2)
           magic == TpmRead(d, skipped, 4)
           attest_type == TpmRead(d, magic, 2)
           signer == TpmReadBlob(d, attest_type)
           extra_data == TpmReadBlob(d, signer)
           clocked == TpmRead(d, extra_data, 16)
           attested_name == TpmReadBlob(d, clocked)
<1>1. m \in Nat /\ n \in Nat /\ k \in Nat /\ Len(d) \in Nat
  OBVIOUS
<1> HIDE DEF m, n, k
<1>2. /\ w \in Seq(S) /\ Len(w) = 30 + m + n + k
      /\ \E size \in Seq(S) : Len(size) = 2 /\ Holds(w, 0, size)
      /\ Holds(w, 2, c.magic) /\ Holds(w, 6, c.type)
      /\ Holds(w, 8, Blob(c.signer)) /\ Holds(w, 10 + m, Blob(c.extra_data))
      /\ Holds(w, 12 + m + n, clock) /\ Holds(w, 28 + m + n, Blob(c.name))
  BY <1>1, CertInfoStands DEF m, n, k
<1>3. clock \in Seq(S) /\ Len(clock) = 16
  <2>1. Octet(0) \in S
    BY DEF Octet, PlainOctets
  <2>2. clock \in Seq({Octet(0)}) /\ Len(clock) = 16
    BY OctetsAre
  <2> HIDE DEF clock
  <2> QED
    BY <2>1, <2>2, SeqMonotonic
<1>4. Begins(d, w)
  OBVIOUS
<1>5. VerifyCertInfo(d, expected_extra_data, expected_name) =
        IF /\ attested_name.ok
           /\ magic.octets = TpmGeneratedValue /\ attest_type.octets = TpmStAttestCertify
           /\ extra_data.octets = expected_extra_data /\ attested_name.octets = expected_name
        THEN Ok ELSE "InvalidAttestationObject"
  BY DEF VerifyCertInfo
<1> HIDE DEF w, clock
<1>6. PICK size \in Seq(S) : Len(size) = 2 /\ Holds(w, 0, size)
  BY <1>2
<1> DEFINE p0 == 0
           p2 == 2
           p6 == 6
           p8 == 8
           p10 == 10 + m
           p12 == 12 + m + n
           p28 == 28 + m + n
           end == 30 + m + n + k
<1>7. /\ p0 \in Nat /\ p2 \in Nat /\ p6 \in Nat /\ p8 \in Nat /\ p10 \in Nat /\ p12 \in Nat
      /\ p28 \in Nat /\ end \in Nat
      /\ p0 + Len(size) = p2 /\ p2 + Len(c.magic) = p6 /\ p6 + Len(c.type) = p8
      /\ p8 + 2 + m = p10 /\ p10 + 2 + n = p12 /\ p12 + Len(clock) = p28 /\ p28 + 2 + k = end
  BY <1>1, <1>3, <1>6
<1>8. /\ Len(w) = end /\ Holds(w, p0, size) /\ Holds(w, p2, c.magic) /\ Holds(w, p6, c.type)
      /\ Holds(w, p8, Blob(c.signer)) /\ Holds(w, p10, Blob(c.extra_data)) /\ Holds(w, p12, clock)
      /\ Holds(w, p28, Blob(c.name)) /\ w \in Seq(S)
  BY <1>2, <1>6
<1>9. From(d, skipped, p2)
  <2>1. skipped = TpmRead(d, Start(p0), Len(size))
    BY <1>6
  <2> HIDE DEF skipped, p0, p2, p6, p8, p10, p12, p28, end
  <2>2. From(d, Start(p0), p0)
    BY DEF From, Start
  <2> QED
    BY <1>4, <1>7, <1>8, <2>1, <2>2, PartRead
<1> HIDE DEF skipped, p0, p2, p6, p8, p10, p12, p28, end
<1>10. Reached(d, magic, c.magic, p6) /\ From(d, magic, p6)
  <2>1. magic = TpmRead(d, skipped, Len(c.magic))
    OBVIOUS
  <2>2. /\ p2 \in Nat /\ p6 \in Nat /\ p2 + Len(c.magic) = p6
        /\ Holds(w, p2, c.magic) /\ c.magic \in Seq(S) /\ w \in Seq(S)
    BY <1>7, <1>8
  <2> HIDE DEF magic
  <2>3. Reached(d, TpmRead(d, skipped, Len(c.magic)), c.magic, p6)
    BY <1>4, <1>9, <2>2, PartRead
  <2>4. From(d, TpmRead(d, skipped, Len(c.magic)), p6)
    BY <1>4, <1>9, <2>2, PartRead
  <2> QED
    BY <2>1, <2>3, <2>4
<1> HIDE DEF magic
<1>11. Reached(d, attest_type, c.type, p8) /\ From(d, attest_type, p8)
  <2>1. attest_type = TpmRead(d, magic, Len(c.type))
    OBVIOUS
  <2>2. /\ p6 \in Nat /\ p8 \in Nat /\ p6 + Len(c.type) = p8
        /\ Holds(w, p6, c.type) /\ c.type \in Seq(S) /\ w \in Seq(S)
    BY <1>7, <1>8
  <2> HIDE DEF attest_type
  <2>3. Reached(d, TpmRead(d, magic, Len(c.type)), c.type, p8)
    BY <1>4, <1>10, <2>2, PartRead
  <2>4. From(d, TpmRead(d, magic, Len(c.type)), p8)
    BY <1>4, <1>10, <2>2, PartRead
  <2> QED
    BY <2>1, <2>3, <2>4
<1> HIDE DEF attest_type
<1>12. From(d, signer, p10)
  <2>1. signer = TpmReadBlob(d, attest_type)
    OBVIOUS
  <2>2. /\ p8 \in Nat /\ p10 \in Nat /\ p8 + 2 + Len(c.signer) = p10
        /\ Holds(w, p8, Blob(c.signer)) /\ w \in Seq(S)
    BY <1>7, <1>8 DEF m
  <2> HIDE DEF signer
  <2> QED
    BY <1>4, <1>11, <2>1, <2>2, BlobRead
<1> HIDE DEF signer
<1>13. Reached(d, extra_data, c.extra_data, p12) /\ From(d, extra_data, p12)
  <2>1. extra_data = TpmReadBlob(d, signer)
    OBVIOUS
  <2>2. /\ p10 \in Nat /\ p12 \in Nat /\ p10 + 2 + Len(c.extra_data) = p12
        /\ Holds(w, p10, Blob(c.extra_data)) /\ w \in Seq(S)
    BY <1>7, <1>8 DEF n
  <2> HIDE DEF extra_data
  <2>3. Reached(d, TpmReadBlob(d, signer), c.extra_data, p12)
    BY <1>4, <1>12, <2>2, BlobRead
  <2>4. From(d, TpmReadBlob(d, signer), p12)
    BY <1>4, <1>12, <2>2, BlobRead
  <2> QED
    BY <2>1, <2>3, <2>4
<1> HIDE DEF extra_data
<1>14. From(d, clocked, p28)
  <2>1. clocked = TpmRead(d, extra_data, Len(clock))
    BY <1>3
  <2>2. /\ p12 \in Nat /\ p28 \in Nat /\ p12 + Len(clock) = p28
        /\ Holds(w, p12, clock) /\ clock \in Seq(S) /\ w \in Seq(S)
    BY <1>3, <1>7, <1>8
  <2> HIDE DEF clocked
  <2> QED
    BY <1>4, <1>13, <2>1, <2>2, PartRead
<1> HIDE DEF clocked
<1>15. Reached(d, attested_name, c.name, end)
  <2>1. attested_name = TpmReadBlob(d, clocked)
    OBVIOUS
  <2>2. /\ p28 \in Nat /\ end \in Nat /\ p28 + 2 + Len(c.name) = end
        /\ Holds(w, p28, Blob(c.name)) /\ w \in Seq(S)
    BY <1>7, <1>8 DEF k
  <2> HIDE DEF attested_name
  <2>3. Reached(d, TpmReadBlob(d, clocked), c.name, end)
    BY <1>4, <1>14, <2>2, BlobRead
  <2>4. From(d, TpmReadBlob(d, clocked), end)
    BY <1>4, <1>14, <2>2, BlobRead
  <2> QED
    BY <2>1, <2>3, <2>4
<1> HIDE DEF attested_name
<1>16. CASE Len(d) = Len(w)
  <2>1. p6 <= Len(d) /\ p8 <= Len(d) /\ p12 <= Len(d) /\ end <= Len(d)
    BY <1>1, <1>8, <1>16 DEF p6, p8, p12, end
  <2>2. /\ attested_name.ok /\ attested_name.octets = c.name
        /\ magic.octets = c.magic /\ attest_type.octets = c.type /\ extra_data.octets = c.extra_data
    BY <1>10, <1>11, <1>13, <1>15, <2>1 DEF Reached
  <2> QED
    BY <1>5, <1>16, <2>2 DEF w
<1>17. CASE Len(d) # Len(w)
  <2>1. ~(end <= Len(d))
    BY <1>1, <1>4, <1>7, <1>8, <1>17 DEF Begins
  <2>2. ~attested_name.ok
    BY <1>15, <2>1 DEF Reached
  <2> QED
    BY <1>5, <1>17, <2>2 DEF w
<1> QED
  BY <1>16, <1>17

\* What stands in a part stands in the whole.
LEMMA HoldsWithin ==
    ASSUME NEW S, NEW w \in Seq(S), NEW part \in Seq(S), NEW inner \in Seq(S),
           NEW p \in Nat, NEW q \in Nat, Holds(w, p, part), Holds(part, q, inner),
           NEW r \in Nat, p + q = r
    PROVE  Holds(w, r, inner)
<1>1. Len(w) \in Nat /\ Len(part) \in Nat /\ Len(inner) \in Nat
  OBVIOUS
<1>2. p + Len(part) <= Len(w) /\ q + Len(inner) <= Len(part)
  BY DEF Holds
<1>3. ASSUME NEW i \in 1 .. Len(inner) PROVE w[p + q + i] = inner[i]
  <2>1. q + i \in 1 .. Len(part) /\ p + q + i = p + (q + i)
    BY <1>1, <1>2
  <2>2. part[q + i] = inner[i]
    BY DEF Holds
  <2>3. w[p + (q + i)] = part[q + i]
    BY <2>1 DEF Holds
  <2> QED
    BY <2>1, <2>2, <2>3
<1> QED
  BY <1>1, <1>2, <1>3 DEF Holds

\* One or two lists after each other.
LEMMA FlattenOf1 ==
    ASSUME NEW s, Len(s) = 1
    PROVE  FlattenSeq(s) = s[1]
<1> DEFINE Is(f) == f = [i \in 1 .. Len(s) |-> IF i = 1 THEN s[i] ELSE f[i - 1] \o s[i]]
           flatten == CHOOSE f : Is(f)
           g == [i \in 1 .. 1 |-> s[1]]
<1>1. FlattenSeq(s) = flatten[1]
  BY DEF FlattenSeq
<1>2. Is(g)
  OBVIOUS
<1>3. Is(flatten)
  BY <1>2
<1> HIDE DEF flatten
<1>4. flatten[1] = s[1]
  BY <1>3
<1> QED
  BY <1>1, <1>4

\* Two parts, one after the other.
LEMMA FlattenOf2 ==
    ASSUME NEW s, Len(s) = 2
    PROVE  FlattenSeq(s) = s[1] \o s[2]
<1> DEFINE Is(f) == f = [i \in 1 .. Len(s) |-> IF i = 1 THEN s[i] ELSE f[i - 1] \o s[i]]
           flatten == CHOOSE f : Is(f)
           g == [i \in 1 .. 2 |-> IF i = 1 THEN s[1] ELSE s[1] \o s[2]]
<1>1. FlattenSeq(s) = flatten[2]
  BY DEF FlattenSeq
<1>2. Is(g)
  OBVIOUS
<1>3. Is(flatten)
  BY <1>2
<1> HIDE DEF flatten
<1>4. flatten[1] = s[1] /\ flatten[2] = flatten[1] \o s[2]
  BY <1>3
<1> QED
  BY <1>1, <1>4

\* What follows the parameters of a pubArea: the material of the key.
Unique(p) == FlattenSeq([i \in DOMAIN p.unique |-> Blob(p.unique[i])])

\* Where the fields of a pubArea stand.
LEMMA PubAreaStands ==
    ASSUME NEW S, PlainOctets \subseteq S, NEW p, p.type \in Nat, p.name_alg \in Nat,
           p.policy \in Seq(S), Unique(p) \in Seq(S)
    PROVE  LET w == PubArea(p)
               start == 10 + Len(p.policy) + (IF p.type = 35 THEN 10 ELSE 12)
           IN  /\ w \in Seq(S) /\ Len(w) = start + Len(Unique(p))
               /\ Holds(w, 0, U16(p.type)) /\ Holds(w, 2, U16(p.name_alg))
               /\ Holds(w, 8, Blob(p.policy)) /\ Holds(w, start, Unique(p))
<1> DEFINE m == Len(p.policy)
           skip == IF p.type = 35 THEN 10 ELSE 12
           start == 10 + m + skip
           type == U16(p.type)
           alg == U16(p.name_alg)
           attributes == Octets(4, 0)
           policy == Blob(p.policy)
           params == Octets(skip, 0)
           unique == Unique(p)
           a2 == type \o alg
           a3 == a2 \o attributes
           a4 == a3 \o policy
           a5 == a4 \o params
           w == a5 \o unique
<1>1. PubArea(p) = w
  BY DEF PubArea, Unique
<1>2. m \in Nat /\ skip \in Nat /\ Len(unique) \in Nat
  OBVIOUS
<1> HIDE DEF m, skip
<1>3. /\ type \in Seq(S) /\ Len(type) = 2 /\ alg \in Seq(S) /\ Len(alg) = 2
      /\ policy \in Seq(S) /\ Len(policy) = 2 + m
  <2>1. type \in Seq(S) /\ Len(type) = 2
    BY U16ReadBack, SeqMonotonic
  <2>2. alg \in Seq(S) /\ Len(alg) = 2
    BY U16ReadBack, SeqMonotonic
  <2>3. policy \in Seq(S) /\ Len(policy) = 2 + m
    BY BlobIs DEF m
  <2> QED
    BY <2>1, <2>2, <2>3
<1>4. /\ attributes \in Seq(S) /\ Len(attributes) = 4
      /\ params \in Seq(S) /\ Len(params) = skip
  <2>1. Octet(0) \in S
    BY DEF Octet, PlainOctets
  <2>2. attributes \in Seq({Octet(0)}) /\ Len(attributes) = 4
    BY OctetsAre
  <2>3. params \in Seq({Octet(0)}) /\ Len(params) = skip
    BY <1>2, OctetsAre
  <2> HIDE DEF attributes, params
  <2> QED
    BY <2>1, <2>2, <2>3, SeqMonotonic
<1> DEFINE p10 == 10 + m
<1>5. 0 \in Nat /\ 2 \in Nat /\ 8 \in Nat /\ p10 \in Nat /\ start \in Nat
  BY <1>2
<1> HIDE DEF type, alg, attributes, policy, params, unique
<1>6. a2 \in Seq(S) /\ Len(a2) = 4 /\ Holds(a2, 2, alg) /\ Holds(a2, 0, type)
  <2>1. a2 \in Seq(S) /\ Len(a2) = Len(type) + Len(alg) /\ Holds(a2, Len(type), alg)
    BY <1>3, Grown
  <2>2. Holds(type, 0, type)
    BY <1>3 DEF Holds
  <2>3. Holds(a2, 0, type)
    BY <1>3, <1>5, <2>2, Grown, Zenon
  <2> QED
    BY <1>3, <2>1, <2>3
<1> HIDE DEF a2
<1>7. a3 \in Seq(S) /\ Len(a3) = 8 /\ Holds(a3, 2, alg) /\ Holds(a3, 0, type)
  <2>1. a3 \in Seq(S) /\ Len(a3) = Len(a2) + Len(attributes)
    BY <1>4, <1>6, Grown
  <2>2. Holds(a3, 2, alg) /\ Holds(a3, 0, type)
    BY <1>3, <1>4, <1>5, <1>6, Grown, Zenon
  <2> QED
    BY <1>4, <1>6, <2>1, <2>2
<1> HIDE DEF a3
<1>8. /\ a4 \in Seq(S) /\ Len(a4) = p10 /\ Holds(a4, 8, policy)
      /\ Holds(a4, 2, alg) /\ Holds(a4, 0, type)
  <2>1. a4 \in Seq(S) /\ Len(a4) = Len(a3) + Len(policy) /\ Holds(a4, Len(a3), policy)
    BY <1>3, <1>7, Grown
  <2>2. Holds(a4, 2, alg) /\ Holds(a4, 0, type)
    BY <1>3, <1>5, <1>7, Grown, Zenon
  <2>3. 8 + (2 + m) = p10
    BY <1>2
  <2> QED
    BY <1>3, <1>7, <2>1, <2>2, <2>3
<1> HIDE DEF a4, p10
<1>9. /\ a5 \in Seq(S) /\ Len(a5) = start /\ Holds(a5, 8, policy)
      /\ Holds(a5, 2, alg) /\ Holds(a5, 0, type)
  <2>1. a5 \in Seq(S) /\ Len(a5) = Len(a4) + Len(params)
    BY <1>4, <1>8, Grown
  <2>2. Holds(a5, 8, policy) /\ Holds(a5, 2, alg) /\ Holds(a5, 0, type)
    BY <1>3, <1>4, <1>5, <1>8, Grown, Zenon
  <2>3. p10 + skip = start
    BY DEF p10
  <2> QED
    BY <1>4, <1>8, <2>1, <2>2, <2>3
<1> HIDE DEF a5, start
<1>10. /\ w \in Seq(S) /\ Len(w) = start + Len(unique) /\ Holds(w, start, unique)
       /\ Holds(w, 8, policy) /\ Holds(w, 2, alg) /\ Holds(w, 0, type)
  <2>0. unique \in Seq(S)
    BY DEF unique
  <2>1. w \in Seq(S) /\ Len(w) = Len(a5) + Len(unique) /\ Holds(w, Len(a5), unique)
    BY <1>9, <2>0, Grown
  <2>2. Holds(w, 8, policy) /\ Holds(w, 2, alg) /\ Holds(w, 0, type)
    BY <1>3, <1>5, <1>9, <2>0, Grown, Zenon
  <2> QED
    BY <1>9, <2>1, <2>2
<1> HIDE DEF w
<1> QED
  BY <1>1, <1>10, Zenon DEF start, m, skip, type, alg, policy, unique

\* The material of an RSA key is one field.
LEMMA UniqueOf1 ==
    ASSUME NEW S, PlainOctets \subseteq S, NEW p, IsList(p.unique), Len(p.unique) = 1,
           p.unique[1] \in Seq(S)
    PROVE  Unique(p) = Blob(p.unique[1]) /\ Unique(p) \in Seq(S)
<1> DEFINE s == [i \in DOMAIN p.unique |-> Blob(p.unique[i])]
<1>1. DOMAIN p.unique = 1 .. 1
  BY DEF IsList
<1>2. Len(s) = 1 /\ s[1] = Blob(p.unique[1])
  BY <1>1
<1>3. Unique(p) = FlattenSeq(s)
  BY DEF Unique
<1> HIDE DEF s
<1>4. Unique(p) = Blob(p.unique[1])
  BY <1>2, <1>3, FlattenOf1
<1> QED
  BY <1>4, BlobIs

\* The coordinates of an ECC key stand one after the other.
LEMMA UniqueOf2 ==
    ASSUME NEW S, PlainOctets \subseteq S, NEW p, IsList(p.unique), Len(p.unique) = 2,
           NEW x \in Seq(S), p.unique[1] = x, NEW y \in Seq(S), p.unique[2] = y,
           NEW m, m = 2 + Len(x)
    PROVE  /\ Unique(p) \in Seq(S) /\ Len(Unique(p)) = m + 2 + Len(y)
           /\ Holds(Unique(p), 0, Blob(x)) /\ Holds(Unique(p), m, Blob(y))
<1> DEFINE s == [i \in DOMAIN p.unique |-> Blob(p.unique[i])]
           a == Blob(x)
           b == Blob(y)
<1>1. DOMAIN p.unique = 1 .. 2
  BY DEF IsList
<1>2. Len(s) = 2 /\ s[1] = a /\ s[2] = b
  BY <1>1
<1>3. Unique(p) = FlattenSeq(s)
  BY DEF Unique
<1> HIDE DEF s, a, b
<1>4. Unique(p) = a \o b
  BY <1>2, <1>3, FlattenOf2
<1>5. a \in Seq(S) /\ Len(a) = 2 + Len(x) /\ b \in Seq(S) /\ Len(b) = 2 + Len(y)
  BY BlobIs DEF a, b
<1>6. Holds(a, 0, a) /\ 0 \in Nat
  BY <1>5 DEF Holds
<1> DEFINE u == a \o b
<1>7. u \in Seq(S) /\ Len(u) = Len(a) + Len(b) /\ Holds(u, Len(a), b)
  BY <1>5, Grown
<1>8. Holds(u, 0, a)
  BY <1>5, <1>6, Grown, Zenon
<1> HIDE DEF u
<1>9. Len(a) = m /\ Len(u) = m + 2 + Len(y)
  BY <1>5, <1>7
<1>10. u \in Seq(S) /\ Len(u) = m + 2 + Len(y) /\ Holds(u, 0, a) /\ Holds(u, m, b)
  BY <1>7, <1>8, <1>9
<1> QED
  BY <1>4, <1>10 DEF u, a, b

\* A pubArea that comes with its parameters has its type and its name's
\* algorithm where they are read, and what the policy's length says.
LEMMA PubAreaHeader ==
    ASSUME NEW S, PlainOctets \subseteq S, NEW p, p.type \in Nat, p.name_alg \in Nat,
           p.policy \in Seq(S), Unique(p) \in Seq(S),
           NEW d \in Seq(S), Begins(d, PubArea(p)), Len(d) >= 10
    PROVE  /\ BigEndian(SubSeq(d, 1, 2)) = p.type /\ SubSeq(d, 3, 4) = U16(p.name_alg)
           /\ BigEndian(SubSeq(d, 9, 10)) = Len(p.policy)
<1> DEFINE w == PubArea(p)
           type == U16(p.type)
           alg == U16(p.name_alg)
           size == U16(Len(p.policy))
<1>1. /\ w \in Seq(S) /\ Holds(w, 0, type) /\ Holds(w, 2, alg) /\ Holds(w, 8, Blob(p.policy))
  BY PubAreaStands
<1>2. /\ type \in Seq(S) /\ Len(type) = 2 /\ BigEndian(type) = p.type
      /\ alg \in Seq(S) /\ Len(alg) = 2
  <2>1. type \in Seq(S) /\ Len(type) = 2 /\ BigEndian(type) = p.type
    BY U16ReadBack, SeqMonotonic
  <2>2. alg \in Seq(S) /\ Len(alg) = 2
    BY U16ReadBack, SeqMonotonic
  <2> QED
    BY <2>1, <2>2
<1>3. size \in Seq(S) /\ Len(size) = 2 /\ BigEndian(size) = Len(p.policy)
  BY BlobIs
<1>4. Begins(d, w) /\ Len(d) \in Nat
  OBVIOUS
<1> HIDE DEF w, type, alg, size
<1> DEFINE p8 == 8
<1>5. Holds(w, p8, size)
  <2>1. p8 \in Nat /\ Holds(w, p8, Blob(p.policy))
    BY <1>1
  <2> HIDE DEF p8
  <2> QED
    BY <1>1, <2>1, BlobStands DEF size
<1> HIDE DEF p8
<1>6. ASSUME NEW q \in Nat, NEW part \in Seq(S), Holds(w, q, part), Len(part) = 2, q + 2 <= 10
      PROVE  SubSeq(d, q + 1, q + 2) = part
  <2>1. q + Len(part) <= Len(d)
    BY <1>4, <1>6
  <2>0. w \in Seq(S) /\ Begins(d, w) /\ Holds(w, q, part)
    BY <1>1, <1>4, <1>6
  <2>2. SubSeq(d, q + 1, q + Len(part)) = part
    BY <2>0, <2>1, PartIs, Zenon
  <2> QED
    BY <1>6, <2>2
<1>7. SubSeq(d, 0 + 1, 0 + 2) = type
  BY <1>1, <1>2, <1>6
<1>8. SubSeq(d, 2 + 1, 2 + 2) = alg
  BY <1>1, <1>2, <1>6
<1>9. SubSeq(d, p8 + 1, p8 + 2) = size
  BY <1>3, <1>5, <1>6 DEF p8
<1>10. SubSeq(d, 1, 2) = type /\ SubSeq(d, 3, 4) = alg /\ SubSeq(d, 9, 10) = size
  BY <1>7, <1>8, <1>9 DEF p8
<1> QED
  BY <1>2, <1>3, <1>10 DEF alg

\* Whether a pubArea is of the key it should be.
Matches(p, key) ==
    \/ p.type = 35 /\ key.kty = "EC2" /\ p.unique[1] = key.x /\ p.unique[2] = key.y
    \/ p.type = 1 /\ key.kty = "RSA" /\ Strip(p.unique[1]) = Strip(key.n)

\* A pubArea of an ECC key is accepted if it is whole and has the key's
\* coordinates.
LEMMA EccPubAreaRead ==
    ASSUME NEW S, PlainOctets \subseteq S, NEW p, p.type = 35, p.name_alg \in Nat,
           p.policy \in Seq(S), IsList(p.unique), Len(p.unique) = 2,
           p.unique[1] \in Seq(S), p.unique[2] \in Seq(S),
           NEW d \in Seq(S), Begins(d, PubArea(p)), NEW key
    PROVE  (VerifyPubAreaMatchesCredential(d, key) = Ok) <=> (Len(d) = Len(PubArea(p)) /\ Matches(p, key))
<1> DEFINE w == PubArea(p)
           x == p.unique[1]
           y == p.unique[2]
           m == Len(p.policy)
           p20 == 20 + m
           after_x == 22 + m + Len(x)
           end == 24 + m + Len(x) + Len(y)
           reader_x == TpmReadBlob(d, Start(p20))
           reader_y == TpmReadBlob(d, reader_x)
           blob_x == Blob(x)
           blob_y == Blob(y)
<1>1. m \in Nat /\ Len(x) \in Nat /\ Len(y) \in Nat /\ Len(d) \in Nat
  OBVIOUS
<1> HIDE DEF m
<1>2. /\ Unique(p) \in Seq(S) /\ Len(Unique(p)) = 2 + Len(x) + 2 + Len(y)
      /\ Holds(Unique(p), 0, blob_x) /\ Holds(Unique(p), 2 + Len(x), blob_y)
  BY UniqueOf2
<1>3. w \in Seq(S) /\ Len(w) = 20 + m + Len(Unique(p)) /\ Holds(w, 20 + m, Unique(p))
  <2>1. p.type \in Nat /\ (IF p.type = 35 THEN 10 ELSE 12) = 10
    OBVIOUS
  <2>2. /\ w \in Seq(S) /\ Len(w) = 10 + m + 10 + Len(Unique(p))
        /\ Holds(w, 10 + m + 10, Unique(p))
    BY <1>2, <2>1, PubAreaStands DEF m
  <2>3. 10 + m + 10 = 20 + m
    BY <1>1
  <2> QED
    BY <2>2, <2>3
<1>4. Begins(d, w)
  OBVIOUS
<1> HIDE DEF w
<1> DEFINE kx == Len(x)
           ky == Len(y)
           behind_x == 2 + kx
<1>b. /\ kx \in Nat /\ ky \in Nat /\ Len(Unique(p)) = 2 + kx + 2 + ky
      /\ after_x = 22 + m + kx /\ end = 24 + m + kx + ky /\ Holds(Unique(p), behind_x, blob_y)
  BY <1>1, <1>2
<1>c. blob_x \in Seq(S) /\ blob_y \in Seq(S)
  BY BlobIs
<1>d. Holds(Unique(p), 0, blob_x) /\ Unique(p) \in Seq(S)
  BY <1>2
<1> HIDE DEF kx, ky, blob_x, blob_y, after_x, end
<1>5. /\ p20 \in Nat /\ after_x \in Nat /\ end \in Nat /\ Len(w) = end
      /\ p20 + 2 + kx = after_x /\ after_x + 2 + ky = end
      /\ p20 + 0 = p20 /\ p20 + behind_x = after_x /\ 0 \in Nat /\ behind_x \in Nat
  <2> HIDE DEF w
  <2>1. m \in Nat /\ kx \in Nat /\ ky \in Nat /\ after_x = 22 + m + kx /\ end = 24 + m + kx + ky
    BY <1>1, <1>b
  <2>2. Len(w) = 20 + m + (2 + kx + 2 + ky)
    BY <1>3, <1>b
  <2> QED
    BY <2>1, <2>2
<1>6. Holds(w, p20, Unique(p))
  BY <1>3
<1> HIDE DEF p20, behind_x
<1>7. Holds(w, p20, Blob(x)) /\ Holds(w, after_x, Blob(y))
  <2> DEFINE u == Unique(p)
  <2>0. /\ w \in Seq(S) /\ u \in Seq(S) /\ blob_x \in Seq(S) /\ blob_y \in Seq(S)
        /\ Holds(w, p20, u) /\ Holds(u, 0, blob_x) /\ Holds(u, behind_x, blob_y)
    BY <1>3, <1>6, <1>b, <1>c, <1>d
  <2> HIDE DEF u
  <2>1. Holds(w, p20, blob_x)
    <3>1. p20 \in Nat /\ 0 \in Nat /\ p20 + 0 = p20
      BY <1>5
    <3> QED
      BY <2>0, <3>1, HoldsWithin, Zenon
  <2>2. Holds(w, after_x, blob_y)
    <3>1. p20 \in Nat /\ behind_x \in Nat /\ after_x \in Nat /\ p20 + behind_x = after_x
      BY <1>5
    <3> QED
      BY <2>0, <3>1, HoldsWithin, Zenon
  <2> QED
    BY <2>1, <2>2 DEF blob_x, blob_y
<1> HIDE DEF x, y
<1>a. x \in Seq(S) /\ y \in Seq(S)
  BY DEF x, y
<1>8. Reached(d, reader_x, x, after_x) /\ From(d, reader_x, after_x)
  <2>1. From(d, Start(p20), p20)
    BY DEF From, Start
  <2>2. /\ p20 \in Nat /\ after_x \in Nat /\ p20 + 2 + Len(x) = after_x
        /\ Holds(w, p20, Blob(x)) /\ w \in Seq(S)
    BY <1>3, <1>5, <1>7 DEF kx
  <2>3. Reached(d, reader_x, x, after_x)
    BY <1>4, <1>a, <2>1, <2>2, BlobRead
  <2>4. From(d, reader_x, after_x)
    BY <1>4, <1>a, <2>1, <2>2, BlobRead
  <2> QED
    BY <2>3, <2>4
<1> HIDE DEF reader_x
<1>9. Reached(d, reader_y, y, end)
  <2>1. /\ after_x \in Nat /\ end \in Nat /\ after_x + 2 + Len(y) = end
        /\ Holds(w, after_x, Blob(y)) /\ w \in Seq(S)
    BY <1>3, <1>5, <1>7 DEF ky
  <2> QED
    BY <1>4, <1>8, <1>a, <2>1, BlobRead
<1>10. CASE Len(d) < 10
  <2>1. Len(d) # Len(w)
    BY <1>1, <1>5, <1>b, <1>10
  <2> QED
    BY <1>10, <2>1 DEF VerifyPubAreaMatchesCredential, Ok, w
<1>11. CASE ~(Len(d) < 10)
  <2>1. BigEndian(SubSeq(d, 1, 2)) = 35 /\ BigEndian(SubSeq(d, 9, 10)) = m
    <3>1. p.type \in Nat /\ Len(d) >= 10
      BY <1>1, <1>11
    <3> QED
      BY <1>2, <1>4, <3>1, PubAreaHeader DEF m, w
  <2>2. 10 + m + 10 = p20
    BY <1>1 DEF p20
  <2>3. (VerifyPubAreaMatchesCredential(d, key) = Ok) <=>
           reader_y.ok /\ key.kty = "EC2" /\ reader_x.octets = key.x /\ reader_y.octets = key.y
    BY <1>11, <2>1, <2>2 DEF VerifyPubAreaMatchesCredential, reader_x, Ok
  <2> HIDE DEF reader_y
  <2>4. CASE Len(d) = Len(w)
    <3>1. end <= Len(d) /\ after_x <= Len(d)
      BY <1>1, <1>5, <1>b, <2>4
    <3>2. reader_y.ok /\ reader_y.octets = y /\ reader_x.octets = x
      BY <1>8, <1>9, <3>1 DEF Reached
    <3> QED
      BY <2>3, <2>4, <3>2 DEF Matches, w, x, y
  <2>5. CASE Len(d) # Len(w)
    <3>1. ~(end <= Len(d))
      BY <1>1, <1>4, <1>5, <2>5 DEF Begins
    <3>2. reader_y.ok = FALSE
      BY <1>9, <3>1 DEF Reached
    <3> QED
      BY <2>3, <2>5, <3>2 DEF w
  <2> QED
    BY <2>4, <2>5
<1> QED
  BY <1>10, <1>11

\* A pubArea of an RSA key is accepted if it is whole and has the key's modulus.
LEMMA RsaPubAreaRead ==
    ASSUME NEW S, PlainOctets \subseteq S, NEW p, p.type = 1, p.name_alg \in Nat,
           p.policy \in Seq(S), IsList(p.unique), Len(p.unique) = 1, p.unique[1] \in Seq(S),
           NEW d \in Seq(S), Begins(d, PubArea(p)), NEW key
    PROVE  (VerifyPubAreaMatchesCredential(d, key) = Ok) <=> (Len(d) = Len(PubArea(p)) /\ Matches(p, key))
<1> DEFINE w == PubArea(p)
           modulus == p.unique[1]
           m == Len(p.policy)
           k == Len(modulus)
           p22 == 22 + m
           end == 24 + m + k
           reader == TpmReadBlob(d, Start(p22))
           blob == Blob(modulus)
<1>1. m \in Nat /\ k \in Nat /\ Len(d) \in Nat
  OBVIOUS
<1> HIDE DEF m
<1>2. Unique(p) \in Seq(S) /\ Unique(p) = blob /\ blob \in Seq(S) /\ Len(blob) = 2 + k
  <2>1. Unique(p) = blob /\ Unique(p) \in Seq(S)
    BY UniqueOf1
  <2>2. blob \in Seq(S) /\ Len(blob) = 2 + k
    BY BlobIs
  <2> QED
    BY <2>1, <2>2
<1> HIDE DEF k, blob
<1>3. w \in Seq(S) /\ Len(w) = 22 + m + Len(Unique(p)) /\ Holds(w, 22 + m, Unique(p))
  <2>1. p.type \in Nat /\ (IF p.type = 35 THEN 10 ELSE 12) = 12
    OBVIOUS
  <2>2. /\ w \in Seq(S) /\ Len(w) = 10 + m + 12 + Len(Unique(p))
        /\ Holds(w, 10 + m + 12, Unique(p))
    BY <1>2, <2>1, PubAreaStands DEF m
  <2>3. 10 + m + 12 = 22 + m
    BY <1>1
  <2> QED
    BY <2>2, <2>3
<1>4. Begins(d, w)
  OBVIOUS
<1> HIDE DEF w
<1>5. Len(w) = end /\ p22 \in Nat /\ end \in Nat /\ p22 + 2 + k = end
  <2>1. Len(w) = 22 + m + (2 + k)
    BY <1>2, <1>3
  <2> QED
    BY <1>1, <2>1
<1>6. Holds(w, p22, blob) /\ 10 + m + 12 = p22
  BY <1>1, <1>2, <1>3
<1>7. end = 24 + m + k
  OBVIOUS
<1> HIDE DEF p22, end, modulus
<1>8. Reached(d, reader, modulus, end)
  <2>1. From(d, Start(p22), p22)
    BY DEF From, Start
  <2>2. p22 \in Nat /\ end \in Nat /\ p22 + 2 + Len(modulus) = end /\ w \in Seq(S)
    BY <1>3, <1>5 DEF k
  <2>3. modulus \in Seq(S) /\ Holds(w, p22, Blob(modulus))
    BY <1>6 DEF blob, modulus
  <2> QED
    BY <1>4, <2>1, <2>2, <2>3, BlobRead
<1>9. CASE Len(d) < 10
  <2>1. Len(d) # Len(w)
    BY <1>1, <1>5, <1>7, <1>9
  <2> QED
    BY <1>9, <2>1 DEF VerifyPubAreaMatchesCredential, Ok, w
<1>10. CASE ~(Len(d) < 10)
  <2>1. BigEndian(SubSeq(d, 1, 2)) = 1 /\ BigEndian(SubSeq(d, 9, 10)) = m
    <3>1. p.type \in Nat /\ Len(d) >= 10
      BY <1>1, <1>10
    <3> QED
      BY <1>2, <1>4, <3>1, PubAreaHeader DEF m, w
  <2>2. (VerifyPubAreaMatchesCredential(d, key) = Ok) <=>
           reader.ok /\ key.kty = "RSA" /\ Strip(reader.octets) = Strip(key.n)
    BY <1>6, <1>10, <2>1 DEF VerifyPubAreaMatchesCredential, Ok
  <2> HIDE DEF reader
  <2>3. CASE Len(d) = Len(w)
    <3>1. end <= Len(d)
      BY <1>1, <1>5, <2>3
    <3>2. reader.ok /\ reader.octets = modulus
      BY <1>8, <3>1 DEF Reached
    <3> QED
      BY <2>2, <2>3, <3>2 DEF Matches, w, modulus
  <2>4. CASE Len(d) # Len(w)
    <3>1. ~(end <= Len(d))
      BY <1>1, <1>4, <1>5, <2>4 DEF Begins
    <3>2. reader.ok = FALSE
      BY <1>8, <3>1 DEF Reached
    <3> QED
      BY <2>2, <2>4, <3>2 DEF w
  <2> QED
    BY <2>3, <2>4
<1> QED
  BY <1>9, <1>10

\* A pubArea of another kind of key is not accepted.
LEMMA OtherPubAreaRead ==
    ASSUME NEW S, PlainOctets \subseteq S, NEW p, p.type \in Nat, p.type \notin {35, 1},
           p.name_alg \in Nat, p.policy \in Seq(S), Unique(p) \in Seq(S),
           NEW d \in Seq(S), Begins(d, PubArea(p)), NEW key
    PROVE  VerifyPubAreaMatchesCredential(d, key) # Ok /\ ~Matches(p, key)
<1>1. CASE Len(d) < 10
  BY <1>1 DEF VerifyPubAreaMatchesCredential, Ok, Matches
<1>2. CASE ~(Len(d) < 10)
  <2>1. Len(d) >= 10
    BY <1>2
  <2>2. BigEndian(SubSeq(d, 1, 2)) = p.type
    BY <2>1, PubAreaHeader
  <2> QED
    BY <1>2, <2>2 DEF VerifyPubAreaMatchesCredential, Ok, Matches
<1> QED
  BY <1>1, <1>2

\* Two octets stand for one number.
LEMMA U16Injective ==
    ASSUME NEW m \in Nat, NEW n \in Nat, U16(m) = U16(n)
    PROVE  m = n
<1>1. BigEndian(U16(m)) = m
  BY U16ReadBack, Zenon
<1>2. BigEndian(U16(n)) = n
  BY U16ReadBack, Zenon
<1>3. BigEndian(U16(m)) = BigEndian(U16(n))
  OBVIOUS
<1> QED
  BY <1>1, <1>2, <1>3, Zenon

\* The name of a whole pubArea is computed if its algorithm is known; that of
\* one cut short may be, or is refused with the same error.
LEMMA NameRead ==
    ASSUME NEW S, PlainOctets \subseteq S, NEW p, p.type \in Nat, p.name_alg \in Nat,
           p.policy \in Seq(S), Unique(p) \in Seq(S),
           NEW d \in Seq(S), Begins(d, PubArea(p)), Len(d) = Len(PubArea(p))
    PROVE  (ComputePubAreaName(d).verdict = Ok) <=> p.name_alg \in {11, 12}
<1> DEFINE alg == SubSeq(d, 3, 4)
           w == PubArea(p)
<1>1. Len(d) >= 10
  <2> DEFINE m == Len(p.policy)
             skip == IF p.type = 35 THEN 10 ELSE 12
             k == Len(Unique(p))
  <2>1. Len(w) = 10 + m + skip + k
    BY PubAreaStands
  <2>2. m \in Nat /\ k \in Nat /\ skip \in {10, 12} /\ Len(d) = Len(w)
    OBVIOUS
  <2> HIDE DEF w, m, skip, k
  <2>3. 10 + m + skip + k >= 10
    BY <2>2
  <2> QED
    BY <2>1, <2>2, <2>3
<1>2. alg = U16(p.name_alg)
  BY <1>1, PubAreaHeader
<1> HIDE DEF alg
<1>3. ~(Len(d) < 4)
  BY <1>1
<1>4. (ComputePubAreaName(d).verdict = Ok) <=> alg \in {U16(11), U16(12)}
  BY <1>3 DEF ComputePubAreaName, Read, Ok, alg
<1>5. 11 \in Nat /\ 12 \in Nat
  OBVIOUS
<1>6. U16(p.name_alg) = U16(11) <=> p.name_alg = 11
  BY <1>5, U16Injective, Zenon
<1>7. U16(p.name_alg) = U16(12) <=> p.name_alg = 12
  BY <1>5, U16Injective, Zenon
<1> QED
  BY <1>2, <1>4, <1>6, <1>7, Zenon

-----------------------------------------------------------------------------
(***************************************************************************)
(* Octets and records have the same verdict.                               *)
(***************************************************************************)
\* What begins another row is it, if it is as long.
LEMMA BeginsAndEnds ==
    ASSUME NEW S, NEW d \in Seq(S), NEW w \in Seq(S)
    PROVE  /\ IsPrefix(d, w) => Begins(d, w)
           /\ Begins(d, w) => (d = w <=> Len(d) = Len(w))
<1>1. ASSUME IsPrefix(d, w) PROVE Begins(d, w)
  <2>1. Len(d) <= Len(w) /\ SubSeq(d, 1, Len(d)) = SubSeq(w, 1, Len(d)) /\ Len(d) \in Nat
    BY <1>1 DEF IsPrefix
  <2>2. \A i \in 1 .. Len(d) : SubSeq(d, 1, Len(d))[i] = d[i] /\ SubSeq(w, 1, Len(d))[i] = w[i]
    BY <2>1
  <2> QED
    BY <2>1, <2>2 DEF Begins
<1>2. ASSUME Begins(d, w), Len(d) = Len(w) PROVE d = w
  BY <1>2, SeqEqual DEF Begins
<1> QED
  BY <1>1, <1>2

\* The material of the key of a pubArea is a list of octets.
LEMMA UniqueIs ==
    ASSUME NEW S, PlainOctets \subseteq S, NEW p, IsPubArea(p),
           \A i \in DOMAIN p.unique : p.unique[i] \in Seq(S)
    PROVE  Unique(p) \in Seq(S)
<1>1. IsList(p.unique) /\ Len(p.unique) \in 1 .. 2
  BY Zenon DEF IsPubArea
<1>2. DOMAIN p.unique = 1 .. Len(p.unique)
  BY <1>1 DEF IsList
<1>3. p.unique[1] \in Seq(S) /\ (Len(p.unique) = 2 => p.unique[2] \in Seq(S))
  BY <1>1, <1>2
<1>4. CASE Len(p.unique) = 1
  BY <1>1, <1>3, <1>4, UniqueOf1
<1>5. CASE Len(p.unique) = 2
  <2> DEFINE m == 2 + Len(p.unique[1])
  <2>1. m = 2 + Len(p.unique[1])
    OBVIOUS
  <2> HIDE DEF m
  <2> QED
    BY <1>1, <1>3, <1>5, <2>1, UniqueOf2
<1> QED
  BY <1>1, <1>4, <1>5

\* The verdict on the octets of a pubArea.
LEMMA PubAreaVerdict ==
    ASSUME NEW S, PlainOctets \subseteq S, NEW p, IsPubArea(p), p.policy \in Seq(S),
           \A i \in DOMAIN p.unique : p.unique[i] \in Seq(S),
           NEW d \in Seq(S), Begins(d, PubArea(p)), NEW key
    PROVE  FirstError(<< Check(ComputePubAreaName(d).verdict # Ok, ComputePubAreaName(d).verdict),
                         Check(VerifyPubAreaMatchesCredential(d, key) # Ok,
                               "InvalidAttestationObject") >>) =
             IF Len(d) = Len(PubArea(p)) /\ p.name_alg \in {11, 12} /\ Matches(p, key)
             THEN Ok ELSE "InvalidAttestationObject"
<1> DEFINE named == ComputePubAreaName(d).verdict
           matched == VerifyPubAreaMatchesCredential(d, key)
           a == Check(named # Ok, named)
           b == Check(matched # Ok, "InvalidAttestationObject")
           E == {Ok, "InvalidAttestationObject"}
           whole == Len(d) = Len(PubArea(p))
           known == p.name_alg \in {11, 12}
           fits == Matches(p, key)
<1>1. /\ p.type \in Nat /\ p.name_alg \in Nat /\ IsList(p.unique) /\ Len(p.unique) \in 1 .. 2
      /\ (p.type = 35 => Len(p.unique) = 2) /\ (p.type = 1 => Len(p.unique) = 1)
  BY Zenon DEF IsPubArea
<1>2. DOMAIN p.unique = 1 .. Len(p.unique)
  BY <1>1 DEF IsList
<1>3. p.unique[1] \in Seq(S) /\ (Len(p.unique) = 2 => p.unique[2] \in Seq(S))
  BY <1>1, <1>2
<1>4. Unique(p) \in Seq(S)
  BY UniqueIs
<1>5. (matched = Ok) <=> (whole /\ fits)
  <2>1. CASE p.type = 35
    BY <1>1, <1>3, <2>1, EccPubAreaRead
  <2>2. CASE p.type = 1
    BY <1>1, <1>3, <2>2, RsaPubAreaRead
  <2>3. CASE p.type \notin {35, 1}
    BY <1>1, <1>4, <2>3, OtherPubAreaRead
  <2> QED
    BY <2>1, <2>2, <2>3
<1>6. whole => (named = Ok <=> known)
  BY <1>1, <1>4, NameRead
<1>8. named \in E /\ matched \in E
  BY TpmVerdicts
<1> HIDE DEF named, matched, whole, known, fits
<1>9. /\ a \in Checks(E) /\ b \in Checks(E) /\ a.failed = (named # Ok) /\ a.error = named
      /\ b.failed = (matched # Ok) /\ b.error = "InvalidAttestationObject"
  BY <1>8 DEF Checks, Check, Ok
<1> HIDE DEF a, b
<1>10. FirstError(<<a, b>>) = IF a.failed THEN a.error ELSE IF b.failed THEN b.error ELSE Ok
  BY <1>9, FirstErrorOf2
<1>11. FirstError(<<a, b>>) = IF whole /\ known /\ fits THEN Ok ELSE "InvalidAttestationObject"
  <2> HIDE DEF E
  <2>1. named = Ok \/ named = "InvalidAttestationObject"
    BY <1>8 DEF E
  <2> QED
    BY <1>5, <1>6, <1>9, <1>10, <2>1 DEF Ok
<1> QED
  BY <1>11 DEF a, b, named, matched, whole, known, fits

\* The verdict on a record.
LEMMA PubAreaRecordVerdict ==
    ASSUME NEW p, IsPubArea(p)
    PROVE  FirstError(Records!VerifyPubAreaMatchesCredential(PubAreaRecord(p), KeyRecord(p.key))) =
             IF Whole = "whole" /\ p.name_alg \in {11, 12} /\ Matches(p, p.key)
             THEN Ok ELSE "InvalidAttestationObject"
<1> DEFINE record == PubAreaRecord(p)
           key == KeyRecord(p.key)
           I == "InvalidAttestationObject"
           E == {Ok, I}
           a == Check(record.name_alg \notin {"SHA256", "SHA384"}, I)
           b == Check(record.form = "truncated", I)
           c == Check(record.type \notin {"ECC", "RSA"}, I)
           d == Check(record.type # (IF key.kty = "EC2" THEN "ECC" ELSE key.kty), I)
           e == Check(record.unique # key.id, I)
<1>1. Records!VerifyPubAreaMatchesCredential(record, key) = <<a, b, c, d, e>>
  BY DEF Records!VerifyPubAreaMatchesCredential, Records!Check, Check
<1>2. record.name_alg \in {"SHA256", "SHA384"} <=> p.name_alg \in {11, 12}
  BY DEF PubAreaRecord
<1>3. record.form = "truncated" <=> Whole # "whole"
  BY DEF PubAreaRecord, Whole
<1>4. record.type = CASE p.type = 35 -> "ECC" [] p.type = 1 -> "RSA" [] OTHER -> "other"
  BY DEF PubAreaRecord
<1>5. key.kty = p.key.kty /\ p.key.kty \in {"EC2", "RSA", "OKP"}
  <2>1. p.key.kty \in {"EC2", "RSA", "OKP"}
    BY Zenon DEF IsPubArea
  <2>2. key.kty = p.key.kty
    BY DEF KeyRecord
  <2> QED
    BY <2>1, <2>2
<1>6. ASSUME p.type = 35, p.key.kty = "EC2"
      PROVE  record.unique = key.id <=> (p.unique[1] = p.key.x /\ p.unique[2] = p.key.y)
  <2>1. record.unique = p.unique /\ key.id = <<p.key.x, p.key.y>>
    BY <1>6 DEF PubAreaRecord, KeyRecord, Material
  <2>2. p.unique = <<p.unique[1], p.unique[2]>>
    <3> DEFINE R == Range(p.unique)
               u == p.unique
    <3>1. u \in Seq(R) /\ Len(u) = 2
      BY <1>6, Zenon DEF IsPubArea, IsList
    <3> HIDE DEF R, u
    <3>2. u = <<u[1], u[2]>>
      BY <3>1
    <3> QED
      BY <3>2 DEF u
  <2> QED
    BY <2>1, <2>2
<1>7. ASSUME p.type = 1, p.key.kty = "RSA"
      PROVE  record.unique = key.id <=> Strip(p.unique[1]) = Strip(p.key.n)
  <2>1. record.unique = <<Strip(p.unique[1])>> /\ key.id = <<Strip(p.key.n)>>
    BY <1>7 DEF PubAreaRecord, KeyRecord, Material
  <2> QED
    BY <2>1
<1> HIDE DEF record, key
<1>8. Matches(p, p.key) <=> /\ record.type \in {"ECC", "RSA"}
                            /\ record.type = (IF key.kty = "EC2" THEN "ECC" ELSE key.kty)
                            /\ record.unique = key.id
  <2>1. CASE p.type = 35
    BY <1>4, <1>5, <1>6, <2>1 DEF Matches
  <2>2. CASE p.type = 1
    BY <1>4, <1>5, <1>7, <2>2 DEF Matches
  <2>3. CASE p.type \notin {35, 1}
    BY <1>4, <2>3 DEF Matches
  <2> QED
    BY <2>1, <2>2, <2>3
<1>9. /\ a \in Checks(E) /\ b \in Checks(E) /\ c \in Checks(E) /\ d \in Checks(E) /\ e \in Checks(E)
      /\ a.error = I /\ b.error = I /\ c.error = I /\ d.error = I /\ e.error = I
      /\ a.failed <=> record.name_alg \notin {"SHA256", "SHA384"}
      /\ b.failed <=> record.form = "truncated"
      /\ c.failed <=> record.type \notin {"ECC", "RSA"}
      /\ d.failed <=> record.type # (IF key.kty = "EC2" THEN "ECC" ELSE key.kty)
      /\ e.failed <=> record.unique # key.id
  BY DEF Checks, Check, Ok
<1> HIDE DEF a, b, c, d, e, I, E
<1>10. FirstError(<<a, b, c, d, e>>) =
         IF a.failed \/ b.failed \/ c.failed \/ d.failed \/ e.failed THEN I ELSE Ok
  BY <1>9, FirstErrorOf5
<1> QED
  BY <1>1, <1>2, <1>3, <1>8, <1>9, <1>10 DEF record, key, I

\* So is the verdict on the record of a certInfo.
LEMMA CertInfoRecordVerdict ==
    ASSUME NEW c, NEW extra_data, NEW name
    PROVE  FirstError(Records!VerifyCertInfo(CertInfoRecord(c), extra_data, name)) =
             IF /\ Whole = "whole"
                /\ c.magic = TpmGeneratedValue /\ c.type = TpmStAttestCertify
                /\ c.extra_data = extra_data /\ c.name = name
             THEN Ok ELSE "InvalidAttestationObject"
<1> DEFINE record == CertInfoRecord(c)
           I == "InvalidAttestationObject"
           E == {Ok, I}
           k == Check(record.form = "truncated", I)
           l == Check(record.magic # "TPM_GENERATED_VALUE", I)
           m == Check(record.type # "TPM_ST_ATTEST_CERTIFY", I)
           n == Check(record.extra_data # extra_data, I)
           o == Check(record.name # name, I)
<1>1. Records!VerifyCertInfo(record, extra_data, name) = <<k, l, m, n, o>>
  BY DEF Records!VerifyCertInfo, Records!Check, Check
<1>2. /\ record.form = "truncated" <=> Whole # "whole"
      /\ record.magic = "TPM_GENERATED_VALUE" <=> c.magic = TpmGeneratedValue
      /\ record.type = "TPM_ST_ATTEST_CERTIFY" <=> c.type = TpmStAttestCertify
      /\ record.extra_data = c.extra_data /\ record.name = c.name
  BY DEF CertInfoRecord, Whole
<1> HIDE DEF record
<1>3. /\ k \in Checks(E) /\ l \in Checks(E) /\ m \in Checks(E) /\ n \in Checks(E) /\ o \in Checks(E)
      /\ k.error = I /\ l.error = I /\ m.error = I /\ n.error = I /\ o.error = I
      /\ k.failed <=> record.form = "truncated"
      /\ l.failed <=> record.magic # "TPM_GENERATED_VALUE"
      /\ m.failed <=> record.type # "TPM_ST_ATTEST_CERTIFY"
      /\ n.failed <=> record.extra_data # extra_data
      /\ o.failed <=> record.name # name
  BY DEF Checks, Check, Ok
<1> HIDE DEF k, l, m, n, o, I, E
<1>4. FirstError(<<k, l, m, n, o>>) =
        IF k.failed \/ l.failed \/ m.failed \/ n.failed \/ o.failed THEN I ELSE Ok
  BY <1>3, FirstErrorOf5
<1> QED
  BY <1>1, <1>2, <1>3, <1>4 DEF record, I

\* A list of elements of a set is a list over that set.
LEMMA ListOver ==
    ASSUME NEW S, NEW s, IsList(s), Range(s) \subseteq S
    PROVE  s \in Seq(S)
BY SeqMonotonic DEF IsList

\* A whole or truncated pubArea: the verdict on the octets is that on the record.
LEMMA PubAreaAgrees ==
    ASSUME source \in Sources, source.kind = "pubArea", IsList(buffer),
           IsPrefix(buffer, Written(source))
    PROVE  Parsed.verdict = FirstError(Records!VerifyPubAreaMatchesCredential(
                               PubAreaRecord(source.data), KeyRecord(source.data.key)))
<1> DEFINE p == source.data
           w == PubArea(p)
           S == PlainOctets \union Range(buffer) \union Range(p.policy)
                  \union UNION {Range(field) : field \in Range(p.unique)}
           octets == FirstError(<< Check(ComputePubAreaName(buffer).verdict # Ok,
                                         ComputePubAreaName(buffer).verdict),
                                   Check(VerifyPubAreaMatchesCredential(buffer, p.key) # Ok,
                                         "InvalidAttestationObject") >>)
           fits == p.name_alg \in {11, 12} /\ Matches(p, p.key)
<1>1. IsPubArea(p) /\ Written(source) = w
  BY SourcesAssumption DEF Written
<1>2. Parsed.verdict = octets
  BY DEF Parsed, Verdict, Read
<1> HIDE DEF w, octets, p
<1>3. IsList(p.policy) /\ IsList(p.unique) /\ \A field \in Range(p.unique) : IsList(field)
  BY <1>1, Zenon DEF IsPubArea
<1>4. /\ PlainOctets \subseteq S /\ Range(buffer) \subseteq S /\ Range(p.policy) \subseteq S
      /\ \A field \in Range(p.unique) : Range(field) \subseteq S
  OBVIOUS
<1> HIDE DEF S
<1>5. buffer \in Seq(S) /\ p.policy \in Seq(S)
  BY <1>3, <1>4, ListOver
<1>6. \A i \in DOMAIN p.unique : p.unique[i] \in Seq(S)
  <2> TAKE i \in DOMAIN p.unique
  <2>1. p.unique[i] \in Range(p.unique)
    BY DEF Range
  <2> QED
    BY <1>3, <1>4, <2>1, ListOver
<1>7. w \in Seq(S) /\ Begins(buffer, w)
  <2>1. Unique(p) \in Seq(S)
    BY <1>1, <1>4, <1>6, UniqueIs
  <2>2. w \in Seq(S)
    <3>1. p.type \in Nat /\ p.name_alg \in Nat
      BY <1>1, Zenon DEF IsPubArea
    <3> QED
      BY <1>4, <1>5, <2>1, <3>1, PubAreaStands DEF w
  <2> QED
    BY <1>1, <1>5, <2>2, BeginsAndEnds
<1>8. Whole = "whole" <=> Len(buffer) = Len(w)
  BY <1>1, <1>5, <1>7, BeginsAndEnds DEF Whole
<1>9. octets = IF Len(buffer) = Len(w) /\ fits THEN Ok ELSE "InvalidAttestationObject"
  BY <1>1, <1>4, <1>5, <1>6, <1>7, PubAreaVerdict DEF octets, w
<1>10. FirstError(Records!VerifyPubAreaMatchesCredential(PubAreaRecord(p), KeyRecord(p.key))) =
         IF Whole = "whole" /\ fits THEN Ok ELSE "InvalidAttestationObject"
  BY <1>1, PubAreaRecordVerdict
<1> HIDE DEF fits
<1> QED
  BY <1>2, <1>8, <1>9, <1>10 DEF p

\* So is that on a certInfo.
LEMMA CertInfoAgrees ==
    ASSUME source \in Sources, source.kind = "certInfo", IsList(buffer),
           IsPrefix(buffer, Written(source))
    PROVE  Parsed.verdict = FirstError(Records!VerifyCertInfo(
                               CertInfoRecord(source.data), source.data.expected_extra_data,
                               source.data.expected_name))
<1> DEFINE c == source.data
           w == CertInfo(c)
           S == PlainOctets \union Range(buffer)
                  \union UNION {Range(field) : field \in {c.magic, c.type, c.signer, c.extra_data, c.name}}
           fits == /\ c.magic = TpmGeneratedValue /\ c.type = TpmStAttestCertify
                   /\ c.extra_data = c.expected_extra_data /\ c.name = c.expected_name
           octets == VerifyCertInfo(buffer, c.expected_extra_data, c.expected_name)
<1>1. IsCertInfo(c) /\ Written(source) = w
  BY SourcesAssumption DEF Written
<1>2. Parsed.verdict = octets
  BY DEF Parsed, Verdict, Read
<1> HIDE DEF w, octets, c
<1>3. /\ \A field \in {c.magic, c.type, c.signer, c.extra_data, c.name} : IsList(field)
      /\ Len(c.magic) = 4 /\ Len(c.type) = 2
  BY <1>1 DEF IsCertInfo
<1>4. /\ PlainOctets \subseteq S /\ Range(buffer) \subseteq S
      /\ \A field \in {c.magic, c.type, c.signer, c.extra_data, c.name} : Range(field) \subseteq S
  OBVIOUS
<1> HIDE DEF S
<1>5. buffer \in Seq(S)
  BY <1>4, ListOver
<1>6. /\ c.magic \in Seq(S) /\ c.type \in Seq(S) /\ c.signer \in Seq(S)
      /\ c.extra_data \in Seq(S) /\ c.name \in Seq(S)
  <2>1. \A field \in {c.magic, c.type, c.signer, c.extra_data, c.name} : field \in Seq(S)
    BY <1>3, <1>4, ListOver
  <2> QED
    BY <2>1
<1>7. w \in Seq(S) /\ Begins(buffer, w)
  <2>1. w \in Seq(S)
    BY <1>3, <1>4, <1>6, CertInfoStands DEF w
  <2> QED
    BY <1>1, <1>5, <2>1, BeginsAndEnds
<1>8. Whole = "whole" <=> Len(buffer) = Len(w)
  BY <1>1, <1>5, <1>7, BeginsAndEnds DEF Whole
<1>9. octets = IF Len(buffer) = Len(w) /\ fits THEN Ok ELSE "InvalidAttestationObject"
  <2>1. octets = IF /\ Len(buffer) = Len(CertInfo(c))
                    /\ c.magic = TpmGeneratedValue /\ c.type = TpmStAttestCertify
                    /\ c.extra_data = c.expected_extra_data /\ c.name = c.expected_name
                 THEN Ok ELSE "InvalidAttestationObject"
    BY <1>3, <1>4, <1>5, <1>6, <1>7, CertInfoRead DEF octets, w
  <2> QED
    BY <2>1 DEF w
<1>10. FirstError(Records!VerifyCertInfo(CertInfoRecord(c), c.expected_extra_data, c.expected_name)) =
         IF Whole = "whole" /\ fits THEN Ok ELSE "InvalidAttestationObject"
  BY CertInfoRecordVerdict
<1> HIDE DEF fits
<1> QED
  BY <1>2, <1>8, <1>9, <1>10 DEF c

\* However it is damaged, what arrives of a TPM's structures is a list.
Listed ==
    /\ source \in Sources
    /\ source.kind \in {"pubArea", "certInfo"} => IsList(buffer)

\* Every damage keeps it.
LEMMA ListedInvariance == Spec => []Listed
<1>1. Init => Listed
  <2> SUFFICES ASSUME Init, source.kind \in {"pubArea", "certInfo"} PROVE IsList(buffer)
    BY DEF Init, Listed
  <2> DEFINE s == source.data
             w == Written(source)
  <2>1. source \in Sources /\ buffer = w \o <<>>
    BY DEF Init, Trailer
  <2>2. CASE source.kind = "pubArea"
    <3> DEFINE S == PlainOctets \union Range(s.policy)
                      \union UNION {Range(field) : field \in Range(s.unique)}
    <3>1. IsPubArea(s) /\ w = PubArea(s)
      BY <2>1, <2>2, SourcesAssumption DEF Written
    <3> HIDE DEF s, w
    <3>2. /\ IsList(s.policy) /\ s.type \in Nat /\ s.name_alg \in Nat
          /\ \A field \in Range(s.unique) : IsList(field)
      BY <3>1, Zenon DEF IsPubArea
    <3>3. /\ PlainOctets \subseteq S /\ Range(s.policy) \subseteq S
          /\ \A field \in Range(s.unique) : Range(field) \subseteq S
      OBVIOUS
    <3> HIDE DEF S
    <3>4. s.policy \in Seq(S) /\ \A i \in DOMAIN s.unique : s.unique[i] \in Seq(S)
      <4>1. ASSUME NEW i \in DOMAIN s.unique PROVE s.unique[i] \in Seq(S)
        <5>1. s.unique[i] \in Range(s.unique)
          BY DEF Range
        <5> QED
          BY <3>2, <3>3, <5>1, ListOver
      <4> QED
        BY <3>2, <3>3, <4>1, ListOver
    <3>5. Unique(s) \in Seq(S)
      BY <3>1, <3>3, <3>4, UniqueIs
    <3>6. w \in Seq(S)
      BY <3>1, <3>2, <3>3, <3>4, <3>5, PubAreaStands
    <3> QED
      BY <2>1, <3>6, ConcatEmptySeq, Elements
  <2>3. CASE source.kind = "certInfo"
    <3> DEFINE Fields == {s.magic, s.type, s.signer, s.extra_data, s.name}
               S == PlainOctets \union UNION {Range(field) : field \in Fields}
    <3>1. IsCertInfo(s) /\ w = CertInfo(s)
      BY <2>1, <2>3, SourcesAssumption DEF Written
    <3> HIDE DEF s, w
    <3>2. Len(s.magic) = 4 /\ Len(s.type) = 2 /\ \A field \in Fields : IsList(field)
      BY <3>1 DEF IsCertInfo
    <3>3. PlainOctets \subseteq S /\ \A field \in Fields : Range(field) \subseteq S
      OBVIOUS
    <3> HIDE DEF S
    <3>4. /\ s.magic \in Seq(S) /\ s.type \in Seq(S) /\ s.signer \in Seq(S)
          /\ s.extra_data \in Seq(S) /\ s.name \in Seq(S)
      <4>1. \A field \in Fields : field \in Seq(S)
        BY <3>2, <3>3, ListOver
      <4> QED
        BY <4>1
    <3>5. w \in Seq(S)
      BY <3>1, <3>2, <3>3, <3>4, CertInfoStands
    <3> QED
      BY <2>1, <3>5, ConcatEmptySeq, Elements
  <2> QED
    BY <2>2, <2>3
<1>2. Listed /\ [Next]_vars => Listed'
  <2> SUFFICES ASSUME Listed, Next PROVE Listed'
    BY DEF Listed, vars
  <2>1. source' = source /\ source' \in Sources
    BY DEF Listed, Next, Truncate, Extend, FlipFlag, Overwrite, Damage
  <2> SUFFICES ASSUME source.kind \in {"pubArea", "certInfo"} PROVE IsList(buffer')
    BY <2>1 DEF Listed
  <2> DEFINE S == Range(buffer)
  <2>2. buffer \in Seq(S)
    BY DEF Listed, IsList
  <2>3. DOMAIN buffer = 1 .. Len(buffer) /\ Len(buffer) \in Nat
    BY <2>2
  <2> HIDE DEF S
  <2>4. ASSUME NEW n \in Cuts, Truncate(n) PROVE IsList(buffer')
    <3>1. buffer' = SubSeq(buffer, 1, n) /\ n \in Nat /\ n < Len(buffer)
      BY <2>4, DamageAssumption DEF Truncate, Damage
    <3>2. buffer' \in Seq(S)
      BY <2>2, <3>1
    <3> QED
      BY <3>2, Elements
  <2>5. ASSUME Extend PROVE IsList(buffer')
    <3> DEFINE zero == Octet(0)
    <3>1. buffer' = Append(buffer, zero)
      BY <2>5 DEF Extend, Damage
    <3> HIDE DEF zero
    <3>2. buffer' \in Seq(S \union {zero})
      BY <2>2, <3>1
    <3> QED
      BY <3>2, Elements
  <2>6. ASSUME NEW n \in 0 .. 7, FlipFlag(n) PROVE IsList(buffer')
    BY <2>6 DEF FlipFlag
  <2>7. ASSUME NEW i \in source.spots, NEW byte \in Damages, Overwrite(i, byte)
        PROVE  IsList(buffer')
    <3> DEFINE new == Octet(byte)
    <3>1. i \in 1 .. Len(buffer) /\ buffer' = [buffer EXCEPT ![i] = new]
      BY <2>3, <2>7 DEF Overwrite, Damage
    <3> HIDE DEF new
    <3>2. buffer' \in Seq(S \union {new})
      BY <2>2, <2>3, <3>1
    <3> QED
      BY <3>2, Elements
  <2> QED
    BY <2>4, <2>5, <2>6, <2>7 DEF Next
<1> QED
  BY <1>1, <1>2, PTL DEF Spec

\* The records by which module Attestation represents the TPM's structures
\* lead to the verdict their octets lead to, whole or cut short anywhere,
\* whatever their fields and the key they are compared with
\* (attestation.rs:1259-1443).
THEOREM RecordsStandForOctets == Spec => []RecordsAgree
<1>1. ASSUME Listed PROVE RecordsAgree
  <2> SUFFICES ASSUME IsPrefix(buffer, Written(source))
               PROVE  /\ source.kind = "pubArea" =>
                           Parsed.verdict = FirstError(Records!VerifyPubAreaMatchesCredential(
                                              PubAreaRecord(source.data), KeyRecord(source.data.key)))
                      /\ source.kind = "certInfo" =>
                           Parsed.verdict = FirstError(Records!VerifyCertInfo(
                                              CertInfoRecord(source.data),
                                              source.data.expected_extra_data,
                                              source.data.expected_name))
    BY DEF RecordsAgree
  <2>1. source \in Sources
    BY <1>1 DEF Listed
  <2>2. source.kind \in {"pubArea", "certInfo"} => IsList(buffer)
    BY <1>1 DEF Listed
  <2>3. CASE source.kind = "pubArea"
    BY <2>1, <2>2, <2>3, PubAreaAgrees
  <2>4. CASE source.kind = "certInfo"
    BY <2>1, <2>2, <2>4, CertInfoAgrees
  <2> QED
    BY <2>3, <2>4
<1> QED
  BY <1>1, ListedInvariance, PTL
=============================================================================
