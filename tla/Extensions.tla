----------------------------- MODULE Extensions -----------------------------
(***************************************************************************)
(* The typed views of the extension outputs (extensions.rs): what          *)
(* ExtensionView answers about the map that the authenticator data parser  *)
(* has built.  None is the empty set, Some(v) is {v}.                      *)
(***************************************************************************)
EXTENDS AuthenticatorData

CONSTANTS MaxU32    \* the largest u32; scaled down in the runs

ASSUME MaxU32Assumption == MaxU32 \in Nat

\* self.map.get(name)
Lookup(map, name) == {map[n] : n \in {name} \intersect DOMAIN map}
MapAt(map, name) == {v \in Lookup(map, name) : v.type = "map"}

\* The value under the first entry with the key, of whatever type it is.
FindValue(map, key) ==
    LET found == {i \in DOMAIN map.entries : map.entries[i].text = key}
    IN  {map.entries[i].value : i \in {j \in found : \A k \in found : j <= k}}

FindBool(map, key) == {v.bool : v \in {w \in FindValue(map, key) : w.type = "bool"}}
FindBytes(map, key) == {v.octets : v \in {w \in FindValue(map, key) : w.type = "bytes"}}

CredProps(map) == {[rk |-> FindBool(m, "rk")] : m \in MapAt(map, "credProps")}

AppId(map) == {v.bool : v \in {w \in Lookup(map, "appid") : w.type = "bool"}}

\* No answer at all where the results are not a map or lack a first value.
Prf(map) ==
    LET results(m) ==
            UNION {{[first |-> n, second |-> FindBytes(r, "second")] : n \in FindBytes(r, "first")} :
                      r \in {v \in FindValue(m, "results") : v.type = "map"}}
    IN  {[results |-> results(m)] : m \in
            {outer \in MapAt(map, "prf") : FindValue(outer, "results") # {} => results(outer) # {}}}

LargeBlob(map) ==
    {[ supported |-> FindBool(m, "supported"), blob |-> FindBytes(m, "blob"),
       written |-> FindBool(m, "written") ] : m \in MapAt(map, "largeBlob")}

NumberAt(map, name) == {v.int : v \in {w \in Lookup(map, name) : w.type = "int"}}

\* Mutant: `as u8` for `u8::try_from`.
CredProtectWrapped(map) ==
    {<<"UserVerificationOptional", "UserVerificationOptionalWithCredentialIdList",
       "UserVerificationRequired">>[n % 256] :
     n \in {m \in NumberAt(map, "credProtect") : m % 256 \in 1 .. 3}}

CredProtect(map) ==
    {<<"UserVerificationOptional", "UserVerificationOptionalWithCredentialIdList",
       "UserVerificationRequired">>[n] :
     n \in {m \in NumberAt(map, "credProtect") : m \in 0 .. 255 /\ m \in 1 .. 3}}

MinPinLength(map) == NumberAt(map, "minPinLength") \intersect 0 .. MaxU32

\* RegistrationResult and AuthenticationResult have one where there are outputs.
Views(map) ==
    [ cred_props |-> CredProps(map), appid |-> AppId(map), prf |-> Prf(map),
      large_blob |-> LargeBlob(map), cred_protect |-> CredProtect(map),
      min_pin_length |-> MinPinLength(map) ]
=============================================================================
