------------------------------ MODULE Metadata ------------------------------
(***************************************************************************)
(* The FIDO metadata service and its reader (metadata.rs).  The service    *)
(* signs lists of entries, each with the statuses reported of one model;   *)
(* a caller verifies the BLOB it fetched, parses it and hands the result   *)
(* to RelyingParty::authenticator_metadata, which registration consults.   *)
(*                                                                         *)
(* An AAGUID is a string of characters, each with its hexadecimal value if *)
(* it has one and the number of octets of its UTF-8 form.  Its 32 digits   *)
(* are scaled to 2 * AaguidLen.                                            *)
(***************************************************************************)
EXTENDS Certificates

CONSTANTS
    AaguidLen,    \* octets in an AAGUID, 16 in the code
    Entries,      \* entries the service may publish
    Signer,       \* the service's chain, leaf first
    TrustRoot,    \* the certificate the caller trusts
    Strangers,    \* certificates the service does not have
    MaxEntries,   \* bound: entries in a BLOB
    MaxServed     \* bound: BLOBs the service signs

ASSUME ScaleAssumption == AaguidLen \in Nat \ {0} /\ MaxEntries \in Nat /\ MaxServed \in Nat

\* Characters of a string: only a digit has a value, and the digits and signs
\* take one octet.
Characters ==
    {c \in [value : {{}} \union {{n} : n \in 0 .. 15}, width : 1 .. 4, sign : {"none", "-", "+"}] :
        /\ c.value # {} => c.width = 1 /\ c.sign = "none"
        /\ c.sign # "none" => c.width = 1}

\* An entry has at most one AAGUID, of any characters.
ASSUME EntriesAssumption ==
    \A entry \in Entries :
        /\ \A s \in entry.aaguid : s \in Seq(Characters)
        /\ \A s, t \in entry.aaguid : s = t

\* The service's leaf signs with ES256, and each of its certificates is signed
\* by the next, the last by the root that the caller trusts.
ASSUME SignerAssumption ==
    /\ Signer # <<>> /\ Signer \in Seq(ToSet(Signer))
    /\ Head(Signer).key.kind = "P256"
    /\ TrustRoot.valid /\ \A cert \in ToSet(Signer) : cert.valid
    /\ \A i \in 1 .. Len(Signer) - 1 :
          /\ Signer[i].issuer = Signer[i + 1].subject
          /\ Signer[i].signer = Signer[i + 1].key
    /\ Last(Signer).signer = TrustRoot.key

VARIABLES
    entries,      \* what the service will publish
    served,       \* the payloads it has signed, in order
    blob,         \* what the caller has fetched: at most one
    installed,    \* RelyingParty.authenticator_metadata
    outcome       \* of the last verification

vars == <<entries, served, blob, installed, outcome>>

-----------------------------------------------------------------------------
(***************************************************************************)
(* parse_aaguid.                                                           *)
(***************************************************************************)
Char(value, width) == [value |-> value, width |-> width, sign |-> "none"]
Digit(n) == Char({n}, 1)
Hyphen == [Char({}, 1) EXCEPT !.sign = "-"]
Plus == [Char({}, 1) EXCEPT !.sign = "+"]

\* A character in the octets of a string: itself, then as many more as it has.
Inside == Char({}, 0)
Utf8(char) == <<char>> \o [i \in 1 .. char.width - 1 |-> Inside]

\* u8::from_str_radix(_, 16) on two octets: it takes a sign.
FromStrRadix(high, low) ==
    {16 * h + l : h \in high.value, l \in low.value}
      \union (IF high.sign = "+" THEN low.value ELSE {})

\* The octets that are left of a string without its hyphens, wherever they are.
Hex(s) == FlattenSeq([i \in DOMAIN s |-> IF s[i].sign = "-" THEN <<>> ELSE Utf8(s[i])])

\* They are cut into pairs.  A cut inside a character is a panic, for slices of
\* a str must begin and end between characters.
Cuts(hex, i) == \E n \in {2 * i - 1, 2 * i + 1} : n <= Len(hex) /\ hex[n] = Inside
Octet(hex, i) == FromStrRadix(hex[2 * i - 1], hex[2 * i])

ParseAaguid(s) ==
    LET hex == Hex(s)
        bad == {i \in 1 .. AaguidLen : Cuts(hex, i) \/ Octet(hex, i) = {}}
    IN  IF Len(hex) # 2 * AaguidLen THEN [verdict |-> "None", value |-> <<>>]
        ELSE IF bad # {}
        THEN [verdict |-> IF Cuts(hex, Min(bad)) THEN "panic" ELSE "None", value |-> <<>>]
        ELSE [verdict |-> Ok, value |-> [i \in 1 .. AaguidLen |-> CHOOSE n \in Octet(hex, i) : TRUE]]

\* status_from_wire: at most one of the statuses the library knows.
KnownStatuses ==
    {"NotFidoCertified", "FidoCertified", "UserVerificationBypass", "AttestationKeyCompromise",
     "UserKeyRemoteCompromise", "UserKeyPhysicalCompromise", "UpdateAvailable", "Revoked",
     "SelfAssertionSubmitted", "FidoCertifiedL1", "FidoCertifiedL1Plus", "FidoCertifiedL2",
     "FidoCertifiedL2Plus", "FidoCertifiedL3", "FidoCertifiedL3Plus"}
StatusFromWire(s) == {s} \intersect KnownStatuses

-----------------------------------------------------------------------------
(***************************************************************************)
(* verify_and_parse_mds_blob.                                              *)
(***************************************************************************)
Nothing == [aaguid \in {} |-> {}]
Statuses(entry) == UNION {StatusFromWire(s) : s \in ToSet(entry.status_reports)}

\* `result.entry(aaguid).or_default().extend(statuses)`, order forgotten.
\* Mutant: a later entry takes the place of an earlier one.
InsertEntry(result, aaguid, statuses) ==
    [a \in DOMAIN result \union {aaguid} |-> IF a = aaguid THEN statuses ELSE result[a]]
ExtendEntry(result, aaguid, statuses) ==
    [a \in DOMAIN result \union {aaguid} |->
        (IF a \in DOMAIN result THEN result[a] ELSE {}) \union (IF a = aaguid THEN statuses ELSE {})]

\* One turn of the loop over the entries; nothing follows a panic.
AddParsed(result, entry) ==
    LET aaguids == {ParseAaguid(s) : s \in entry.aaguid}
    IN  IF result.verdict # Ok THEN result
        ELSE IF \E a \in aaguids : a.verdict = "panic" THEN [result EXCEPT !.verdict = "panic"]
        ELSE IF \E a \in aaguids : a.verdict = Ok
        THEN [result EXCEPT !.value = ExtendEntry(@, (CHOOSE a \in aaguids : TRUE).value,
                                                  Statuses(entry))]
        ELSE result

ParseEntries(payload) ==
    LET parsed[n \in 0 .. Len(payload)] ==
            IF n = 0 THEN [verdict |-> Ok, value |-> Nothing]
            ELSE AddParsed(parsed[n - 1], payload[n])
    IN  parsed[Len(payload)]

\* Mutants: without the signature; a broken chain with an attestation's error.
VerifyBlobUnsigned(b, trust_root) ==
    SplitJws(b, "MdsBlobMalformed")
      \o << Check(b.alg # "ES256_JWS", "MdsBlobMalformed") >>
      \o VerifyChainOrder(b.x5c, "MdsChainInvalid")
      \o << Check(b.x5c # <<>> /\ ~CertSignedBy(Last(b.x5c), trust_root), "MdsRootUntrusted") >>
VerifyBlobOfAttestation(b, trust_root) ==
    VerifyChainOrder(b.x5c, "AttestationChainInvalid")

\* The leaf's key is looked for with the function that fido-u2f uses, and
\* with its error.
VerifyBlob(b, trust_root) ==
    SplitJws(b, "MdsBlobMalformed")
      \o << Check(b.alg # "ES256_JWS", "MdsBlobMalformed") >>
      \o VerifyChainOrder(b.x5c, "MdsChainInvalid")
      \o << Check(b.x5c # <<>> /\ ~CertSignedBy(Last(b.x5c), trust_root), "MdsRootUntrusted"),
            Check(b.x5c # <<>> /\ Head(b.x5c).key.kind # "P256", "InvalidAttestationObject"),
            Check(b.x5c # <<>>
                    /\ b.signature # Signature(Head(b.x5c).key.id, "ES256_JWS", SigningInput(b)),
                  "MdsSignatureInvalid"),
            Check(b.payload.form = "malformed", "MdsBlobMalformed") >>

VerifyAndParseMdsBlob(b, trust_root) ==
    LET verdict == FirstError(VerifyBlob(b, trust_root))
        parsed == ParseEntries(b.payload.entries)
    IN  IF verdict # Ok THEN [verdict |-> verdict, value |-> Nothing] ELSE parsed

-----------------------------------------------------------------------------
(***************************************************************************)
(* External: the service, the way to the caller, and the caller.           *)
(***************************************************************************)
Init ==
    /\ entries = <<>>
    /\ served = <<>>
    /\ blob = {}
    /\ installed = Nothing
    /\ outcome = Ok

Report(entry) ==
    /\ Len(entries) < MaxEntries
    /\ entries' = Append(entries, entry)
    /\ UNCHANGED <<served, blob, installed, outcome>>

Signed(payload) ==
    [ form |-> "ok", alg |-> "ES256_JWS", x5c |-> Signer, payload |-> payload,
      signature |-> Signature(Head(Signer).key.id, "ES256_JWS",
                              <<"ES256_JWS", Signer, payload>>) ]

Serve ==
    /\ Len(served) < MaxServed
    /\ served' = Append(served, [form |-> "ok", entries |-> entries])
    /\ UNCHANGED <<entries, blob, installed, outcome>>

\* Any BLOB that was ever served.
Fetch(i) ==
    /\ blob' = {Signed(served[i])}
    /\ UNCHANGED <<entries, served, installed, outcome>>

\* Something happens to it on the way.
Alter(altered) ==
    /\ blob # {}
    /\ blob' = altered
    /\ blob' # blob
    /\ UNCHANGED <<entries, served, installed, outcome>>

AlterForm == Alter({[b EXCEPT !.form = "malformed"] : b \in blob})
AlterAlg == Alter({[b EXCEPT !.alg = "RS256"] : b \in blob})
AlterPayload(payload) == Alter({[b EXCEPT !.payload.entries = payload] : b \in blob})
AlterLeaf(cert) == Alter({[b EXCEPT !.x5c = <<cert>> \o Tail(@)] : b \in {c \in blob : c.x5c # <<>>}})
AlterChain == Alter({[b EXCEPT !.x5c = Tail(@)] : b \in {c \in blob : c.x5c # <<>>}})

\* verify_and_parse_mds_blob(..)? and authenticator_metadata(..).
Install(root) ==
    /\ blob # {}
    /\ \E b \in blob :
           LET result == VerifyAndParseMdsBlob(b, root)
           IN  /\ outcome' = result.verdict
               /\ installed' = IF result.verdict = Ok THEN result.value ELSE installed
    /\ blob' = {}
    /\ UNCHANGED <<entries, served>>

Next ==
    \/ \E entry \in Entries : Report(entry)
    \/ Serve
    \/ \E i \in DOMAIN served : Fetch(i)
    \/ AlterForm \/ AlterAlg \/ AlterChain
    \/ \E payload \in {<<>>, entries} : AlterPayload(payload)
    \/ \E cert \in Strangers : AlterLeaf(cert)
    \/ Install(TrustRoot)

Spec == Init /\ [][Next]_vars

-----------------------------------------------------------------------------
(***************************************************************************)
(* Properties.                                                             *)
(***************************************************************************)

\* Every BLOB is answered with a map or with one of the errors of the
\* metadata service, and of those of an attestation only the one that the
\* shared search for a P-256 key has (metadata.rs:198-206, 236).
TypeOK ==
    /\ entries \in Seq(Entries)
    /\ \A aaguid \in DOMAIN installed :
           aaguid \in [1 .. AaguidLen -> 0 .. 255] /\ installed[aaguid] \subseteq KnownStatuses
    /\ outcome \in {Ok, "MdsBlobMalformed", "MdsChainInvalid", "MdsRootUntrusted",
                    "MdsSignatureInvalid", "InvalidAttestationObject"}

\* A string of hexadecimal digits in the five groups of a UUID (two when
\* scaled), and the model it names.
Wellformed(s) ==
    /\ Len(s) = 2 * AaguidLen + 1
    /\ \A i \in DOMAIN s : IF i = 2 * AaguidLen - 1 THEN s[i] = Hyphen ELSE s[i].value # {}
Model(s) ==
    LET digit(n) == s[IF n < 2 * AaguidLen - 1 THEN n ELSE n + 1]
        value(n) == CHOOSE v \in digit(n).value : TRUE
    IN  [i \in 1 .. AaguidLen |-> 16 * value(2 * i - 1) + value(2 * i)]

\* An AAGUID that is not well formed is not read as another one's: what
\* metadata.rs:262-263 promises, and the code keeps for some strings only.
Readable(es) ==
    \A entry \in es : \A s \in entry.aaguid :
        Wellformed(s) \/ ParseAaguid(s).verdict = "None"

\* What a payload says: of each model every status that any entry reports.
Said(payload, model) ==
    UNION {Statuses(payload[i]) : i \in {j \in DOMAIN payload :
               \E s \in payload[j].aaguid : Wellformed(s) /\ Model(s) = model}}

\* What is installed is what the service said in one of the payloads it
\* signed, whatever happened to them on the way: nothing is added, moved to
\* another model or left out (metadata.rs:206-256).
InstalledWasServed ==
    \/ installed = Nothing
    \/ \E i \in DOMAIN served :
           LET payload == served[i].entries
           IN  \A model \in DOMAIN installed \union {Model(s) : s \in
                       {t \in UNION {e.aaguid : e \in ToSet(payload)} : Wellformed(t)}} :
                   /\ model \in DOMAIN installed
                   /\ installed[model] = Said(payload, model)

\* A compromise is not hidden by what else the list says: an unknown status
\* beside it, an entry without an AAGUID before it, or a later entry for the
\* same model leave registration refusing that model (metadata.rs:184-191,
\* 238-256, registration.rs:641-648).
CompromiseNotHidden ==
    \A i \in DOMAIN served :
        LET payload == served[i].entries
            metadata == ParseEntries(payload).value
        IN  \A entry \in ToSet(payload) : \A s \in entry.aaguid :
                Wellformed(s) =>
                    (Compromised([authenticator_metadata |-> metadata], Model(s))
                       <=> \E status \in Said(payload, Model(s)) : IsCompromised(status))

\* A payload the service signed and nothing altered is installed.
ServedIsAccepted ==
    \A i \in DOMAIN served :
        VerifyAndParseMdsBlob(Signed(served[i]), TrustRoot).verdict = Ok

\* Checked and violated: metadata.rs:189-190 says "An entry with a missing or
\* malformed `aaguid` is skipped entirely", and metadata.rs:262-263 of
\* parse_aaguid "Returns `None` on any malformed input".
MalformedAaguidSkipped ==
    \A i \in DOMAIN served :
        LET payload == served[i].entries
            sound == SelectSeq(payload, LAMBDA e : \E s \in e.aaguid : Wellformed(s))
        IN  ParseEntries(payload) = ParseEntries(sound)
=============================================================================
