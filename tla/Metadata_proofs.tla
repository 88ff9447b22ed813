--------------------------- MODULE Metadata_proofs ---------------------------
(***************************************************************************)
(* Theorems of module Metadata, for any entries, lists of any length, any  *)
(* number of lists and any chain of the service.                           *)
(*                                                                         *)
(* The inductive invariant says that a BLOB, whatever has become of the    *)
(* rest of it, carries a signature that the service made over one of its   *)
(* payloads, and that what is installed is what the loop over the entries  *)
(* makes of such a payload.  InstalledWasServed is not inductive: it does  *)
(* not say where the BLOB in the caller's hands comes from.  The other     *)
(* half of the proofs is about that loop: EntriesParsed gives its result   *)
(* in closed form, from a least turn at which it would differ.             *)
(*                                                                         *)
(* The hypothesis Readable(Entries) excludes the strings of finding 4 in   *)
(* the README: those that the code takes for an AAGUID, or panics at, and  *)
(* should skip.                                                            *)
(***************************************************************************)
EXTENDS Metadata, Ceremony_proofs

-----------------------------------------------------------------------------
(***************************************************************************)
(* parse_aaguid on a well-formed AAGUID.                                   *)
(***************************************************************************)
Pieces(s) == [i \in DOMAIN s |-> IF s[i].sign = "-" THEN <<>> ELSE Utf8(s[i])]
\* The first i characters without the hyphen, if it is among them.
Letters(s, i) ==
    [k \in 1 .. (IF i < 2 * AaguidLen - 1 THEN i ELSE i - 1) |->
        s[IF k < 2 * AaguidLen - 1 THEN k ELSE k + 1]]

\* Nothing is left of a character of one octet.
LEMMA NoneLeft ==
    ASSUME NEW v, NEW n, n = 0
    PROVE  [i \in 1 .. n |-> v] = <<>>
<1> DEFINE t == [i \in 1 .. n |-> v]
<1>1. t \in Seq({v}) /\ Len(t) = 0
  OBVIOUS
<1> HIDE DEF t
<1> QED
  BY <1>1, EmptySeq

\* A digit is one octet, itself.
LEMMA DigitPiece ==
    ASSUME NEW c \in Characters, c.value # {}
    PROVE  c.sign = "none" /\ Utf8(c) = <<c>> /\ \E n \in 0 .. 15 : c.value = {n}
<1>1. c.width = 1 /\ c.sign = "none"
  BY DEF Characters
<1>2. [i \in 1 .. c.width - 1 |-> Inside] = <<>>
  <2>1. c.width - 1 = 0
    BY <1>1
  <2> QED
    BY <2>1, NoneLeft
<1>3. \E n \in 0 .. 15 : c.value = {n}
  BY DEF Characters
<1> QED
  <2>1. <<c>> \o <<>> = <<c>>
    OBVIOUS
  <2> QED
    BY <1>1, <1>2, <1>3, <2>1 DEF Utf8

\* Flattening the pieces adds one character at a time, but for the hyphen.
LEMMA LettersStep ==
    ASSUME NEW s \in Seq(Characters), Wellformed(s), NEW i \in 1 .. Len(s)
    PROVE  /\ Letters(s, i) = IF i = 1 THEN Pieces(s)[1] ELSE Letters(s, i - 1) \o Pieces(s)[i]
<1>0. AaguidLen \in Nat \ {0} /\ Len(s) = 2 * AaguidLen + 1
  BY ScaleAssumption DEF Wellformed
<1>1. CASE i = 2 * AaguidLen - 1
  <2>1. Pieces(s)[i] = <<>>
    <3>1. s[i] = Hyphen
      BY <1>1 DEF Wellformed
    <3>2. Hyphen.sign = "-"
      BY DEF Hyphen, Char
    <3> QED
      BY <3>1, <3>2 DEF Pieces
  <2>2. i # 1 => Letters(s, i) = Letters(s, i - 1) \o <<>>
    BY <1>0, <1>1 DEF Letters
  <2>3. i = 1 => Letters(s, i) = <<>>
    BY <1>0, <1>1 DEF Letters
  <2> QED
    BY <2>1, <2>2, <2>3
<1>2. CASE i # 2 * AaguidLen - 1
  <2>1. s[i] \in Characters /\ s[i].value # {}
    BY <1>2 DEF Wellformed
  <2>2. Pieces(s)[i] = <<s[i]>>
    <3>1. s[i].sign = "none" /\ Utf8(s[i]) = <<s[i]>>
      BY <2>1, DigitPiece
    <3> QED
      BY <3>1 DEF Pieces
  <2>3. i = 1 => Letters(s, i) = <<s[i]>>
    <3>1. ASSUME i = 1
          PROVE  Letters(s, i) = [k \in 1 .. 1 |-> s[1]]
      BY <1>0, <1>2, <3>1 DEF Letters
    <3> QED
      BY <3>1
  <2>4. i # 1 => Letters(s, i) = Letters(s, i - 1) \o <<s[i]>>
    BY <1>0, <1>2 DEF Letters
  <2> QED
    BY <2>2, <2>3, <2>4
<1> QED
  BY <1>1, <1>2

\* The hyphen is dropped, and the digits are one octet each.
LEMMA HexOfWellformed ==
    ASSUME NEW s \in Seq(Characters), Wellformed(s)
    PROVE  Hex(s) = Letters(s, Len(s))
<1> DEFINE n == Len(s)
           p == Pieces(s)
           Flatten == CHOOSE f : f = [i \in 1 .. n |-> IF i = 1 THEN p[i] ELSE f[i - 1] \o p[i]]
           letters == [i \in 1 .. n |-> Letters(s, i)]
<1>1. n \in Nat \ {0} /\ Len(p) = n
  BY ScaleAssumption DEF Wellformed, Pieces
<1>2. Hex(s) = Flatten[n]
  BY <1>1 DEF Hex, FlattenSeq, Pieces
<1>3. \A i \in 1 .. n : Letters(s, i) = IF i = 1 THEN p[1] ELSE Letters(s, i - 1) \o p[i]
  BY LettersStep
<1> HIDE DEF n, p
<1>4. letters = [i \in 1 .. n |-> IF i = 1 THEN p[i] ELSE letters[i - 1] \o p[i]]
  BY <1>1, <1>3
<1>5. Flatten = [i \in 1 .. n |-> IF i = 1 THEN p[i] ELSE Flatten[i - 1] \o p[i]]
  <2> HIDE DEF letters
  <2> QED
    BY <1>4
<1> HIDE DEF Flatten
<1>6. \A i \in 1 .. n : Flatten[i] = Letters(s, i)
  <2> DEFINE T == {i \in 1 .. n : Flatten[i] # Letters(s, i)}
  <2> SUFFICES ASSUME T # {} PROVE FALSE
    OBVIOUS
  <2>1. PICK m \in T : \A i \in T : m <= i
    <3> HIDE DEF T
    <3>1. T \subseteq Nat
      BY <1>1 DEF T
    <3> QED
      BY <3>1, LeastNumber
  <2>2. m = 1 \/ (m - 1 \in 1 .. n /\ m - 1 \notin T)
    BY <1>1, <2>1
  <2>3. Flatten[m] = IF m = 1 THEN p[m] ELSE Flatten[m - 1] \o p[m]
    BY <1>5, <2>1
  <2> QED
    BY <1>3, <2>1, <2>2, <2>3
<1> QED
  BY <1>1, <1>2, <1>6 DEF n

\* A well-formed AAGUID is read as the model it names (metadata.rs:266-276).
LEMMA WellformedParses ==
    ASSUME NEW s \in Seq(Characters), Wellformed(s)
    PROVE  ParseAaguid(s) = [verdict |-> Ok, value |-> Model(s)]
<1> DEFINE hex == Hex(s)
           at(k) == IF k < 2 * AaguidLen - 1 THEN k ELSE k + 1
<1>0. AaguidLen \in Nat \ {0} /\ Len(s) = 2 * AaguidLen + 1
  BY ScaleAssumption DEF Wellformed
<1>1. /\ Len(hex) = 2 * AaguidLen
      /\ \A k \in 1 .. 2 * AaguidLen : hex[k] = s[at(k)]
  BY <1>0, HexOfWellformed DEF Letters
<1>2. \A k \in 1 .. 2 * AaguidLen : /\ hex[k].sign = "none"
                                    /\ hex[k] # Inside
                                    /\ \E v \in 0 .. 15 : hex[k].value = {v}
  <2> SUFFICES ASSUME NEW k \in 1 .. 2 * AaguidLen
               PROVE  hex[k].sign = "none" /\ hex[k] # Inside /\ \E v \in 0 .. 15 : hex[k].value = {v}
    OBVIOUS
  <2>1. at(k) \in 1 .. Len(s) /\ at(k) # 2 * AaguidLen - 1
    BY <1>0
  <2>2. s[at(k)] \in Characters /\ s[at(k)].value # {}
    BY <2>1 DEF Wellformed
  <2>3. Inside.value = {}
    BY DEF Inside, Char
  <2> QED
    BY <1>1, <2>2, <2>3, DigitPiece
<1> HIDE DEF hex
<1>3. ASSUME NEW i \in 1 .. AaguidLen
      PROVE  /\ ~Cuts(hex, i)
             /\ Octet(hex, i) # {}
             /\ (CHOOSE n \in Octet(hex, i) : TRUE) = Model(s)[i]
  <2>1. 2 * i - 1 \in 1 .. 2 * AaguidLen /\ 2 * i \in 1 .. 2 * AaguidLen
    BY <1>0
  <2>2. ~Cuts(hex, i)
    <3>1. 2 * i + 1 <= Len(hex) => 2 * i + 1 \in 1 .. 2 * AaguidLen
      BY <1>0, <1>1
    <3> QED
      BY <1>2, <2>1, <3>1 DEF Cuts
  <2>3. PICK h \in 0 .. 15, l \in 0 .. 15 :
           hex[2 * i - 1].value = {h} /\ hex[2 * i].value = {l}
    BY <1>2, <2>1
  <2>4. Octet(hex, i) = {16 * h + l}
    <3>1. hex[2 * i - 1].sign # "+"
      BY <1>2, <2>1
    <3>2. {16 * x + y : x \in {h}, y \in {l}} = {16 * h + l}
      OBVIOUS
    <3> QED
      BY <2>3, <3>1, <3>2 DEF Octet, FromStrRadix
  <2>5. Model(s)[i] = 16 * h + l
    BY <1>0, <1>1, <2>1, <2>3 DEF Model
  <2> QED
    BY <2>2, <2>4, <2>5
<1>4. {i \in 1 .. AaguidLen : Cuts(hex, i) \/ Octet(hex, i) = {}} = {}
  BY <1>3
<1>5. [i \in 1 .. AaguidLen |-> CHOOSE n \in Octet(hex, i) : TRUE] = Model(s)
  BY <1>3 DEF Model
<1> QED
  BY <1>1, <1>4, <1>5 DEF ParseAaguid, hex

-----------------------------------------------------------------------------
(***************************************************************************)
(* The loop over the entries.                                              *)
(***************************************************************************)
\* The models an entry names, those the first n entries name, and what these
\* report of one of them.
Read(entry) == {Model(s) : s \in {t \in entry.aaguid : Wellformed(t)}}
Models(payload, n) == UNION {Read(payload[i]) : i \in 1 .. n}
Reports(payload, n, model) ==
    UNION {Statuses(payload[i]) : i \in {j \in 1 .. n : model \in Read(payload[j])}}
Digest(payload, n) == [model \in Models(payload, n) |-> Reports(payload, n, model)]

\* One turn: an entry that names no model is skipped, the others are added.
LEMMA AddEntry ==
    ASSUME Readable(Entries), NEW entry \in Entries, NEW value
    PROVE  LET result == [verdict |-> Ok, value |-> value]
           IN  \/ Read(entry) = {} /\ AddParsed(result, entry) = result
               \/ \E model :
                     /\ Read(entry) = {model}
                     /\ AddParsed(result, entry) =
                           [verdict |-> Ok, value |-> ExtendEntry(value, model, Statuses(entry))]
<1> DEFINE result == [verdict |-> Ok, value |-> value]
           aaguids == {ParseAaguid(s) : s \in entry.aaguid}
<1>0. Ok # "panic" /\ Ok # "None"
  BY DEF Ok
<1>1. CASE entry.aaguid = {}
  <2>1. Read(entry) = {} /\ aaguids = {}
    BY <1>1 DEF Read
  <2> HIDE DEF aaguids
  <2>2. AddParsed(result, entry) = result
    BY <2>1 DEF AddParsed, aaguids
  <2> QED
    BY <2>1, <2>2
<1>2. ASSUME NEW s \in entry.aaguid
      PROVE  \/ Read(entry) = {} /\ AddParsed(result, entry) = result
             \/ \E model :
                   /\ Read(entry) = {model}
                   /\ AddParsed(result, entry) =
                         [verdict |-> Ok, value |-> ExtendEntry(value, model, Statuses(entry))]
  <2>1. entry.aaguid = {s} /\ s \in Seq(Characters)
    BY <1>2, EntriesAssumption
  <2>2. CASE Wellformed(s)
    <3>1. ParseAaguid(s) = [verdict |-> Ok, value |-> Model(s)]
      BY <2>1, <2>2, WellformedParses
    <3>2. Read(entry) = {Model(s)} /\ aaguids = {[verdict |-> Ok, value |-> Model(s)]}
      BY <2>1, <2>2, <3>1 DEF Read
    <3>3. (CHOOSE a \in aaguids : TRUE) = [verdict |-> Ok, value |-> Model(s)]
      BY <3>2
    <3> HIDE DEF aaguids
    <3>4. AddParsed(result, entry) =
            [result EXCEPT !.value = ExtendEntry(@, Model(s), Statuses(entry))]
      BY <1>0, <3>2, <3>3 DEF AddParsed, aaguids
    <3>5. AddParsed(result, entry) =
            [verdict |-> Ok, value |-> ExtendEntry(value, Model(s), Statuses(entry))]
      BY <3>4
    <3> QED
      BY <3>2, <3>5
  <2>3. CASE ~Wellformed(s)
    <3>1. ParseAaguid(s).verdict = "None"
      BY <2>3 DEF Readable
    <3>2. Read(entry) = {} /\ \A a \in aaguids : a.verdict = "None"
      BY <2>1, <2>3, <3>1 DEF Read
    <3> HIDE DEF aaguids
    <3>3. AddParsed(result, entry) = result
      BY <1>0, <3>2 DEF AddParsed, aaguids
    <3> QED
      BY <3>2, <3>3
  <2> QED
    BY <2>2, <2>3
<1> QED
  BY <1>1, <1>2

\* What the first entries report, and one more entry (metadata.rs:253).
LEMMA DigestStep ==
    ASSUME NEW payload, NEW n \in Nat \ {0}
    PROVE  /\ Read(payload[n]) = {} => Digest(payload, n) = Digest(payload, n - 1)
           /\ \A model : Read(payload[n]) = {model} =>
                 Digest(payload, n) =
                     ExtendEntry(Digest(payload, n - 1), model, Statuses(payload[n]))
<1>1. 1 .. n = (1 .. n - 1) \union {n}
  OBVIOUS
<1>2. Models(payload, n) = Models(payload, n - 1) \union Read(payload[n])
  BY <1>1 DEF Models
<1>3. ASSUME NEW x
      PROVE  Reports(payload, n, x) =
               Reports(payload, n - 1, x) \union
                   (IF x \in Read(payload[n]) THEN Statuses(payload[n]) ELSE {})
  BY <1>1 DEF Reports
<1>4. ASSUME NEW x, x \notin Models(payload, n - 1)
      PROVE  Reports(payload, n - 1, x) = {}
  BY <1>4 DEF Models, Reports
<1>5. ASSUME Read(payload[n]) = {}
      PROVE  Digest(payload, n) = Digest(payload, n - 1)
  BY <1>2, <1>3, <1>5 DEF Digest
<1>6. ASSUME NEW model, Read(payload[n]) = {model}
      PROVE  Digest(payload, n) =
               ExtendEntry(Digest(payload, n - 1), model, Statuses(payload[n]))
  <2> DEFINE before == Digest(payload, n - 1)
             after(x) == (IF x \in DOMAIN before THEN before[x] ELSE {})
                           \union (IF x = model THEN Statuses(payload[n]) ELSE {})
  <2>1. DOMAIN before = Models(payload, n - 1)
    BY DEF Digest
  <2>2. Models(payload, n) = DOMAIN before \union {model}
    BY <1>2, <1>6, <2>1
  <2>3. \A x \in Models(payload, n - 1) : before[x] = Reports(payload, n - 1, x)
    BY DEF Digest
  <2>4. ASSUME NEW x \in Models(payload, n)
        PROVE  Reports(payload, n, x) = after(x)
    <3>1. x \in Read(payload[n]) <=> x = model
      BY <1>6
    <3> HIDE DEF before
    <3> QED
      BY <1>3, <1>4, <2>1, <2>3, <3>1
  <2> QED
    BY <2>2, <2>4 DEF Digest, ExtendEntry
<1> QED
  BY <1>5, <1>6

\* The loop keeps of each model what every entry for it reports.
LEMMA EntriesParsed ==
    ASSUME Readable(Entries), NEW payload \in Seq(Entries)
    PROVE  ParseEntries(payload) = [verdict |-> Ok, value |-> Digest(payload, Len(payload))]
<1> DEFINE n == Len(payload)
           start == [verdict |-> Ok, value |-> Nothing]
           Parsed == CHOOSE f : f = [i \in 0 .. n |-> IF i = 0 THEN start
                                                       ELSE AddParsed(f[i - 1], payload[i])]
           digest(i) == [verdict |-> Ok, value |-> Digest(payload, i)]
           digests == [i \in 0 .. n |-> digest(i)]
<1>1. n \in Nat
  OBVIOUS
<1>2. ParseEntries(payload) = Parsed[n]
  BY DEF ParseEntries
<1>3. Digest(payload, 0) = Nothing
  BY DEF Digest, Models, Nothing
<1>4. ASSUME NEW i \in 1 .. n
      PROVE  digest(i) = AddParsed(digest(i - 1), payload[i])
  <2>1. payload[i] \in Entries
    OBVIOUS
  <2>2. \/ /\ Read(payload[i]) = {}
           /\ AddParsed(digest(i - 1), payload[i]) = digest(i - 1)
        \/ \E model :
              /\ Read(payload[i]) = {model}
              /\ AddParsed(digest(i - 1), payload[i]) =
                    [verdict |-> Ok,
                     value |-> ExtendEntry(Digest(payload, i - 1), model, Statuses(payload[i]))]
    BY <2>1, AddEntry
  <2>3. /\ Read(payload[i]) = {} => Digest(payload, i) = Digest(payload, i - 1)
        /\ \A model : Read(payload[i]) = {model} =>
              Digest(payload, i) =
                  ExtendEntry(Digest(payload, i - 1), model, Statuses(payload[i]))
    <3>1. i \in Nat \ {0}
      BY <1>1
    <3> HIDE DEF n
    <3> QED
      BY <3>1, DigestStep
  <2> QED
    BY <2>2, <2>3
<1>5. digest(0) = start
  BY <1>3
<1> HIDE DEF n, start, digest
<1>6. digests = [i \in 0 .. n |-> IF i = 0 THEN start ELSE AddParsed(digests[i - 1], payload[i])]
  BY <1>1, <1>4, <1>5
<1>7. Parsed = [i \in 0 .. n |-> IF i = 0 THEN start ELSE AddParsed(Parsed[i - 1], payload[i])]
  <2> HIDE DEF digests
  <2> QED
    BY <1>6
<1> HIDE DEF Parsed
<1>8. \A i \in 0 .. n : Parsed[i] = digest(i)
  <2> DEFINE T == {i \in 0 .. n : Parsed[i] # digest(i)}
  <2> SUFFICES ASSUME T # {} PROVE FALSE
    OBVIOUS
  <2>1. PICK m \in T : \A i \in T : m <= i
    <3> HIDE DEF T
    <3>1. T \subseteq Nat
      BY <1>1 DEF T
    <3> QED
      BY <3>1, LeastNumber
  <2>2. m = 0 \/ (m \in 1 .. n /\ m - 1 \in 0 .. n /\ m - 1 \notin T)
    BY <1>1, <2>1
  <2>3. Parsed[m] = IF m = 0 THEN start ELSE AddParsed(Parsed[m - 1], payload[m])
    BY <1>7, <2>1
  <2> QED
    BY <1>4, <1>5, <2>1, <2>2, <2>3
<1> QED
  BY <1>1, <1>2, <1>8 DEF n, digest

-----------------------------------------------------------------------------
(***************************************************************************)
(* The checks of a BLOB.                                                   *)
(***************************************************************************)
BlobErrors ==
    {"MdsBlobMalformed", "MdsChainInvalid", "MdsRootUntrusted", "MdsSignatureInvalid",
     "InvalidAttestationObject"}

\* The answer to a BLOB, and what it shows.
Sound(b, root) ==
    /\ b.form # "malformed" /\ b.x5c # <<>> /\ b.alg = "ES256_JWS"
    /\ \A i \in 1 .. Len(b.x5c) - 1 : Linked(b.x5c[i], b.x5c[i + 1])
    /\ CertSignedBy(Last(b.x5c), root)
    /\ Head(b.x5c).key.kind = "P256"
    /\ b.signature = Signature(Head(b.x5c).key.id, "ES256_JWS", SigningInput(b))
    /\ b.payload.form # "malformed"

\* A BLOB is refused with an error of the reader, or sound (metadata.rs:206-236).
LEMMA BlobAnswer ==
    ASSUME NEW b, NEW root
    PROVE  /\ FirstError(VerifyBlob(b, root)) \in BlobErrors \union {Ok}
           /\ FirstError(VerifyBlob(b, root)) = Ok <=> Sound(b, root)
<1> DEFINE E == BlobErrors \union {Ok}
           c1 == Check(b.form = "malformed", "MdsBlobMalformed")
           c2 == Check(b.x5c = <<>>, "MdsBlobMalformed")
           c3 == Check(b.alg # "ES256_JWS", "MdsBlobMalformed")
           c4 == Check(\E i \in 1 .. Len(b.x5c) - 1 : ~Linked(b.x5c[i], b.x5c[i + 1]),
                       "MdsChainInvalid")
           c5 == Check(b.x5c # <<>> /\ ~CertSignedBy(Last(b.x5c), root), "MdsRootUntrusted")
           c6 == Check(b.x5c # <<>> /\ Head(b.x5c).key.kind # "P256", "InvalidAttestationObject")
           c7 == Check(b.x5c # <<>>
                         /\ b.signature # Signature(Head(b.x5c).key.id, "ES256_JWS",
                                                    SigningInput(b)), "MdsSignatureInvalid")
           c8 == Check(b.payload.form = "malformed", "MdsBlobMalformed")
<1>1. /\ c1 \in Checks(E) /\ c2 \in Checks(E) /\ c3 \in Checks(E) /\ c4 \in Checks(E)
      /\ c5 \in Checks(E) /\ c6 \in Checks(E) /\ c7 \in Checks(E) /\ c8 \in Checks(E)
  BY DEF Checks, Check, BlobErrors, Ok
<1>2. /\ c1.error # Ok /\ c2.error # Ok /\ c3.error # Ok /\ c4.error # Ok
      /\ c5.error # Ok /\ c6.error # Ok /\ c7.error # Ok /\ c8.error # Ok
  BY DEF Check, Ok
<1>3. /\ c1.failed <=> b.form = "malformed"
      /\ c2.failed <=> b.x5c = <<>>
      /\ c3.failed <=> b.alg # "ES256_JWS"
      /\ c4.failed <=> \E i \in 1 .. Len(b.x5c) - 1 : ~Linked(b.x5c[i], b.x5c[i + 1])
      /\ c5.failed <=> b.x5c # <<>> /\ ~CertSignedBy(Last(b.x5c), root)
      /\ c6.failed <=> b.x5c # <<>> /\ Head(b.x5c).key.kind # "P256"
      /\ c7.failed <=> /\ b.x5c # <<>>
                      /\ b.signature # Signature(Head(b.x5c).key.id, "ES256_JWS",
                                                 SigningInput(b))
      /\ c8.failed <=> b.payload.form = "malformed"
  BY DEF Check
<1>4. VerifyBlob(b, root) = <<c1, c2>> \o <<c3>> \o <<c4>> \o <<c5, c6, c7, c8>>
  BY DEF VerifyBlob, SplitJws, VerifyChainOrder
<1> HIDE DEF E, c1, c2, c3, c4, c5, c6, c7, c8
<1>5. /\ <<c1, c2>> \in Lines(E)
      /\ FirstError(<<c1, c2>>) = Ok <=> ~c1.failed /\ ~c2.failed
  BY <1>1, <1>2, FirstErrorOf2
<1>6. /\ <<c3>> \in Lines(E) /\ <<c4>> \in Lines(E)
      /\ FirstError(<<c3>>) = Ok <=> ~c3.failed
      /\ FirstError(<<c4>>) = Ok <=> ~c4.failed
  BY <1>1, <1>2, FirstErrorOf1
<1>7. /\ <<c5, c6, c7, c8>> \in Lines(E)
      /\ FirstError(<<c5, c6, c7, c8>>) = Ok <=>
            ~c5.failed /\ ~c6.failed /\ ~c7.failed /\ ~c8.failed
  BY <1>1, <1>2, FirstErrorOf4
<1>8. /\ <<c1, c2>> \o <<c3>> \in Lines(E)
      /\ FirstError(<<c1, c2>> \o <<c3>>) = Ok <=> ~c1.failed /\ ~c2.failed /\ ~c3.failed
  BY <1>5, <1>6, FirstErrorOfConcat
<1>9. /\ <<c1, c2>> \o <<c3>> \o <<c4>> \in Lines(E)
      /\ FirstError(<<c1, c2>> \o <<c3>> \o <<c4>>) = Ok <=>
            ~c1.failed /\ ~c2.failed /\ ~c3.failed /\ ~c4.failed
  BY <1>6, <1>8, FirstErrorOfConcat
<1>10. /\ VerifyBlob(b, root) \in Lines(E)
       /\ FirstError(VerifyBlob(b, root)) = Ok <=>
             /\ ~c1.failed /\ ~c2.failed /\ ~c3.failed /\ ~c4.failed
             /\ ~c5.failed /\ ~c6.failed /\ ~c7.failed /\ ~c8.failed
  <2> DEFINE front == <<c1, c2>> \o <<c3>> \o <<c4>>
             back == <<c5, c6, c7, c8>>
  <2>1. VerifyBlob(b, root) = front \o back
    BY <1>4
  <2>2. front \in Lines(E) /\ back \in Lines(E)
    BY <1>7, <1>9
  <2> HIDE DEF front, back
  <2>3. /\ front \o back \in Lines(E)
        /\ FirstError(front \o back) =
              IF FirstError(front) # Ok THEN FirstError(front) ELSE FirstError(back)
    BY <2>2, FirstErrorOfConcat
  <2> QED
    BY <1>7, <1>9, <2>1, <2>3 DEF front, back
<1>11. FirstError(VerifyBlob(b, root)) \in E
  BY <1>10, FirstErrorType DEF E
<1>12. FirstError(VerifyBlob(b, root)) = Ok <=> Sound(b, root)
  BY <1>3, <1>10 DEF Sound
<1> QED
  BY <1>11, <1>12 DEF E

-----------------------------------------------------------------------------
(***************************************************************************)
(* The invariant: a BLOB carries a signature that the service made over    *)
(* one of its payloads, whatever has become of the rest of it.             *)
(***************************************************************************)
Payloads == [form : {"ok"}, entries : Seq(Entries)]
SignatureOf(payload) ==
    Signature(Head(Signer).key.id, "ES256_JWS", <<"ES256_JWS", Signer, payload>>)
Delivered(b) ==
    /\ DOMAIN b = {"form", "alg", "x5c", "payload", "signature"}
    /\ \E i \in DOMAIN served : b.signature = SignatureOf(served[i])

IInv ==
    /\ entries \in Seq(Entries)
    /\ served \in Seq(Payloads)
    /\ \A b \in blob : Delivered(b)
    /\ \/ installed = Nothing
       \/ \E i \in DOMAIN served : installed = ParseEntries(served[i].entries).value
    /\ outcome \in BlobErrors \union {Ok}

\* The service signs lists of its entries.
LEMMA ServedPayload ==
    ASSUME IInv, NEW i \in DOMAIN served
    PROVE  served[i].entries \in Seq(Entries)
<1>1. served[i] \in Payloads
  BY DEF IInv
<1> QED
  BY <1>1 DEF Payloads

\* At first there is no BLOB.
LEMMA InitIInv ==
    ASSUME Init
    PROVE  IInv
  BY DEF Init, IInv

\* What is accepted is what was signed: the signature covers the payload.
LEMMA AcceptedWasServed ==
    ASSUME NEW b, Delivered(b), FirstError(VerifyBlob(b, TrustRoot)) = Ok
    PROVE  \E i \in DOMAIN served : b.payload = served[i]
<1>1. PICK i \in DOMAIN served : b.signature = SignatureOf(served[i])
  BY DEF Delivered
<1>2. b.signature = Signature(Head(b.x5c).key.id, "ES256_JWS", SigningInput(b))
  BY BlobAnswer DEF Sound
<1>3. SigningInput(b) = <<"ES256_JWS", Signer, served[i]>>
  BY <1>1, <1>2 DEF Signature, SignatureOf
<1> QED
  BY <1>3 DEF SigningInput

\* No step on the way makes a signature, and only Install reads a BLOB.
LEMMA NextIInv ==
    ASSUME Readable(Entries), IInv, [Next]_vars
    PROVE  IInv'
<1> USE DEF IInv
<1>1. ASSUME NEW entry \in Entries, Report(entry)
      PROVE  IInv'
  BY <1>1 DEF Report, Delivered
<1>2. ASSUME Serve
      PROVE  IInv'
  <2>1. /\ served' = Append(served, [form |-> "ok", entries |-> entries])
        /\ UNCHANGED <<entries, blob, installed, outcome>>
    BY <1>2 DEF Serve
  <2>2. /\ served' \in Seq(Payloads)
        /\ \A i \in DOMAIN served : i \in DOMAIN served' /\ served'[i] = served[i]
    BY <2>1 DEF Payloads
  <2>3. \A b \in blob' : Delivered(b)'
    BY <2>1, <2>2 DEF Delivered
  <2> QED
    BY <2>1, <2>2, <2>3
<1>3. ASSUME NEW i \in DOMAIN served, Fetch(i)
      PROVE  IInv'
  <2>1. Delivered(Signed(served[i]))
    BY DEF Delivered, Signed, SignatureOf
  <2> QED
    BY <1>3, <2>1 DEF Fetch, Delivered
<1>4. ASSUME NEW altered, Alter(altered), \A b \in altered : Delivered(b)
      PROVE  IInv'
  BY <1>4 DEF Alter, Delivered
<1>5. CASE AlterForm \/ AlterAlg \/ AlterChain
  BY <1>4, <1>5 DEF AlterForm, AlterAlg, AlterChain, Delivered
<1>6. ASSUME NEW payload, AlterPayload(payload)
      PROVE  IInv'
  BY <1>4, <1>6 DEF AlterPayload, Delivered
<1>7. ASSUME NEW cert, AlterLeaf(cert)
      PROVE  IInv'
  BY <1>4, <1>7 DEF AlterLeaf, Delivered
<1>8. ASSUME Install(TrustRoot)
      PROVE  IInv'
  <2>1. PICK b \in blob :
           /\ outcome' = VerifyAndParseMdsBlob(b, TrustRoot).verdict
           /\ installed' = IF VerifyAndParseMdsBlob(b, TrustRoot).verdict = Ok
                           THEN VerifyAndParseMdsBlob(b, TrustRoot).value ELSE installed
    BY <1>8 DEF Install
  <2>2. blob' = {} /\ UNCHANGED <<entries, served>>
    BY <1>8 DEF Install
  <2> DEFINE e == FirstError(VerifyBlob(b, TrustRoot))
  <2>3. CASE e # Ok
    <3>1. VerifyAndParseMdsBlob(b, TrustRoot).verdict = e
      BY <2>3 DEF VerifyAndParseMdsBlob
    <3>2. e \in BlobErrors
      BY <2>3, BlobAnswer
    <3> HIDE DEF e
    <3> QED
      BY <2>1, <2>2, <2>3, <3>1, <3>2
  <2>4. CASE e = Ok
    <3>1. PICK i \in DOMAIN served : b.payload = served[i]
      BY <2>4, AcceptedWasServed
    <3>2. VerifyAndParseMdsBlob(b, TrustRoot) = ParseEntries(served[i].entries)
      BY <2>4, <3>1 DEF VerifyAndParseMdsBlob
    <3>3. served[i].entries \in Seq(Entries)
      BY ServedPayload
    <3>4. ParseEntries(served[i].entries).verdict = Ok
      BY <3>3, EntriesParsed
    <3> QED
      BY <2>1, <2>2, <3>2, <3>4
  <2> QED
    BY <2>3, <2>4
<1>9. CASE UNCHANGED vars
  BY <1>9 DEF vars, Delivered
<1> QED
  BY <1>1, <1>2, <1>3, <1>5, <1>6, <1>7, <1>8, <1>9 DEF Next

\* So it is in every state.
LEMMA Invariance ==
    ASSUME Readable(Entries)
    PROVE  Spec => []IInv
<1>1. IInv /\ [Next]_vars => IInv'
  BY NextIInv
<1> QED
  BY <1>1, InitIInv, PTL DEF Spec

-----------------------------------------------------------------------------
(***************************************************************************)
(* The properties.                                                         *)
(***************************************************************************)

\* The models that a payload names with a well-formed AAGUID.
Named(payload) ==
    {Model(s) : s \in {t \in UNION {e.aaguid : e \in ToSet(payload)} : Wellformed(t)}}

\* Of each model that a payload names, and of no other, the map has what the
\* payload says.
LEMMA PayloadRead ==
    ASSUME Readable(Entries), NEW payload \in Seq(Entries)
    PROVE  LET parsed == ParseEntries(payload)
           IN  /\ parsed.verdict = Ok
               /\ DOMAIN parsed.value = Named(payload)
               /\ \A model \in Named(payload) : parsed.value[model] = Said(payload, model)
<1>1. ParseEntries(payload) = [verdict |-> Ok, value |-> Digest(payload, Len(payload))]
  BY EntriesParsed
<1>2. Models(payload, Len(payload)) = Named(payload)
  BY DEF Models, Read, Named, ToSet
<1>3. ASSUME NEW model
      PROVE  Reports(payload, Len(payload), model) = Said(payload, model)
  BY DEF Reports, Read, Said
<1> QED
  BY <1>1, <1>2, <1>3 DEF Digest

\* A model is sixteen octets (AaguidLen of them).
LEMMA ModelType ==
    ASSUME NEW s \in Seq(Characters), Wellformed(s)
    PROVE  Model(s) \in [1 .. AaguidLen -> 0 .. 255]
<1> DEFINE at(k) == IF k < 2 * AaguidLen - 1 THEN k ELSE k + 1
           value(k) == CHOOSE v \in s[at(k)].value : TRUE
<1>0. AaguidLen \in Nat \ {0} /\ Len(s) = 2 * AaguidLen + 1
  BY ScaleAssumption DEF Wellformed
<1>1. ASSUME NEW k \in 1 .. 2 * AaguidLen
      PROVE  value(k) \in 0 .. 15
  <2>1. at(k) \in 1 .. Len(s) /\ at(k) # 2 * AaguidLen - 1
    BY <1>0
  <2>2. s[at(k)] \in Characters /\ s[at(k)].value # {}
    BY <2>1 DEF Wellformed
  <2>3. PICK n \in 0 .. 15 : s[at(k)].value = {n}
    BY <2>2, DigitPiece
  <2> QED
    BY <2>3
<1>2. Model(s) = [i \in 1 .. AaguidLen |-> 16 * value(2 * i - 1) + value(2 * i)]
  BY DEF Model
<1> HIDE DEF value
<1>3. ASSUME NEW i \in 1 .. AaguidLen
      PROVE  16 * value(2 * i - 1) + value(2 * i) \in 0 .. 255
  <2>1. 2 * i - 1 \in 1 .. 2 * AaguidLen /\ 2 * i \in 1 .. 2 * AaguidLen
    BY <1>0
  <2>2. value(2 * i - 1) \in 0 .. 15 /\ value(2 * i) \in 0 .. 15
    BY <1>1, <2>1
  <2>3. \A x, y \in 0 .. 15 : 16 * x + y \in 0 .. 255
    OBVIOUS
  <2> QED
    BY <2>2, <2>3
<1> QED
  BY <1>2, <1>3

\* Every BLOB is answered with a map of the right type or with one of the errors
\* of the metadata service (metadata.rs:198-206, 236).  The panic of finding 4
\* is what Readable excludes.
THEOREM TypeCorrectness ==
    ASSUME Readable(Entries)
    PROVE  Spec => []TypeOK
<1>1. ASSUME NEW payload \in Seq(Entries)
      PROVE  LET metadata == ParseEntries(payload).value
             IN  \A aaguid \in DOMAIN metadata :
                    /\ aaguid \in [1 .. AaguidLen -> 0 .. 255]
                    /\ metadata[aaguid] \subseteq KnownStatuses
  <2> DEFINE metadata == ParseEntries(payload).value
  <2> SUFFICES ASSUME NEW aaguid \in DOMAIN metadata
               PROVE  /\ aaguid \in [1 .. AaguidLen -> 0 .. 255]
                      /\ metadata[aaguid] \subseteq KnownStatuses
    OBVIOUS
  <2>1. aaguid \in Named(payload) /\ metadata[aaguid] = Said(payload, aaguid)
    BY PayloadRead
  <2>2. PICK e \in ToSet(payload) : \E s \in e.aaguid : Wellformed(s) /\ aaguid = Model(s)
    BY <2>1 DEF Named
  <2>3. PICK s \in e.aaguid : Wellformed(s) /\ aaguid = Model(s)
    BY <2>2
  <2>4. s \in Seq(Characters)
    <3>1. e \in Entries
      BY <2>2 DEF ToSet
    <3> QED
      BY <3>1, EntriesAssumption
  <2>5. Said(payload, aaguid) \subseteq KnownStatuses
    BY DEF Said, Statuses, StatusFromWire
  <2> QED
    BY <2>1, <2>3, <2>4, <2>5, ModelType
<1>2. ASSUME IInv
      PROVE  TypeOK
  <2>1. \A aaguid \in DOMAIN installed :
           aaguid \in [1 .. AaguidLen -> 0 .. 255] /\ installed[aaguid] \subseteq KnownStatuses
    <3>1. CASE installed = Nothing
      BY <3>1 DEF Nothing
    <3>2. ASSUME NEW i \in DOMAIN served, installed = ParseEntries(served[i].entries).value
          PROVE  \A aaguid \in DOMAIN installed :
                    /\ aaguid \in [1 .. AaguidLen -> 0 .. 255]
                    /\ installed[aaguid] \subseteq KnownStatuses
      BY <1>1, <1>2, <3>2, ServedPayload
    <3> QED
      BY <1>2, <3>1, <3>2 DEF IInv
  <2> QED
    BY <1>2, <2>1 DEF IInv, TypeOK, BlobErrors
<1> QED
  BY <1>2, Invariance, PTL

\* What is installed is what the service said in one of the payloads it signed,
\* whatever happened to the BLOB on the way, for lists of any length and any
\* number of them (metadata.rs:206-256).
THEOREM EntriesServed ==
    ASSUME Readable(Entries)
    PROVE  Spec => []InstalledWasServed
<1>1. ASSUME IInv
      PROVE  InstalledWasServed
  <2>1. CASE installed = Nothing
    BY <2>1 DEF InstalledWasServed
  <2>2. ASSUME NEW i \in DOMAIN served, installed = ParseEntries(served[i].entries).value
        PROVE  InstalledWasServed
    <3>1. served[i].entries \in Seq(Entries)
      BY <1>1, ServedPayload
    <3> QED
      BY <2>2, <3>1, PayloadRead DEF InstalledWasServed, Named
  <2> QED
    BY <1>1, <2>1, <2>2 DEF IInv
<1> QED
  BY <1>1, Invariance, PTL

\* A compromise is not hidden by what else a list says, however long it is and
\* wherever in it the compromise is reported (metadata.rs:184-191, 238-256,
\* registration.rs:641-648).
THEOREM CompromisesShown ==
    ASSUME Readable(Entries)
    PROVE  Spec => []CompromiseNotHidden
<1>1. ASSUME IInv
      PROVE  CompromiseNotHidden
  <2> SUFFICES ASSUME NEW i \in DOMAIN served,
                      NEW entry \in ToSet(served[i].entries), NEW s \in entry.aaguid,
                      Wellformed(s)
               PROVE  LET payload  == served[i].entries
                          metadata == ParseEntries(payload).value
                      IN  Compromised([authenticator_metadata |-> metadata], Model(s)) <=>
                              \E status \in Said(payload, Model(s)) : IsCompromised(status)
    BY DEF CompromiseNotHidden
  <2>1. served[i].entries \in Seq(Entries)
    BY <1>1, ServedPayload
  <2>2. Model(s) \in Named(served[i].entries)
    BY DEF Named
  <2> QED
    BY <2>1, <2>2, PayloadRead DEF Compromised
<1> QED
  BY <1>1, Invariance, PTL

\* A payload the service signed and nothing altered is installed, whatever the
\* length of the service's chain (metadata.rs:206-236).
THEOREM ServedAccepted ==
    ASSUME Readable(Entries)
    PROVE  Spec => []ServedIsAccepted
<1>1. ASSUME IInv
      PROVE  ServedIsAccepted
  <2> SUFFICES ASSUME NEW i \in DOMAIN served
               PROVE  VerifyAndParseMdsBlob(Signed(served[i]), TrustRoot).verdict = Ok
    BY DEF ServedIsAccepted
  <2> DEFINE b == Signed(served[i])
  <2>1. /\ b.form = "ok" /\ b.alg = "ES256_JWS" /\ b.x5c = Signer /\ b.payload = served[i]
        /\ b.signature = Signature(Head(Signer).key.id, "ES256_JWS", SigningInput(b))
    BY DEF Signed, SigningInput
  <2>2. served[i].form = "ok"
    <3>1. served[i] \in Payloads
      BY <1>1 DEF IInv
    <3> QED
      BY <3>1 DEF Payloads
  <2>3. \A k \in 1 .. Len(Signer) - 1 : Linked(Signer[k], Signer[k + 1])
    <3>1. \A k \in 1 .. Len(Signer) : Signer[k].valid
      BY SignerAssumption DEF ToSet
    <3> QED
      BY <3>1, SignerAssumption DEF Linked, CertSignedBy
  <2>4. CertSignedBy(Last(Signer), TrustRoot)
    <3>1. Len(Signer) \in 1 .. Len(Signer)
      BY SignerAssumption, EmptySeq
    <3>2. Last(Signer) \in ToSet(Signer)
      BY <3>1, SignerAssumption DEF ToSet, Last
    <3> QED
      BY <3>2, SignerAssumption DEF CertSignedBy
  <2> HIDE DEF b
  <2>5. Sound(b, TrustRoot)
    BY <2>1, <2>2, <2>3, <2>4, SignerAssumption DEF Sound
  <2>6. FirstError(VerifyBlob(b, TrustRoot)) = Ok
    BY <2>5, BlobAnswer
  <2>7. VerifyAndParseMdsBlob(b, TrustRoot) = ParseEntries(served[i].entries)
    BY <2>1, <2>6 DEF VerifyAndParseMdsBlob
  <2>8. ParseEntries(served[i].entries).verdict = Ok
    BY <1>1, ServedPayload, PayloadRead
  <2> QED
    BY <2>7, <2>8 DEF b
<1> QED
  BY <1>1, Invariance, PTL
=============================================================================
