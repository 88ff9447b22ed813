-------------------------- MODULE Ceremony_proofs ---------------------------
(***************************************************************************)
(* What a straight line of early returns answers, and from it what the two *)
(* ceremonies answer, for every configuration, credential, challenge,      *)
(* response and time.                                                      *)
(*                                                                         *)
(* The verdict of a ceremony is FirstError of a sequence of checks, which  *)
(* is defined by the least index at which a check fails.  The lemmas of    *)
(* the first part say how it behaves: it is that check's error             *)
(* (FirstErrorIsFirst), it is Ok exactly if no check fails (PassedIff),    *)
(* and one line of checks after another answers with the first if that     *)
(* fails and with the second otherwise (FirstErrorOfConcat).  The second   *)
(* part turns each ceremony into the cascade of conditions it stands for,  *)
(* and the third draws the conclusions that other modules rely on.         *)
(***************************************************************************)
EXTENDS Ceremony, SequenceTheorems, WellFoundedInduction, TLAPS

\* What a ceremony can answer.
Verdicts == WebAuthnErrors \union {Ok}

-----------------------------------------------------------------------------
(***************************************************************************)
(* Lines of early returns.                                                 *)
(***************************************************************************)

\* A check whose error is one of E, if it fails.
Checks(E) == {c \in [failed : BOOLEAN, error : E] : c.failed => c.error # Ok}
Lines(E) == Seq(Checks(E))

\* A set of numbers that is not empty has a least element.
LEMMA LeastNumber ==
    ASSUME NEW T, T \subseteq Nat, T # {}
    PROVE  \E m \in T : \A n \in T : m <= n
<1>1. PICK m \in T : \A n \in T : ~(<<n, m>> \in OpToRel(<, Nat))
  BY NatLessThanWellFounded, WFMin
<1>2. \A n \in T : ~(n < m)
  BY <1>1 DEF OpToRel
<1> QED
  BY <1>2

\* A line of checks is left at the first that fails, with its error.
LEMMA FirstErrorIsFirst ==
    ASSUME NEW E, NEW checks \in Lines(E), NEW i \in 1 .. Len(checks),
           checks[i].failed, \A j \in 1 .. i - 1 : ~checks[j].failed
    PROVE  FirstError(checks) = checks[i].error
<1> DEFINE I == {j \in 1 .. Len(checks) : checks[j].failed}
<1>1. i \in I /\ \A j \in I : i <= j
  OBVIOUS
<1>2. Min(I) = i
  BY <1>1 DEF Min
<1> QED
  BY <1>1, <1>2 DEF FirstError, SelectInSeq

\* A line of checks none of which fails is passed.
LEMMA NoError ==
    ASSUME NEW checks, \A j \in 1 .. Len(checks) : ~checks[j].failed
    PROVE  FirstError(checks) = Ok
  BY DEF FirstError, SelectInSeq

\* An error comes from some check that fails, with none before it that does.
LEMMA ErrorHasCheck ==
    ASSUME NEW E, NEW checks \in Lines(E), FirstError(checks) # Ok
    PROVE  \E i \in 1 .. Len(checks) :
              /\ checks[i].failed
              /\ checks[i].error = FirstError(checks)
              /\ \A j \in 1 .. i - 1 : ~checks[j].failed
<1> DEFINE I == {j \in 1 .. Len(checks) : checks[j].failed}
<1>1. I # {}
  BY NoError
<1>2. PICK i \in I : \A j \in I : i <= j
  <2> HIDE DEF I
  <2>1. I \subseteq Nat
    BY DEF I
  <2> QED
    BY <1>1, <2>1, LeastNumber
<1>3. \A j \in 1 .. i - 1 : ~checks[j].failed
  BY <1>2
<1>4. FirstError(checks) = checks[i].error
  BY <1>2, <1>3, FirstErrorIsFirst
<1> QED
  BY <1>2, <1>3, <1>4

\* A line of checks is passed exactly if none of them fails.
LEMMA PassedIff ==
    ASSUME NEW E, NEW checks \in Lines(E)
    PROVE  FirstError(checks) = Ok <=> \A i \in 1 .. Len(checks) : ~checks[i].failed
<1>1. ASSUME NEW i \in 1 .. Len(checks), checks[i].failed, FirstError(checks) = Ok
      PROVE FALSE
  <2> DEFINE I == {j \in 1 .. Len(checks) : checks[j].failed}
  <2>1. PICK k \in I : \A j \in I : k <= j
    <3>1. I \subseteq Nat /\ I # {}
      BY <1>1
    <3> HIDE DEF I
    <3> QED
      BY <3>1, LeastNumber
  <2>2. FirstError(checks) = checks[k].error
    BY <2>1, FirstErrorIsFirst
  <2>3. checks[k] \in Checks(E) /\ checks[k].failed
    BY <2>1 DEF Lines
  <2> HIDE DEF I
  <2> QED
    BY <2>2, <2>3, <1>1 DEF Checks
<1> QED
  BY <1>1, NoError

\* A line of checks answers with Ok or one of their errors.
LEMMA FirstErrorType ==
    ASSUME NEW E, Ok \in E, NEW checks \in Lines(E)
    PROVE  FirstError(checks) \in E
<1>1. CASE FirstError(checks) # Ok
  <2>1. PICK i \in 1 .. Len(checks) : checks[i].error = FirstError(checks)
    BY <1>1, ErrorHasCheck
  <2>2. checks[i] \in Checks(E)
    BY DEF Lines
  <2> QED
    BY <2>1, <2>2 DEF Checks
<1> QED
  BY <1>1

\* Two lines of checks, one after the other, are left in the first if that
\* fails, and else answer what the second does.
LEMMA FirstErrorOfConcat ==
    ASSUME NEW E, NEW s \in Lines(E), NEW t \in Lines(E)
    PROVE  /\ s \o t \in Lines(E)
           /\ FirstError(s \o t) = IF FirstError(s) # Ok THEN FirstError(s) ELSE FirstError(t)
<1>0. s \o t \in Lines(E)
  BY DEF Lines
<1>1. CASE FirstError(s) # Ok
  <2>1. PICK i \in 1 .. Len(s) : /\ s[i].failed
                                 /\ s[i].error = FirstError(s)
                                 /\ \A j \in 1 .. i - 1 : ~s[j].failed
    BY <1>1, ErrorHasCheck
  <2>2. i \in 1 .. Len(s \o t) /\ (s \o t)[i] = s[i] /\ \A j \in 1 .. i - 1 : (s \o t)[j] = s[j]
    OBVIOUS
  <2>3. FirstError(s \o t) = (s \o t)[i].error
    BY <1>0, <2>1, <2>2, FirstErrorIsFirst
  <2> QED
    BY <1>0, <1>1, <2>1, <2>2, <2>3
<1>2. CASE FirstError(s) = Ok /\ FirstError(t) # Ok
  <2>1. PICK i \in 1 .. Len(t) : /\ t[i].failed
                                 /\ t[i].error = FirstError(t)
                                 /\ \A j \in 1 .. i - 1 : ~t[j].failed
    BY <1>2, ErrorHasCheck
  <2>2. \A j \in 1 .. Len(s) : ~s[j].failed
    BY <1>2, PassedIff
  <2> DEFINE k == Len(s) + i
  <2>3. k \in 1 .. Len(s \o t) /\ (s \o t)[k] = t[i]
    OBVIOUS
  <2>4. \A j \in 1 .. k - 1 : ~(s \o t)[j].failed
    <3> SUFFICES ASSUME NEW j \in 1 .. k - 1 PROVE ~(s \o t)[j].failed
      OBVIOUS
    <3>1. CASE j <= Len(s)
      BY <3>1, <2>2
    <3>2. CASE j > Len(s)
      <4>1. j - Len(s) \in 1 .. i - 1 /\ (s \o t)[j] = t[j - Len(s)]
        BY <3>2
      <4> QED
        BY <4>1, <2>1
    <3> QED
      BY <3>1, <3>2
  <2>5. FirstError(s \o t) = (s \o t)[k].error
    <3> HIDE DEF k
    <3> QED
    BY <1>0, <2>1, <2>3, <2>4, FirstErrorIsFirst
  <2> QED
    BY <1>0, <1>2, <2>1, <2>3, <2>5
<1>3. CASE FirstError(s) = Ok /\ FirstError(t) = Ok
  <2>1. \A j \in 1 .. Len(s) : ~s[j].failed
    BY <1>3, PassedIff
  <2>2. \A j \in 1 .. Len(t) : ~t[j].failed
    BY <1>3, PassedIff
  <2>3. \A j \in 1 .. Len(s \o t) : ~(s \o t)[j].failed
    BY <2>1, <2>2
  <2> QED
    BY <1>0, <1>3, <2>3, NoError
<1> QED
  BY <1>0, <1>1, <1>2, <1>3


\* A single check.
LEMMA FirstErrorOf1 ==
    ASSUME NEW E, NEW a \in Checks(E)
    PROVE  /\ <<a>> \in Lines(E)
           /\ FirstError(<<a>>) = IF a.failed THEN a.error ELSE Ok
<1> DEFINE s == <<a>>
<1>1. s \in Lines(E) /\ Len(s) = 1 /\ s[1] = a
  BY DEF Lines
<1> HIDE DEF s
<1>2. CASE a.failed
  <2>1. 1 \in 1 .. Len(s) /\ s[1].failed /\ \A j \in 1 .. 1 - 1 : ~s[j].failed
    BY <1>1, <1>2
  <2>2. FirstError(s) = s[1].error
    BY <1>1, <2>1, FirstErrorIsFirst
  <2> QED
    BY <1>1, <1>2, <2>2 DEF s
<1>3. CASE ~a.failed
  <2>1. \A j \in 1 .. Len(s) : ~s[j].failed
    BY <1>1, <1>3
  <2> QED
    BY <1>1, <1>3, <2>1, NoError DEF s
<1> QED
  BY <1>2, <1>3

\* One check before a line of checks.
LEMMA FirstErrorOfCons ==
    ASSUME NEW E, NEW a \in Checks(E), NEW s \in Lines(E)
    PROVE  /\ <<a>> \o s \in Lines(E)
           /\ FirstError(<<a>> \o s) = IF a.failed THEN a.error ELSE FirstError(s)
<1>1. a.failed \in BOOLEAN /\ (a.failed => a.error # Ok)
  BY DEF Checks
<1> QED
  BY <1>1, FirstErrorOf1, FirstErrorOfConcat

\* Two checks, one after the other.
LEMMA FirstErrorOf2 ==
    ASSUME NEW E, NEW a \in Checks(E), NEW b \in Checks(E)
    PROVE  /\ <<a, b>> \in Lines(E)
           /\ FirstError(<<a, b>>) = IF a.failed THEN a.error
                                     ELSE IF b.failed THEN b.error ELSE Ok
<1> DEFINE rest == <<b>>
           all == <<a, b>>
<1>1. all = <<a>> \o rest
  <2>1. all \in Lines(E) /\ <<a>> \o rest \in Lines(E)
    BY DEF Lines
  <2>2. Len(all) = 2 /\ Len(<<a>> \o rest) = 2
    OBVIOUS
  <2>3. \A i \in 1 .. 2 : all[i] = (<<a>> \o rest)[i]
    OBVIOUS
  <2> HIDE DEF all, rest
  <2> QED
    BY <2>1, <2>2, <2>3, SeqEqual DEF Lines
<1>2. /\ rest \in Lines(E)
      /\ FirstError(rest) = IF b.failed THEN b.error ELSE Ok
  BY FirstErrorOf1
<1> HIDE DEF rest
<1>3. /\ all \in Lines(E)
      /\ FirstError(all) = IF a.failed THEN a.error ELSE FirstError(rest)
  <2> HIDE DEF all
  <2> QED
    BY <1>1, <1>2, FirstErrorOfCons
<1> QED
  BY <1>2, <1>3

\* Three checks, one after the other.
LEMMA FirstErrorOf3 ==
    ASSUME NEW E, NEW a \in Checks(E), NEW b \in Checks(E), NEW c \in Checks(E)
    PROVE  /\ <<a, b, c>> \in Lines(E)
           /\ FirstError(<<a, b, c>>) = IF a.failed THEN a.error
                                        ELSE IF b.failed THEN b.error
                                        ELSE IF c.failed THEN c.error ELSE Ok
<1> DEFINE rest == <<b, c>>
           all == <<a, b, c>>
<1>1. all = <<a>> \o rest
  <2>1. all \in Lines(E) /\ <<a>> \o rest \in Lines(E)
    BY DEF Lines
  <2>2. Len(all) = 3 /\ Len(<<a>> \o rest) = 3
    OBVIOUS
  <2>3. \A i \in 1 .. 3 : all[i] = (<<a>> \o rest)[i]
    OBVIOUS
  <2> HIDE DEF all, rest
  <2> QED
    BY <2>1, <2>2, <2>3, SeqEqual DEF Lines
<1>2. /\ rest \in Lines(E)
      /\ FirstError(rest) = IF b.failed THEN b.error ELSE IF c.failed THEN c.error
                            ELSE Ok
  BY FirstErrorOf2
<1> HIDE DEF rest
<1>3. /\ all \in Lines(E)
      /\ FirstError(all) = IF a.failed THEN a.error ELSE FirstError(rest)
  <2> HIDE DEF all
  <2> QED
    BY <1>1, <1>2, FirstErrorOfCons
<1> QED
  BY <1>2, <1>3

\* Four checks, one after the other.
LEMMA FirstErrorOf4 ==
    ASSUME NEW E, NEW a \in Checks(E), NEW b \in Checks(E), NEW c \in Checks(E),
           NEW d \in Checks(E)
    PROVE  /\ <<a, b, c, d>> \in Lines(E)
           /\ FirstError(<<a, b, c, d>>) = IF a.failed THEN a.error
                                           ELSE IF b.failed THEN b.error
                                           ELSE IF c.failed THEN c.error
                                           ELSE IF d.failed THEN d.error ELSE Ok
<1> DEFINE rest == <<b, c, d>>
           all == <<a, b, c, d>>
<1>1. all = <<a>> \o rest
  <2>1. all \in Lines(E) /\ <<a>> \o rest \in Lines(E)
    BY DEF Lines
  <2>2. Len(all) = 4 /\ Len(<<a>> \o rest) = 4
    OBVIOUS
  <2>3. \A i \in 1 .. 4 : all[i] = (<<a>> \o rest)[i]
    OBVIOUS
  <2> HIDE DEF all, rest
  <2> QED
    BY <2>1, <2>2, <2>3, SeqEqual DEF Lines
<1>2. /\ rest \in Lines(E)
      /\ FirstError(rest) = IF b.failed THEN b.error ELSE IF c.failed THEN c.error
                            ELSE IF d.failed THEN d.error ELSE Ok
  BY FirstErrorOf3
<1> HIDE DEF rest
<1>3. /\ all \in Lines(E)
      /\ FirstError(all) = IF a.failed THEN a.error ELSE FirstError(rest)
  <2> HIDE DEF all
  <2> QED
    BY <1>1, <1>2, FirstErrorOfCons
<1> QED
  BY <1>2, <1>3

\* Five checks, one after the other.
LEMMA FirstErrorOf5 ==
    ASSUME NEW E, NEW a \in Checks(E), NEW b \in Checks(E), NEW c \in Checks(E),
           NEW d \in Checks(E), NEW e \in Checks(E)
    PROVE  /\ <<a, b, c, d, e>> \in Lines(E)
           /\ FirstError(<<a, b, c, d, e>>) = IF a.failed THEN a.error
                                              ELSE IF b.failed THEN b.error
                                              ELSE IF c.failed THEN c.error
                                              ELSE IF d.failed THEN d.error
                                              ELSE IF e.failed THEN e.error ELSE Ok
<1> DEFINE rest == <<b, c, d, e>>
           all == <<a, b, c, d, e>>
<1>1. all = <<a>> \o rest
  <2>1. all \in Lines(E) /\ <<a>> \o rest \in Lines(E)
    BY DEF Lines
  <2>2. Len(all) = 5 /\ Len(<<a>> \o rest) = 5
    OBVIOUS
  <2>3. \A i \in 1 .. 5 : all[i] = (<<a>> \o rest)[i]
    OBVIOUS
  <2> HIDE DEF all, rest
  <2> QED
    BY <2>1, <2>2, <2>3, SeqEqual DEF Lines
<1>2. /\ rest \in Lines(E)
      /\ FirstError(rest) = IF b.failed THEN b.error ELSE IF c.failed THEN c.error
                            ELSE IF d.failed THEN d.error
                            ELSE IF e.failed THEN e.error ELSE Ok
  BY FirstErrorOf4
<1> HIDE DEF rest
<1>3. /\ all \in Lines(E)
      /\ FirstError(all) = IF a.failed THEN a.error ELSE FirstError(rest)
  <2> HIDE DEF all
  <2> QED
    BY <1>1, <1>2, FirstErrorOfCons
<1> QED
  BY <1>2, <1>3

-----------------------------------------------------------------------------
(***************************************************************************)
(* What each part of a ceremony answers.                                   *)
(***************************************************************************)

\* Expiry and client data: what is answered before the single-use set, or
\* Ok (registration.rs:548-580, authentication.rs:203-225).
BindingAnswer(rp, ceremony, challenge, cd, now) ==
    IF IsExpired(challenge.created_at, now, rp.max_age) THEN "ChallengeExpired"
    ELSE IF cd.form = "malformed" THEN "InvalidClientData"
    ELSE IF cd.form = "bad_base64" THEN "Base64DecodeError"
    ELSE IF cd.type # ceremony THEN "InvalidClientData"
    ELSE IF cd.challenge # challenge.bytes THEN "ChallengeMismatch"
    ELSE IF cd.origin \notin rp.allowed_origins THEN "OriginMismatch"
    ELSE IF rp.reject_cross_origin /\ cd.cross_origin THEN "CrossOriginNotAllowed"
    ELSE Ok

\* The checks before the single-use set, one line after the other.
LEMMA BindingLine ==
    ASSUME NEW E, Verdicts \subseteq E, NEW rp, NEW ceremony, NEW challenge, NEW cd, NEW now
    PROVE  /\ Binding(rp, ceremony, challenge, cd, now) \in Lines(E)
           /\ FirstError(Binding(rp, ceremony, challenge, cd, now)) =
                BindingAnswer(rp, ceremony, challenge, cd, now)
<1> DEFINE e1 == Check(IsExpired(challenge.created_at, now, rp.max_age), "ChallengeExpired")
           f1 == Check(cd.form = "malformed", "InvalidClientData")
           f2 == Check(cd.form = "bad_base64", "Base64DecodeError")
           v1 == Check(cd.type # ceremony, "InvalidClientData")
           v2 == Check(cd.challenge # challenge.bytes, "ChallengeMismatch")
           v3 == Check(cd.origin \notin rp.allowed_origins, "OriginMismatch")
           v4 == Check(rp.reject_cross_origin /\ cd.cross_origin, "CrossOriginNotAllowed")
<1>1. Binding(rp, ceremony, challenge, cd, now) = <<e1>> \o <<f1, f2>> \o <<v1, v2, v3, v4>>
  BY DEF Binding, ParseClientData, ValidateClientData
<1>2. /\ e1 \in Checks(E) /\ e1.error = "ChallengeExpired"
      /\ e1.failed <=> IsExpired(challenge.created_at, now, rp.max_age)
  BY DEF Checks, Check, Verdicts, WebAuthnErrors, Ok, IsExpired
<1>3. /\ f1 \in Checks(E) /\ f1.error = "InvalidClientData"
      /\ f1.failed <=> cd.form = "malformed"
      /\ f2 \in Checks(E) /\ f2.error = "Base64DecodeError"
      /\ f2.failed <=> cd.form = "bad_base64"
  BY DEF Checks, Check, Verdicts, WebAuthnErrors, Ok
<1>4. /\ v1 \in Checks(E) /\ v1.error = "InvalidClientData"
      /\ v1.failed <=> cd.type # ceremony
      /\ v2 \in Checks(E) /\ v2.error = "ChallengeMismatch"
      /\ v2.failed <=> cd.challenge # challenge.bytes
      /\ v3 \in Checks(E) /\ v3.error = "OriginMismatch"
      /\ v3.failed <=> cd.origin \notin rp.allowed_origins
      /\ v4 \in Checks(E) /\ v4.error = "CrossOriginNotAllowed"
      /\ v4.failed <=> rp.reject_cross_origin /\ cd.cross_origin
  BY DEF Checks, Check, Verdicts, WebAuthnErrors, Ok
<1> HIDE DEF e1, f1, f2, v1, v2, v3, v4
<1>5. /\ <<e1>> \in Lines(E)
      /\ FirstError(<<e1>>) = IF e1.failed THEN e1.error ELSE Ok
  BY <1>2, FirstErrorOf1
<1>6. /\ <<f1, f2>> \in Lines(E)
      /\ FirstError(<<f1, f2>>) = IF f1.failed THEN f1.error ELSE IF f2.failed THEN f2.error ELSE Ok
  BY <1>3, FirstErrorOf2
<1>7. /\ <<v1, v2, v3, v4>> \in Lines(E)
      /\ FirstError(<<v1, v2, v3, v4>>) =
           IF v1.failed THEN v1.error ELSE IF v2.failed THEN v2.error
           ELSE IF v3.failed THEN v3.error ELSE IF v4.failed THEN v4.error ELSE Ok
  BY <1>4, FirstErrorOf4
<1> DEFINE X == <<e1>>
           F == <<f1, f2>>
           V == <<v1, v2, v3, v4>>
<1> HIDE DEF X, F, V
<1>8. /\ X \o F \o V \in Lines(E)
      /\ FirstError(X \o F \o V) =
           IF FirstError(X) # Ok THEN FirstError(X)
           ELSE IF FirstError(F) # Ok THEN FirstError(F) ELSE FirstError(V)
  <2>1. X \in Lines(E) /\ F \in Lines(E) /\ V \in Lines(E)
    BY <1>5, <1>6, <1>7 DEF X, F, V
  <2>2. /\ X \o F \in Lines(E)
        /\ FirstError(X \o F) = IF FirstError(X) # Ok THEN FirstError(X) ELSE FirstError(F)
    BY <2>1, FirstErrorOfConcat
  <2>3. /\ X \o F \o V \in Lines(E)
        /\ FirstError(X \o F \o V) = IF FirstError(X \o F) # Ok THEN FirstError(X \o F) ELSE FirstError(V)
    BY <2>1, <2>2, FirstErrorOfConcat
  <2> QED
    BY <2>2, <2>3
<1> QED
  BY <1>1, <1>2, <1>3, <1>4, <1>5, <1>6, <1>7, <1>8 DEF X, F, V, Ok, BindingAnswer

\* The same, whatever the answers of the parsers are.
LEMMA BindingVerdict ==
    ASSUME NEW rp, NEW ceremony, NEW challenge, NEW cd, NEW now
    PROVE  FirstError(Binding(rp, ceremony, challenge, cd, now)) =
             BindingAnswer(rp, ceremony, challenge, cd, now)
<1> DEFINE E == Verdicts
<1>1. Verdicts \subseteq E
  OBVIOUS
<1> HIDE DEF E
<1> QED
  BY <1>1, BindingLine

\* rpIdHash and user presence, after the parser of the authenticator data.
PresenceAnswer(rp_id, ad) ==
    IF ad.parse # Ok THEN ad.parse
    ELSE IF ad.rp_id # rp_id THEN "RpIdHashMismatch"
    ELSE IF ~ad.user_present THEN "UserNotPresent"
    ELSE Ok

\* The checks of the two flags of a user.
LEMMA PresenceLine ==
    ASSUME NEW E, Verdicts \subseteq E, NEW rp_id, NEW ad, ad.parse \in E
    PROVE  /\ Presence(rp_id, ad) \in Lines(E)
           /\ FirstError(Presence(rp_id, ad)) = PresenceAnswer(rp_id, ad)
<1> DEFINE a == Check(ad.parse # Ok, ad.parse)
           b == Check(ad.rp_id # rp_id, "RpIdHashMismatch")
           c == Check(~ad.user_present, "UserNotPresent")
<1>1. /\ a \in Checks(E) /\ (a.failed <=> ad.parse # Ok) /\ a.error = ad.parse
      /\ b \in Checks(E) /\ (b.failed <=> ad.rp_id # rp_id) /\ b.error = "RpIdHashMismatch"
      /\ c \in Checks(E) /\ (c.failed <=> ~ad.user_present) /\ c.error = "UserNotPresent"
  BY DEF Checks, Check, Verdicts, WebAuthnErrors, Ok
<1>2. Presence(rp_id, ad) = <<a, b, c>>
  BY DEF Presence
<1> HIDE DEF a, b, c
<1> QED
  BY <1>1, <1>2, FirstErrorOf3 DEF PresenceAnswer

\* The same, whatever the answers of the parsers are.
LEMMA PresenceVerdict ==
    ASSUME NEW rp_id, NEW ad
    PROVE  FirstError(Presence(rp_id, ad)) = PresenceAnswer(rp_id, ad)
<1> DEFINE E == Verdicts \union {ad.parse}
<1>1. Verdicts \subseteq E /\ {ad.parse} \subseteq E
  OBVIOUS
<1> HIDE DEF E
<1> QED
  BY <1>1, PresenceLine

\* The two policies on backup eligibility.
BackupPolicyAnswer(rp, ad) ==
    IF rp.reject_backup_eligible /\ ad.backup_eligible THEN "BackupEligibleNotAllowed"
    ELSE IF rp.require_backup_eligible /\ ~ad.backup_eligible
    THEN "BackupEligibilityRequired"
    ELSE Ok

\* The checks of the backup flags.
LEMMA BackupPolicyLine ==
    ASSUME NEW E, Verdicts \subseteq E, NEW rp, NEW ad
    PROVE  /\ BackupPolicy(rp, ad) \in Lines(E)
           /\ FirstError(BackupPolicy(rp, ad)) = BackupPolicyAnswer(rp, ad)
<1> DEFINE a == Check(rp.reject_backup_eligible /\ ad.backup_eligible, "BackupEligibleNotAllowed")
           b == Check(rp.require_backup_eligible /\ ~ad.backup_eligible,
                      "BackupEligibilityRequired")
<1>1. /\ a \in Checks(E) /\ a.error = "BackupEligibleNotAllowed"
      /\ a.failed <=> rp.reject_backup_eligible /\ ad.backup_eligible
      /\ b \in Checks(E) /\ b.error = "BackupEligibilityRequired"
      /\ b.failed <=> rp.require_backup_eligible /\ ~ad.backup_eligible
  BY DEF Checks, Check, Verdicts, WebAuthnErrors, Ok
<1>2. BackupPolicy(rp, ad) = <<a, b>>
  BY DEF BackupPolicy
<1> HIDE DEF a, b
<1> QED
  BY <1>1, <1>2, FirstErrorOf2 DEF BackupPolicyAnswer

\* The same, whatever the answers of the parsers are.
LEMMA BackupPolicyVerdict ==
    ASSUME NEW rp, NEW ad
    PROVE  FirstError(BackupPolicy(rp, ad)) = BackupPolicyAnswer(rp, ad)
<1> DEFINE E == Verdicts
<1>1. Verdicts \subseteq E
  OBVIOUS
<1> HIDE DEF E
<1> QED
  BY <1>1, BackupPolicyLine

\* Registration after the single-use set.
RegistrationBodyAnswer(rp, response) ==
    LET ad == response.auth_data
    IN  IF response.parse # Ok THEN response.parse
        ELSE IF PresenceAnswer(rp.id, ad) # Ok THEN PresenceAnswer(rp.id, ad)
        ELSE IF BackupPolicyAnswer(rp, ad) # Ok THEN BackupPolicyAnswer(rp, ad)
        ELSE IF ad.attested = {} THEN "InvalidAuthenticatorData"
        ELSE IF \E cred \in ad.attested : Compromised(rp, cred.aaguid)
        THEN "AuthenticatorStatusUntrusted"
        ELSE IF \E cred \in ad.attested : ~Allowed(rp, CoseAlg(cred.public_key))
        THEN "UnsupportedAlgorithm"
        ELSE IF \E cred \in ad.attested : ~Convertible(cred.public_key)
        THEN "UnsupportedAlgorithm"
        ELSE IF response.attestation # Ok THEN response.attestation
        ELSE Ok

\* The checks of a registration after the single-use set.
LEMMA RegistrationBodyLine ==
    ASSUME NEW E, Verdicts \subseteq E, NEW rp, NEW response,
           response.parse \in E, response.attestation \in E, response.auth_data.parse \in E
    PROVE  /\ RegistrationBody(rp, response) \in Lines(E)
           /\ FirstError(RegistrationBody(rp, response)) = RegistrationBodyAnswer(rp, response)
<1> DEFINE ad == response.auth_data
           compromised == \E cred \in ad.attested : Compromised(rp, cred.aaguid)
           disallowed == \E cred \in ad.attested : ~Allowed(rp, CoseAlg(cred.public_key))
           inconvertible == \E cred \in ad.attested : ~Convertible(cred.public_key)
           p == Check(response.parse # Ok, response.parse)
           a == Check(ad.attested = {}, "InvalidAuthenticatorData")
           b == Check(compromised, "AuthenticatorStatusUntrusted")
           c == Check(disallowed, "UnsupportedAlgorithm")
           d == Check(inconvertible, "UnsupportedAlgorithm")
           e == Check(response.attestation # Ok, response.attestation)
           P == Presence(rp.id, ad)
           B == BackupPolicy(rp, ad)
           A == <<a, b, c, d, e>>
<1>1. RegistrationBody(rp, response) = <<p>> \o P \o B \o A
  BY DEF RegistrationBody
<1>2. p \in Checks(E) /\ (p.failed <=> response.parse # Ok) /\ p.error = response.parse
  BY DEF Checks, Check, Verdicts, WebAuthnErrors, Ok
<1>3. /\ a \in Checks(E) /\ (a.failed <=> ad.attested = {}) /\ a.error = "InvalidAuthenticatorData"
      /\ e \in Checks(E) /\ (e.failed <=> response.attestation # Ok)
      /\ e.error = response.attestation
  BY DEF Checks, Check, Verdicts, WebAuthnErrors, Ok
<1>4. /\ b \in Checks(E) /\ (b.failed <=> compromised) /\ b.error = "AuthenticatorStatusUntrusted"
      /\ c \in Checks(E) /\ (c.failed <=> disallowed) /\ c.error = "UnsupportedAlgorithm"
      /\ d \in Checks(E) /\ (d.failed <=> inconvertible) /\ d.error = "UnsupportedAlgorithm"
  <2>1. compromised \in BOOLEAN /\ disallowed \in BOOLEAN /\ inconvertible \in BOOLEAN
    OBVIOUS
  <2> HIDE DEF compromised, disallowed, inconvertible
  <2> QED
    BY <2>1 DEF Checks, Check, Verdicts, WebAuthnErrors, Ok
<1>5. /\ P \in Lines(E) /\ FirstError(P) = PresenceAnswer(rp.id, ad)
      /\ B \in Lines(E) /\ FirstError(B) = BackupPolicyAnswer(rp, ad)
  BY PresenceLine, BackupPolicyLine
<1> HIDE DEF a, b, c, d, e, p
<1>6. /\ A \in Lines(E)
      /\ FirstError(A) = IF a.failed THEN a.error ELSE IF b.failed THEN b.error
                         ELSE IF c.failed THEN c.error ELSE IF d.failed THEN d.error
                         ELSE IF e.failed THEN e.error ELSE Ok
  BY <1>3, <1>4, FirstErrorOf5
<1> HIDE DEF P, B, A
<1>7. /\ <<p>> \o P \in Lines(E)
      /\ FirstError(<<p>> \o P) = IF p.failed THEN p.error ELSE FirstError(P)
  BY <1>2, <1>5, FirstErrorOfCons
<1>8. /\ <<p>> \o P \o B \in Lines(E)
      /\ FirstError(<<p>> \o P \o B) =
           IF FirstError(<<p>> \o P) # Ok THEN FirstError(<<p>> \o P) ELSE FirstError(B)
  BY <1>5, <1>7, FirstErrorOfConcat
<1>9. /\ <<p>> \o P \o B \o A \in Lines(E)
      /\ FirstError(<<p>> \o P \o B \o A) =
           IF FirstError(<<p>> \o P \o B) # Ok THEN FirstError(<<p>> \o P \o B) ELSE FirstError(A)
  BY <1>6, <1>8, FirstErrorOfConcat
<1>10. FirstError(RegistrationBody(rp, response)) =
         IF response.parse # Ok THEN response.parse
         ELSE IF FirstError(P) # Ok THEN FirstError(P)
         ELSE IF FirstError(B) # Ok THEN FirstError(B)
         ELSE IF ad.attested = {} THEN "InvalidAuthenticatorData"
         ELSE IF compromised THEN "AuthenticatorStatusUntrusted"
         ELSE IF disallowed THEN "UnsupportedAlgorithm"
         ELSE IF inconvertible THEN "UnsupportedAlgorithm"
         ELSE IF response.attestation # Ok THEN response.attestation
         ELSE Ok
  <2> HIDE DEF compromised, disallowed, inconvertible, ad
  <2> QED
    BY <1>1, <1>2, <1>3, <1>4, <1>6, <1>7, <1>8, <1>9
<1> QED
  BY <1>1, <1>9, <1>5, <1>10 DEF RegistrationBodyAnswer

\* The same, whatever the answers of the parsers are.
LEMMA RegistrationBodyVerdict ==
    ASSUME NEW rp, NEW response
    PROVE  FirstError(RegistrationBody(rp, response)) = RegistrationBodyAnswer(rp, response)
<1> DEFINE E == Verdicts \union {response.parse, response.attestation, response.auth_data.parse}
<1>1. /\ Verdicts \subseteq E
      /\ {response.parse, response.attestation, response.auth_data.parse} \subseteq E
  OBVIOUS
<1> HIDE DEF E
<1> QED
  BY <1>1, RegistrationBodyLine

\* Authentication after the single-use set.
AuthenticationBodyAnswer(rp, stored, response) ==
    LET ad == response.auth_data
    IN  IF PresenceAnswer(stored.rp_id, ad) # Ok THEN PresenceAnswer(stored.rp_id, ad)
        ELSE IF rp.require_user_verification /\ ~ad.user_verified THEN "UserNotVerified"
        ELSE IF BackupPolicyAnswer(rp, ad) # Ok THEN BackupPolicyAnswer(rp, ad)
        ELSE IF ad.backup_eligible # stored.backup_eligible
        THEN "BackupEligibilityChanged"
        ELSE IF ~VerifySignature(stored, response) THEN "SignatureVerificationFailed"
        ELSE IF SignCountInvalid(stored.sign_count, ad.sign_count)
        THEN "SignCountInvalid"
        ELSE Ok

\* The checks of an authentication after the single-use set.
LEMMA AuthenticationBodyLine ==
    ASSUME NEW E, Verdicts \subseteq E, NEW rp, NEW stored, NEW response,
           response.auth_data.parse \in E
    PROVE  /\ AuthenticationBody(rp, stored, response) \in Lines(E)
           /\ FirstError(AuthenticationBody(rp, stored, response)) =
                AuthenticationBodyAnswer(rp, stored, response)
<1> DEFINE ad == response.auth_data
           u == Check(rp.require_user_verification /\ ~ad.user_verified, "UserNotVerified")
           a == Check(ad.backup_eligible # stored.backup_eligible, "BackupEligibilityChanged")
           b == Check(~VerifySignature(stored, response), "SignatureVerificationFailed")
           c == Check(SignCountInvalid(stored.sign_count, ad.sign_count), "SignCountInvalid")
           P == Presence(stored.rp_id, ad)
           B == BackupPolicy(rp, ad)
           A == <<a, b, c>>
<1>1. AuthenticationBody(rp, stored, response) = P \o <<u>> \o B \o A
  BY DEF AuthenticationBody
<1>2. /\ u \in Checks(E) /\ u.error = "UserNotVerified"
      /\ u.failed <=> rp.require_user_verification /\ ~ad.user_verified
  BY DEF Checks, Check, Verdicts, WebAuthnErrors, Ok
<1>3. /\ a \in Checks(E) /\ a.error = "BackupEligibilityChanged"
      /\ a.failed <=> ad.backup_eligible # stored.backup_eligible
  BY DEF Checks, Check, Verdicts, WebAuthnErrors, Ok
<1>4. /\ b \in Checks(E) /\ b.error = "SignatureVerificationFailed"
      /\ b.failed <=> ~VerifySignature(stored, response)
  BY DEF Checks, Check, Verdicts, WebAuthnErrors, Ok, VerifySignature
<1>5. /\ c \in Checks(E) /\ c.error = "SignCountInvalid"
      /\ c.failed <=> SignCountInvalid(stored.sign_count, ad.sign_count)
  BY DEF Checks, Check, Verdicts, WebAuthnErrors, Ok, SignCountInvalid
<1>6. /\ P \in Lines(E) /\ FirstError(P) = PresenceAnswer(stored.rp_id, ad)
      /\ B \in Lines(E) /\ FirstError(B) = BackupPolicyAnswer(rp, ad)
  BY PresenceLine, BackupPolicyLine
<1> HIDE DEF a, b, c, u
<1>7. /\ A \in Lines(E)
      /\ FirstError(A) = IF a.failed THEN a.error ELSE IF b.failed THEN b.error
                         ELSE IF c.failed THEN c.error ELSE Ok
  BY <1>3, <1>4, <1>5, FirstErrorOf3
<1>8. <<u>> \in Lines(E) /\ FirstError(<<u>>) = IF u.failed THEN u.error ELSE Ok
  BY <1>2, FirstErrorOf1
<1> DEFINE U == <<u>>
<1> HIDE DEF P, B, A, U
<1>9. /\ P \o U \in Lines(E)
      /\ FirstError(P \o U) = IF FirstError(P) # Ok THEN FirstError(P) ELSE FirstError(U)
  BY <1>6, <1>8, FirstErrorOfConcat DEF U
<1>10. /\ P \o U \o B \in Lines(E)
       /\ FirstError(P \o U \o B) =
            IF FirstError(P \o U) # Ok THEN FirstError(P \o U) ELSE FirstError(B)
  BY <1>6, <1>9, FirstErrorOfConcat
<1>11. /\ P \o U \o B \o A \in Lines(E)
       /\ FirstError(P \o U \o B \o A) =
            IF FirstError(P \o U \o B) # Ok THEN FirstError(P \o U \o B) ELSE FirstError(A)
  BY <1>7, <1>10, FirstErrorOfConcat
<1>12. FirstError(U) = IF u.failed THEN u.error ELSE Ok
  BY <1>8 DEF U
<1>13. AuthenticationBody(rp, stored, response) = P \o U \o B \o A
  BY <1>1 DEF U
<1>14. FirstError(AuthenticationBody(rp, stored, response)) =
         IF FirstError(P) # Ok THEN FirstError(P)
         ELSE IF rp.require_user_verification /\ ~ad.user_verified THEN "UserNotVerified"
         ELSE IF FirstError(B) # Ok THEN FirstError(B)
         ELSE IF ad.backup_eligible # stored.backup_eligible THEN "BackupEligibilityChanged"
         ELSE IF ~VerifySignature(stored, response) THEN "SignatureVerificationFailed"
         ELSE IF SignCountInvalid(stored.sign_count, ad.sign_count) THEN "SignCountInvalid"
         ELSE Ok
  <2> HIDE DEF ad
  <2> QED
    BY <1>2, <1>3, <1>4, <1>5, <1>7, <1>9, <1>10, <1>11, <1>12, <1>13 DEF Ok
<1> QED
  BY <1>11, <1>13, <1>6, <1>14 DEF AuthenticationBodyAnswer

\* The same, whatever the answers of the parsers are.
LEMMA AuthenticationBodyVerdict ==
    ASSUME NEW rp, NEW stored, NEW response
    PROVE  FirstError(AuthenticationBody(rp, stored, response)) =
             AuthenticationBodyAnswer(rp, stored, response)
<1> DEFINE E == Verdicts \union {response.auth_data.parse}
<1>1. Verdicts \subseteq E /\ {response.auth_data.parse} \subseteq E
  OBVIOUS
<1> HIDE DEF E
<1> QED
  BY <1>1, AuthenticationBodyLine

-----------------------------------------------------------------------------
(***************************************************************************)
(* What the ceremonies answer.                                             *)
(***************************************************************************)

\* A registration is answered by the binding checks, and by the checks of the
\* response if it passes those.
LEMMA RegistrationVerdict ==
    ASSUME NEW rp, NEW challenge, NEW response, NEW now
    PROVE  LET binding == BindingAnswer(rp, "webauthn.create", challenge,
                                        response.client_data, now)
           IN  VerifyRegistration(rp, challenge, response, now) =
                 IF binding # Ok THEN binding ELSE RegistrationBodyAnswer(rp, response)
<1> DEFINE B == Binding(rp, "webauthn.create", challenge, response.client_data, now)
           R == RegistrationBody(rp, response)
           E == Verdicts \union {response.parse, response.attestation, response.auth_data.parse}
<1>1. /\ Verdicts \subseteq E
      /\ {response.parse, response.attestation, response.auth_data.parse} \subseteq E
  OBVIOUS
<1> HIDE DEF E
<1>2. /\ B \in Lines(E)
      /\ FirstError(B) = BindingAnswer(rp, "webauthn.create", challenge,
                                       response.client_data, now)
  BY <1>1, BindingLine
<1>3. R \in Lines(E) /\ FirstError(R) = RegistrationBodyAnswer(rp, response)
  BY <1>1, RegistrationBodyLine
<1>4. VerifyRegistration(rp, challenge, response, now) = FirstError(B \o R)
  BY DEF VerifyRegistration
<1> HIDE DEF B, R
<1> QED
  BY <1>2, <1>3, <1>4, FirstErrorOfConcat

\* The same for an assertion.
LEMMA AuthenticationVerdict ==
    ASSUME NEW rp, NEW stored, NEW challenge, NEW response, NEW now
    PROVE  LET binding == BindingAnswer(rp, "webauthn.get", challenge, response.client_data, now)
           IN  VerifyAuthentication(rp, stored, challenge, response, now) =
                 IF binding # Ok THEN binding ELSE AuthenticationBodyAnswer(rp, stored, response)
<1> DEFINE B == Binding(rp, "webauthn.get", challenge, response.client_data, now)
           A == AuthenticationBody(rp, stored, response)
           E == Verdicts \union {response.auth_data.parse}
<1>1. Verdicts \subseteq E /\ response.auth_data.parse \in E
  OBVIOUS
<1> HIDE DEF E
<1>2. /\ B \in Lines(E)
      /\ FirstError(B) = BindingAnswer(rp, "webauthn.get", challenge, response.client_data, now)
  BY <1>1, BindingLine
<1>3. /\ A \in Lines(E)
      /\ FirstError(A) = AuthenticationBodyAnswer(rp, stored, response)
  BY <1>1, AuthenticationBodyLine
<1>4. VerifyAuthentication(rp, stored, challenge, response, now) = FirstError(B \o A)
  BY DEF VerifyAuthentication
<1> HIDE DEF B, A
<1> QED
  BY <1>2, <1>3, <1>4, FirstErrorOfConcat

\* What an accepted registration has shown, of all that is checked: its
\* client data names this ceremony, this challenge and an allowed origin; and
\* it has a credential, of an allowed algorithm and an acceptable model.
LEMMA RegistrationShows ==
    ASSUME NEW rp, NEW challenge, NEW response, NEW now,
           VerifyRegistration(rp, challenge, response, now) = Ok
    PROVE  /\ ~IsExpired(challenge.created_at, now, rp.max_age)
           /\ response.client_data.type = "webauthn.create"
           /\ response.client_data.challenge = challenge.bytes
           /\ response.client_data.origin \in rp.allowed_origins
           /\ response.attestation = Ok
           /\ response.auth_data.attested # {}
           /\ \A cred \in response.auth_data.attested :
                 Allowed(rp, CoseAlg(cred.public_key)) /\ ~Compromised(rp, cred.aaguid)
<1> DEFINE b == BindingAnswer(rp, "webauthn.create", challenge, response.client_data, now)
           a == RegistrationBodyAnswer(rp, response)
<1>1. b = Ok /\ a = Ok
  BY RegistrationVerdict
<1>2. /\ ~IsExpired(challenge.created_at, now, rp.max_age)
      /\ response.client_data.type = "webauthn.create"
      /\ response.client_data.challenge = challenge.bytes
      /\ response.client_data.origin \in rp.allowed_origins
  BY <1>1 DEF Ok, BindingAnswer
<1>3. /\ response.attestation = Ok
      /\ response.auth_data.attested # {}
      /\ ~\E cred \in response.auth_data.attested : Compromised(rp, cred.aaguid)
      /\ ~\E cred \in response.auth_data.attested : ~Allowed(rp, CoseAlg(cred.public_key))
  BY <1>1 DEF Ok, RegistrationBodyAnswer
<1> QED
  BY <1>2, <1>3

\* What an accepted assertion has shown: besides the binding, a signature by
\* the stored key and a count that has advanced or is not kept.
LEMMA AuthenticationShows ==
    ASSUME NEW rp, NEW stored, NEW challenge, NEW response, NEW now,
           VerifyAuthentication(rp, stored, challenge, response, now) = Ok
    PROVE  /\ ~IsExpired(challenge.created_at, now, rp.max_age)
           /\ response.client_data.type = "webauthn.get"
           /\ response.client_data.challenge = challenge.bytes
           /\ response.client_data.origin \in rp.allowed_origins
           /\ VerifySignature(stored, response)
           /\ ~SignCountInvalid(stored.sign_count, response.auth_data.sign_count)
<1> DEFINE b == BindingAnswer(rp, "webauthn.get", challenge, response.client_data, now)
           a == AuthenticationBodyAnswer(rp, stored, response)
<1>1. b = Ok /\ a = Ok
  BY AuthenticationVerdict
<1>2. /\ ~IsExpired(challenge.created_at, now, rp.max_age)
      /\ response.client_data.type = "webauthn.get"
      /\ response.client_data.challenge = challenge.bytes
      /\ response.client_data.origin \in rp.allowed_origins
  BY <1>1 DEF Ok, BindingAnswer
<1>3. /\ VerifySignature(stored, response)
      /\ ~SignCountInvalid(stored.sign_count, response.auth_data.sign_count)
  BY <1>1 DEF Ok, AuthenticationBodyAnswer
<1> QED
  BY <1>2, <1>3
=============================================================================
