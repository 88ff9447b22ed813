------------------------ MODULE RelyingParty_proofs -------------------------
(***************************************************************************)
(* Theorems of module RelyingParty, for any number of calls, handles,      *)
(* cells, challenges and submissions: at most one call per challenge gets  *)
(* past the single-use set, only such a call spends a challenge, no call   *)
(* is told of a replay that was none, and the threads, the locks and the   *)
(* sets implement SingleUse.                                               *)
(*                                                                         *)
(* The invariant is the conjunction of TypeOK, LockProtectsSet,            *)
(* OnlyClaimsSpend and AtMostOneClaim, with ReplayErrorIsTruthful on top.  *)
(* AtMostOneClaim alone is not inductive: the call that inserts must know  *)
(* that no other call has claimed its bytes.  LockProtectsSet says that    *)
(* the bytes are not in the set and that every claimed challenge is, which *)
(* together rule it out; the lock is what keeps the first of these true    *)
(* while another call inserts.  ReplayErrorIsTruthful and the refinement   *)
(* need CallVerdicts: no check of a ceremony but the set answers with      *)
(* ChallengePreviouslyUsed, or with the value of a call in progress.  For  *)
(* the refinement, the Claimants of a token have at most one member, its   *)
(* Winner, and a step of a call is a step of SingleUse or a stutter.       *)
(***************************************************************************)
EXTENDS RelyingParty, Ceremony_proofs

IInv == TypeOK /\ LockProtectsSet /\ OnlyClaimsSpend /\ AtMostOneClaim

\* Neither the binding checks nor the verification of a response answers with
\* the verdict of a call in progress, or that the challenge was used.
LEMMA CallVerdicts ==
    /\ \A c \in Calls : \A challenge :
          LET s == args[c].submission
          IN  FirstError(Binding(Config, s.ceremony, challenge, s.response.client_data, clock))
                \in ResponseVerdicts
    /\ \A s \in Submissions : BodyVerdict(s) \in ResponseVerdicts
<1>1. ASSUME NEW c \in Calls, NEW challenge
      PROVE  LET s == args[c].submission
             IN  FirstError(Binding(Config, s.ceremony, challenge, s.response.client_data, clock))
                   \in ResponseVerdicts
  <2> DEFINE s == args[c].submission
             e == FirstError(Binding(Config, s.ceremony, challenge, s.response.client_data, clock))
  <2>1. e \in {"ChallengeExpired", "InvalidClientData", "Base64DecodeError",
               "ChallengeMismatch", "OriginMismatch", "CrossOriginNotAllowed", Ok}
    BY BindingVerdict DEF BindingAnswer
  <2> HIDE DEF e
  <2>2. e \in ResponseVerdicts
    BY <2>1 DEF ResponseVerdicts, WebAuthnErrors, Ok
  <2> QED
    BY <2>2 DEF e
<1>2. ASSUME NEW s \in Submissions PROVE BodyVerdict(s) \in ResponseVerdicts
  <2> DEFINE r == s.response
             ad == r.auth_data
  <2>0. ad.parse \in ResponseVerdicts
    BY SubmissionsAssumption
  <2>1. ASSUME NEW rp_id PROVE PresenceAnswer(rp_id, ad) \in ResponseVerdicts
    <3>1. PresenceAnswer(rp_id, ad) \in {ad.parse, "RpIdHashMismatch", "UserNotPresent", Ok}
      BY DEF PresenceAnswer
    <3> QED
      BY <2>0, <3>1 DEF ResponseVerdicts, WebAuthnErrors, Ok
  <2>2. BackupPolicyAnswer(Config, ad) \in ResponseVerdicts
    <3>1. BackupPolicyAnswer(Config, ad) \in
              {"BackupEligibleNotAllowed", "BackupEligibilityRequired", Ok}
      BY DEF BackupPolicyAnswer
    <3> QED
      BY <3>1 DEF ResponseVerdicts, WebAuthnErrors, Ok
  <2>3. CASE s.ceremony = "webauthn.create"
    <3>1. r.parse \in ResponseVerdicts /\ r.attestation \in ResponseVerdicts
      BY <2>3, SubmissionsAssumption
    <3>2. RegistrationBodyAnswer(Config, r) \in
              {r.parse, PresenceAnswer(Config.id, ad), BackupPolicyAnswer(Config, ad),
               "InvalidAuthenticatorData", "AuthenticatorStatusUntrusted",
               "UnsupportedAlgorithm", r.attestation, Ok}
      BY DEF RegistrationBodyAnswer
    <3>3. RegistrationBodyAnswer(Config, r) \in ResponseVerdicts
      BY <2>1, <2>2, <3>1, <3>2 DEF ResponseVerdicts, WebAuthnErrors, Ok
    <3> QED
      BY <2>3, <3>3, RegistrationBodyVerdict DEF BodyVerdict
  <2>4. CASE s.ceremony # "webauthn.create"
    <3>1. AuthenticationBodyAnswer(Config, s.stored, r) \in
              {PresenceAnswer(s.stored.rp_id, ad), BackupPolicyAnswer(Config, ad),
               "UserNotVerified", "BackupEligibilityChanged", "SignatureVerificationFailed",
               "SignCountInvalid", Ok}
      BY DEF AuthenticationBodyAnswer
    <3>2. AuthenticationBodyAnswer(Config, s.stored, r) \in ResponseVerdicts
      BY <2>1, <2>2, <3>1 DEF ResponseVerdicts, WebAuthnErrors, Ok
    <3> QED
      BY <2>4, <3>2, AuthenticationBodyVerdict DEF BodyVerdict
  <2> QED
    BY <2>3, <2>4
<1> QED
  BY <1>1, <1>2

\* A call leaves the binding checks with one of their errors, or goes on.
LEMMA BindingStep ==
    ASSUME NEW c \in Calls, CheckBinding(c)
    PROVE  /\ pc[c] = "binding"
           /\ \/ \E e \in ResponseVerdicts \ {Ok} : Return(c, "refused", e)
              \/ /\ Goto(c, IF args[c].cell = NoCell THEN "body" ELSE "lock")
                 /\ UNCHANGED verdict
           /\ UNCHANGED <<clock, created_at, handle, used_challenges, mutex, args>>
<1> DEFINE s == args[c].submission
           challenge == [bytes |-> args[c].bytes, created_at |-> created_at[args[c].bytes]]
           e == FirstError(Binding(Config, s.ceremony, challenge, s.response.client_data, clock))
<1>1. e \in ResponseVerdicts
  BY CallVerdicts
<1> HIDE DEF e
<1> QED
  BY <1>1 DEF CheckBinding, e

\* The verification of the response always returns.
LEMMA BodyStep ==
    ASSUME TypeOK, NEW c \in Calls, CheckBody(c)
    PROVE  /\ pc[c] = "body"
           /\ \E e \in ResponseVerdicts : Return(c, "returned", e)
           /\ UNCHANGED <<clock, created_at, handle, used_challenges, mutex, args>>
<1>1. args[c].submission \in Submissions
  BY DEF CheckBody, TypeOK, Arguments
<1> QED
  BY <1>1, CallVerdicts DEF CheckBody

\* Initially nobody is inside a call and every set is empty.
LEMMA InitIInv == Init => IInv
<1> SUFFICES ASSUME Init PROVE IInv
  OBVIOUS
<1>1. TypeOK
  BY SentinelAssumption DEF Init, TypeOK, Locations, Arguments
<1>2. LockProtectsSet /\ OnlyClaimsSpend /\ AtMostOneClaim
  BY DEF Init, LockProtectsSet, OnlyClaimsSpend, AtMostOneClaim, Claimed
<1> QED
  BY <1>1, <1>2 DEF IInv

\* No step of the environment or of a call takes a variable out of its type.
LEMMA NextTypeOK == TypeOK /\ [Next]_vars => TypeOK'
<1> SUFFICES ASSUME TypeOK, [Next]_vars PROVE TypeOK'
  OBVIOUS
<1>0. Pending \notin ResponseVerdicts \union {"ChallengePreviouslyUsed"}
  BY SentinelAssumption DEF ResponseVerdicts, WebAuthnErrors
<1>v. ResponseVerdicts \union {"ChallengePreviouslyUsed"} \subseteq WebAuthnErrors \union {Ok}
  BY DEF ResponseVerdicts, WebAuthnErrors
<1> USE DEF TypeOK, Locations, Goto, Return
<1>1. ASSUME NEW t \in 0 .. MaxClock, SetClock(t) PROVE TypeOK'
  BY <1>1 DEF SetClock
<1>2. ASSUME NEW b \in Bytes, IssueChallenge(b) PROVE TypeOK'
  BY <1>2 DEF IssueChallenge
<1>3. ASSUME NEW h \in Handles, NEW copy \in Handles, Clone(h, copy) PROVE TypeOK'
  BY <1>3 DEF Clone
<1>4. ASSUME NEW h \in Handles, NEW enforce \in BOOLEAN,
             EnforceSingleUseChallenges(h, enforce)
      PROVE TypeOK'
  BY <1>4 DEF EnforceSingleUseChallenges
<1>5. ASSUME NEW c \in Calls, NEW h \in Handles, NEW b \in Bytes, NEW s \in Submissions,
             Invoke(c, h, b, s)
      PROVE TypeOK'
  BY <1>5, SentinelAssumption DEF Invoke, Arguments
<1>6. ASSUME NEW c \in Calls, CheckBinding(c) PROVE TypeOK'
  BY <1>0, <1>v, <1>6, BindingStep
<1>7. ASSUME NEW c \in Calls, Lock(c) PROVE TypeOK'
  BY <1>7 DEF Lock
<1>8. ASSUME NEW c \in Calls, Lookup(c) PROVE TypeOK'
  BY <1>0, <1>8 DEF Lookup, WebAuthnErrors
<1>9. ASSUME NEW c \in Calls, Insert(c) PROVE TypeOK'
  BY <1>9 DEF Insert, Arguments
<1>10. ASSUME NEW c \in Calls, CheckBody(c) PROVE TypeOK'
  BY <1>0, <1>v, <1>10, BodyStep
<1>11. CASE UNCHANGED vars
  BY <1>11 DEF vars
<1> QED
  BY <1>1, <1>2, <1>3, <1>4, <1>5, <1>6, <1>7, <1>8, <1>9, <1>10, <1>11 DEF Next, Step

\* Every step keeps the invariant: the steps that matter are the replacement
\* of a cell, which must be one that no call refers to, and the insertion,
\* which must be by the holder of the lock.
LEMMA NextIInv == IInv /\ [Next]_vars => IInv'
<1> SUFFICES ASSUME IInv, [Next]_vars PROVE IInv'
  OBVIOUS
<1>0. TypeOK'
  BY NextTypeOK DEF IInv
<1> USE DEF IInv, TypeOK, Locations, Goto, Return, Claimed, Presents, Arguments,
            LockProtectsSet, OnlyClaimsSpend, AtMostOneClaim
<1>1. ASSUME NEW t \in 0 .. MaxClock, SetClock(t) PROVE IInv'
  BY <1>0, <1>1 DEF SetClock
<1>2. ASSUME NEW b \in Bytes, IssueChallenge(b) PROVE IInv'
  BY <1>0, <1>2 DEF IssueChallenge
<1>3. ASSUME NEW h \in Handles, NEW copy \in Handles, Clone(h, copy) PROVE IInv'
  BY <1>0, <1>3 DEF Clone
<1>4. ASSUME NEW h \in Handles, NEW enforce \in BOOLEAN,
             EnforceSingleUseChallenges(h, enforce)
      PROVE IInv'
  <2>1. PICK k \in Cells \union {NoCell} :
            /\ IF enforce THEN k \in Cells /\ Unreferenced(k) ELSE k = NoCell
            /\ used_challenges'
                 = [j \in Cells |-> IF j = k THEN {} ELSE used_challenges[j]]
    BY <1>4 DEF EnforceSingleUseChallenges
  <2>2. UNCHANGED <<pc, args, mutex>>
    BY <1>4 DEF EnforceSingleUseChallenges
  <2>3. \A c \in Calls : pc[c] # "idle" /\ args[c].cell \in Cells =>
            used_challenges'[args[c].cell] = used_challenges[args[c].cell]
    BY <2>1, SentinelAssumption DEF Unreferenced
  <2>4. LockProtectsSet'
    BY <2>2, <2>3
  <2>5. OnlyClaimsSpend'
    BY <2>1, <2>2
  <2>6. AtMostOneClaim'
    BY <2>2
  <2> QED
    BY <1>0, <2>4, <2>5, <2>6
<1>5. ASSUME NEW c \in Calls, NEW h \in Handles, NEW b \in Bytes, NEW s \in Submissions,
             Invoke(c, h, b, s)
      PROVE IInv'
  BY <1>0, <1>5 DEF Invoke
<1>6. ASSUME NEW c \in Calls, CheckBinding(c) PROVE IInv'
  <2>1. /\ pc[c] = "binding"
        /\ UNCHANGED <<used_challenges, mutex, args>>
    BY <1>6 DEF CheckBinding
  <2>2. \/ pc' = [pc EXCEPT ![c] = "refused"]
        \/ pc' = [pc EXCEPT ![c] = "body"] /\ args[c].cell \notin Cells
        \/ pc' = [pc EXCEPT ![c] = "lock"] /\ args[c].cell \in Cells
    BY <1>6, <2>1, SentinelAssumption DEF CheckBinding
  <2>3. LockProtectsSet'
    BY <2>1, <2>2
  <2>4. OnlyClaimsSpend'
    BY <2>1, <2>2
  <2>5. AtMostOneClaim'
    BY <2>1, <2>2
  <2> QED
    BY <1>0, <2>3, <2>4, <2>5
<1>7. ASSUME NEW c \in Calls, Lock(c) PROVE IInv'
  BY <1>0, <1>7, SentinelAssumption DEF Lock
<1>8. ASSUME NEW c \in Calls, Lookup(c) PROVE IInv'
  <2>1. /\ pc[c] = "lookup"
        /\ mutex[args[c].cell] = c
        /\ UNCHANGED <<used_challenges, args>>
    BY <1>8 DEF Lookup
  <2>2. \/ /\ pc' = [pc EXCEPT ![c] = "refused"]
           /\ mutex' = [mutex EXCEPT ![args[c].cell] = Free]
        \/ /\ args[c].bytes \notin used_challenges[args[c].cell]
           /\ pc' = [pc EXCEPT ![c] = "insert"]
           /\ UNCHANGED mutex
    BY <1>8 DEF Lookup
  <2>3. LockProtectsSet'
    BY <2>1, <2>2
  <2>4. OnlyClaimsSpend' /\ AtMostOneClaim'
    BY <2>1, <2>2
  <2> QED
    BY <1>0, <2>3, <2>4
<1>9. ASSUME NEW c \in Calls, Insert(c) PROVE IInv'
  <2>1. /\ pc[c] = "insert"
        /\ pc' = [pc EXCEPT ![c] = "body"]
        /\ mutex' = [mutex EXCEPT ![args[c].cell] = Free]
        /\ used_challenges' = [used_challenges EXCEPT ![args[c].cell] = @ \union {args[c].bytes}]
        /\ UNCHANGED args
    BY <1>9 DEF Insert
  <2>2. \A d \in Calls : pc[d] \in {"lookup", "insert"} /\ args[d].cell = args[c].cell => d = c
    BY <2>1
  <2>3. \A d \in Calls : Claimed(d) => ~Presents(d, args[c].cell, args[c].bytes)
    BY <2>1
  <2>4. LockProtectsSet'
    BY <2>1, <2>2
  <2>5. OnlyClaimsSpend'
    BY <2>1
  <2>6. AtMostOneClaim'
    BY <2>1, <2>3
  <2> QED
    BY <1>0, <2>4, <2>5, <2>6
<1>10. ASSUME NEW c \in Calls, CheckBody(c) PROVE IInv'
  BY <1>0, <1>10 DEF CheckBody
<1>11. CASE UNCHANGED vars
  BY <1>0, <1>11 DEF vars
<1> QED
  BY <1>1, <1>2, <1>3, <1>4, <1>5, <1>6, <1>7, <1>8, <1>9, <1>10, <1>11 DEF Next, Step

\* Every variable of RelyingParty keeps its type.
THEOREM TypeCorrect == Spec => []TypeOK
<1>1. Init => TypeOK
  BY InitIInv DEF IInv
<1> QED
  BY <1>1, NextTypeOK, PTL DEF Spec

\* The invariant holds throughout every behaviour.
LEMMA Invariance == Spec => []IInv
  BY InitIInv, NextIInv, PTL DEF Spec

\* The lock makes lookup and insertion one: what a call found missing is
\* still missing when it inserts, and every claimed challenge is recorded.
THEOREM SetProtected == Spec => []LockProtectsSet
<1>1. IInv => LockProtectsSet
  BY DEF IInv
<1> QED
  BY <1>1, Invariance, PTL

\* At most one call per challenge reaches the verification of the response.
THEOREM SingleUseEnforced == Spec => []AtMostOneClaim
<1>1. IInv => AtMostOneClaim
  BY DEF IInv
<1> QED
  BY <1>1, Invariance, PTL

\* A response that fails the expiry or binding checks spends nothing.
THEOREM BindingFailureSpendsNothing == Spec => []OnlyClaimsSpend
<1>1. IInv => OnlyClaimsSpend
  BY DEF IInv
<1> QED
  BY <1>1, Invariance, PTL
-----------------------------------------------------------------------------
(***************************************************************************)
(* What a call is told.                                                    *)
(***************************************************************************)

\* What happens around the calls, their locations, arguments and verdicts.
LEMMA SurroundingsStep ==
    ASSUME \/ \E t \in 0 .. MaxClock : SetClock(t)
           \/ \E b \in Bytes : IssueChallenge(b)
           \/ \E h, copy \in Handles : Clone(h, copy)
           \/ \E h \in Handles, enforce \in BOOLEAN : EnforceSingleUseChallenges(h, enforce)
           \/ UNCHANGED vars
    PROVE  UNCHANGED <<pc, args, verdict>>
BY DEF SetClock, IssueChallenge, Clone, EnforceSingleUseChallenges, vars

\* Once past the set, a call stays so, with the challenge it presented; and
\* what a call presented never changes.
LEMMA ClaimsKept ==
    ASSUME IInv, [Next]_vars
    PROVE  \A c \in Calls : /\ pc[c] # "idle" => pc'[c] # "idle" /\ args'[c] = args[c]
                            /\ Claimed(c) => Claimed(c)'
<1> USE DEF IInv, TypeOK, Locations, Goto, Return, Claimed
<1>1. ASSUME NEW c \in Calls, NEW h \in Handles, NEW b \in Bytes, NEW s \in Submissions,
             Invoke(c, h, b, s)
      PROVE  \A d \in Calls : /\ pc[d] # "idle" => pc'[d] # "idle" /\ args'[d] = args[d]
                              /\ Claimed(d) => Claimed(d)'
  BY <1>1 DEF Invoke
<1>2. ASSUME NEW c \in Calls, Step(c)
      PROVE  UNCHANGED args /\ \A d \in Calls : /\ pc[d] # "idle" => pc'[d] # "idle"
                                                /\ Claimed(d) => Claimed(d)'
  <2>1. UNCHANGED args
    BY <1>2 DEF Step, CheckBinding, Lock, Lookup, Insert, CheckBody
  <2>2. \E location \in Locations \ {"idle"} :
            /\ pc' = [pc EXCEPT ![c] = location]
            /\ pc[c] \in {"body", "returned"} => location = "returned"
    BY <1>2 DEF Step, CheckBinding, Lock, Lookup, Insert, CheckBody
  <2> QED
    BY <2>1, <2>2
<1> QED
  BY <1>1, <1>2, SurroundingsStep DEF Next

\* A replay error is true when it is returned, and stays true.
LEMMA NextReplayErrorIsTruthful ==
    IInv /\ ReplayErrorIsTruthful /\ [Next]_vars => ReplayErrorIsTruthful'
<1> SUFFICES ASSUME IInv, ReplayErrorIsTruthful, [Next]_vars,
                    NEW c \in Calls, verdict'[c] = "ChallengePreviouslyUsed"
             PROVE  \E d \in Calls \ {c} :
                        Claimed(d)' /\ Presents(d, args[c].cell, args[c].bytes)'
  BY DEF ReplayErrorIsTruthful
<1>1. "ChallengePreviouslyUsed" \notin ResponseVerdicts \union {Pending}
  BY SentinelAssumption DEF ResponseVerdicts, WebAuthnErrors, Ok
<1>2. verdict[c] = "ChallengePreviouslyUsed" \/ Lookup(c)
  <2>1. ASSUME NEW d \in Calls, NEW h \in Handles, NEW b \in Bytes, NEW s \in Submissions,
               Invoke(d, h, b, s)
        PROVE  verdict' = verdict
    BY <2>1 DEF Invoke
  <2>2. ASSUME NEW d \in Calls, CheckBinding(d) \/ CheckBody(d)
        PROVE  verdict' = verdict \/ \E e \in ResponseVerdicts : verdict' = [verdict EXCEPT ![d] = e]
    BY <2>2, BindingStep, BodyStep DEF Return, IInv
  <2>3. ASSUME NEW d \in Calls, Lock(d) \/ Insert(d)
        PROVE  verdict' = verdict
    BY <2>3 DEF Lock, Insert
  <2>4. ASSUME NEW d \in Calls, Lookup(d), d # c
        PROVE  verdict'[c] = verdict[c]
    BY <2>4 DEF Lookup, Return, IInv, TypeOK
  <2> QED
    BY <1>1, <2>1, <2>2, <2>3, <2>4, SurroundingsStep DEF Next, Step, IInv, TypeOK
<1>3. CASE verdict[c] = "ChallengePreviouslyUsed"
  <2>1. pc[c] # "idle"
    BY <1>1, <1>3 DEF IInv, TypeOK
  <2>2. PICK d \in Calls \ {c} : Claimed(d) /\ Presents(d, args[c].cell, args[c].bytes)
    BY <1>3 DEF ReplayErrorIsTruthful
  <2>3. pc[d] # "idle"
    BY <2>2 DEF Claimed
  <2> QED
    BY <2>1, <2>2, <2>3, ClaimsKept DEF Presents
<1>4. CASE Lookup(c) /\ verdict[c] # "ChallengePreviouslyUsed"
  <2>1. /\ pc[c] = "lookup" /\ args[c].cell \in Cells /\ args' = args
        /\ args[c].bytes \in used_challenges[args[c].cell]
    BY <1>4 DEF Lookup, IInv, LockProtectsSet
  <2>2. PICK d \in Calls : Claimed(d) /\ Presents(d, args[c].cell, args[c].bytes)
    BY <2>1 DEF IInv, OnlyClaimsSpend
  <2>3. d # c
    BY <2>1, <2>2 DEF Claimed
  <2> QED
    BY <2>1, <2>2, <2>3, ClaimsKept DEF Presents
<1> QED
  BY <1>2, <1>3, <1>4

\* A caller is told that its challenge was used only if another call has it.
THEOREM ReplayErrorsTrue == Spec => []ReplayErrorIsTruthful
<1>1. Init => ReplayErrorIsTruthful
  BY SentinelAssumption DEF Init, ReplayErrorIsTruthful, WebAuthnErrors
<1> QED
  BY <1>1, NextReplayErrorIsTruthful, Invariance, PTL DEF Spec
-----------------------------------------------------------------------------
(***************************************************************************)
(* The lock, the set and the order of the checks implement SingleUse.      *)
(* Invoke is Arrive; Insert is Claim; a refusal by the binding checks, by  *)
(* the lookup and the return from the body are Return of each kind; all    *)
(* other steps stutter.                                                    *)
(***************************************************************************)

\* The winner of a token is the only call that has claimed it.
LEMMA WinnerIsClaimant ==
    ASSUME IInv, NEW t \in Cells \X Bytes
    PROVE  /\ \A c \in Calls : Claimed(c) /\ args[c].cell = t[1] /\ args[c].bytes = t[2]
                              => Winner(t) = c
           /\ Winner(t) # Free => Winner(t) \in Calls /\ Claimed(Winner(t))
                                    /\ Presents(Winner(t), t[1], t[2])
<1>1. ASSUME NEW c \in Calls, Claimed(c), args[c].cell = t[1], args[c].bytes = t[2]
      PROVE  Winner(t) = c
  <2>1. Claimants(t) = {c}
    BY <1>1 DEF Claimants, Presents, IInv, AtMostOneClaim
  <2> QED
    BY <2>1 DEF Winner
<1>2. ASSUME Winner(t) # Free
      PROVE  Winner(t) \in Claimants(t)
  BY <1>2 DEF Winner
<1> QED
  BY <1>1, <1>2 DEF Claimants

\* A step that leaves the claims alone leaves the winners alone.
LEMMA WinnersKept ==
    ASSUME \A c \in Calls : /\ (Claimed(c)' <=> Claimed(c))
                            /\ (Claimed(c) => args'[c] = args[c])
    PROVE  \A t \in Cells \X Bytes : Winner(t)' = Winner(t)
<1> TAKE t \in Cells \X Bytes
<1>1. Claimants(t)' = Claimants(t)
  BY DEF Claimants, Presents
<1> QED
  BY <1>1 DEF Winner

\* The initial states map to initial states.
LEMMA InitRefines == Init => SU!Init
<1> SUFFICES ASSUME Init PROVE SU!Init
  OBVIOUS
<1>1. \A c \in Calls : Token(c) = Absent /\ Kind(c) = Pending /\ ~Claimed(c)
  BY DEF Init, Token, Kind, Claimed
<1>2. \A t \in Cells \X Bytes : Winner(t) = Free
  BY <1>1 DEF Winner, Claimants
<1> QED
  BY <1>1, <1>2 DEF SU!Init
\* What a call presents, once made.
LEMMA TokenType ==
    ASSUME IInv, NEW c \in Calls, pc[c] # "idle"
    PROVE  /\ Token(c) \in (Cells \X Bytes) \union {NoCell}
           /\ Token(c) # Absent
           /\ (Token(c) = NoCell <=> args[c].cell = NoCell)
           /\ args[c].cell \in Cells => Token(c) = <<args[c].cell, args[c].bytes>>
<1>1. args[c].cell \in Cells \union {NoCell} /\ args[c].bytes \in Bytes
  BY DEF IInv, TypeOK, Arguments
<1>2. CASE args[c].cell = NoCell
  BY <1>2, SentinelAssumption DEF Token
<1>3. CASE args[c].cell # NoCell
  <2> DEFINE t == <<args[c].cell, args[c].bytes>>
  <2>1. Token(c) = t
    BY <1>3 DEF Token
  <2>2. t \in Cells \X Bytes
    BY <1>1, <1>3
  <2> HIDE DEF t
  <2>3. t # Absent
    BY <2>2, SentinelAssumption
  <2>4. t # NoCell
    BY <2>2, SentinelAssumption
  <2> QED
    BY <1>3, <2>1, <2>2, <2>3, <2>4 DEF t
<1> QED
  BY <1>2, <1>3

\* A step that moves a call, but neither past the set nor out, is a stutter.
LEMMA StutterRefines ==
    ASSUME UNCHANGED <<args, verdict>>,
           \A c \in Calls : /\ (Claimed(c)' <=> Claimed(c))
                            /\ (pc'[c] = "idle" <=> pc[c] = "idle")
                            /\ (verdict[c] # Pending => pc'[c] = pc[c])
    PROVE  UNCHANGED SU!vars
<1>1. \A t \in Cells \X Bytes : Winner(t)' = Winner(t)
  BY WinnersKept
<1>2. \A c \in Calls : Token(c)' = Token(c) /\ Kind(c)' = Kind(c)
  BY DEF Token, Kind
<1>3. /\ [c \in Calls |-> Token(c)]' = [c \in Calls |-> Token(c)]
      /\ [t \in Cells \X Bytes |-> Winner(t)]' = [t \in Cells \X Bytes |-> Winner(t)]
      /\ [c \in Calls |-> Kind(c)]' = [c \in Calls |-> Kind(c)]
  BY <1>1, <1>2
<1> QED
  BY <1>3 DEF SU!vars

\* A call that returns, and by that changes nothing else, is a Return.
LEMMA ReturnRefines ==
    ASSUME IInv, NEW c \in Calls, pc[c] # "idle", verdict[c] = Pending,
           NEW location \in {"refused", "returned"}, NEW e, e # Pending,
           Return(c, location, e), UNCHANGED args,
           Claimed(c)' <=> Claimed(c),
           NEW v,
           v = (IF e = "ChallengePreviouslyUsed" THEN "used"
                ELSE IF location = "refused" THEN "binding" ELSE "body"),
           v = "body" => Token(c) = NoCell \/ Winner(Token(c)) = c,
           v = "used" => Token(c) # NoCell /\ Winner(Token(c)) \notin {Free, c},
           v = "binding" => Token(c) = NoCell \/ Winner(Token(c)) # c
    PROVE  SU!Return(c, v)
<1>1. /\ pc' = [pc EXCEPT ![c] = location]
      /\ verdict' = [verdict EXCEPT ![c] = e]
      /\ pc \in [Calls -> Locations] /\ DOMAIN verdict = Calls
  BY DEF Return, Goto, IInv, TypeOK
<1>2. \A t \in Cells \X Bytes : Winner(t)' = Winner(t)
  <2>1. \A d \in Calls : Claimed(d)' <=> Claimed(d)
    BY <1>1 DEF Claimed
  <2> QED
    BY <2>1, WinnersKept
<1>3. \A d \in Calls : Token(d)' = Token(d)
  BY <1>1 DEF Token
<1>4. /\ Kind(c) = Pending /\ Kind(c)' = v
      /\ \A d \in Calls \ {c} : Kind(d)' = Kind(d)
  BY <1>1 DEF Kind
<1>5. /\ [d \in Calls |-> Token(d)]' = [d \in Calls |-> Token(d)]
      /\ [t \in Cells \X Bytes |-> Winner(t)]' = [t \in Cells \X Bytes |-> Winner(t)]
      /\ [d \in Calls |-> Kind(d)]' = [[d \in Calls |-> Kind(d)] EXCEPT ![c] = v]
  BY <1>2, <1>3, <1>4
<1> QED
  BY <1>4, <1>5, TokenType DEF SU!Return

\* Every step maps to a step or a stutter.
LEMMA NextRefines ==
    ASSUME IInv, IInv', [Next]_vars
    PROVE  [SU!Next]_SU!vars
<1> DEFINE tokens == [c \in Calls |-> Token(c)]
           winners == [t \in Cells \X Bytes |-> Winner(t)]
           kinds == [c \in Calls |-> Kind(c)]
<1>1. CASE UNCHANGED <<pc, args, verdict>>
  <2>1. \A t \in Cells \X Bytes : Winner(t)' = Winner(t)
    BY <1>1, WinnersKept DEF Claimed
  <2>2. \A c \in Calls : Token(c)' = Token(c) /\ Kind(c)' = Kind(c)
    BY <1>1 DEF Token, Kind
  <2>3. tokens' = tokens /\ winners' = winners /\ kinds' = kinds
    BY <2>1, <2>2
  <2> QED
    BY <2>3 DEF SU!vars
<1>2. ASSUME NEW c \in Calls, NEW h \in Handles, NEW b \in Bytes, NEW s \in Submissions,
             Invoke(c, h, b, s)
      PROVE  SU!Arrive(c)
  <2>1. /\ pc[c] = "idle" /\ pc' = [pc EXCEPT ![c] = "binding"]
        /\ args' = [args EXCEPT ![c] = [cell |-> handle[h], bytes |-> b, submission |-> s]]
        /\ handle[h] \in Cells \union {NoCell}
        /\ verdict' = verdict
    BY <1>2 DEF Invoke, Goto, IInv, TypeOK
  <2>2. \A t \in Cells \X Bytes : Winner(t)' = Winner(t)
    <3>1. \A d \in Calls : /\ (Claimed(d)' <=> Claimed(d))
                           /\ (Claimed(d) => args'[d] = args[d])
      BY <2>1 DEF Claimed, IInv, TypeOK
    <3> QED
      BY <3>1, WinnersKept
  <2>3. \A d \in Calls : Kind(d)' = Kind(d)
    BY <2>1 DEF Kind, IInv, TypeOK
  <2>4. /\ Token(c) = Absent
        /\ Token(c)' \in (Cells \X Bytes) \union {NoCell}
        /\ \A d \in Calls \ {c} : Token(d)' = Token(d)
    BY <2>1 DEF Token, IInv, TypeOK
  <2> QED
    BY <2>2, <2>3, <2>4 DEF SU!Arrive
<1>3. ASSUME NEW c \in Calls, CheckBinding(c)
      PROVE  SU!Return(c, "binding") \/ UNCHANGED SU!vars
  <2>1. /\ pc[c] = "binding" /\ args' = args /\ verdict[c] = Pending
        /\ pc[c] # "idle" /\ ~Claimed(c)
    BY <1>3, BindingStep DEF IInv, TypeOK, Claimed
  <2>2. ASSUME NEW e \in ResponseVerdicts \ {Ok}, Return(c, "refused", e)
        PROVE  SU!Return(c, "binding")
    <3>1. e # Pending /\ e # "ChallengePreviouslyUsed"
      BY SentinelAssumption DEF ResponseVerdicts, WebAuthnErrors
    <3>2. ~Claimed(c)'
      BY <2>1, <2>2 DEF Claimed, Return, Goto, IInv, TypeOK
    <3>3. Token(c) = NoCell \/ Winner(Token(c)) # c
      BY <2>1, WinnerIsClaimant, TokenType, SentinelAssumption
    <3> QED
      BY <2>1, <2>2, <3>1, <3>2, <3>3, ReturnRefines
  <2>3. ASSUME Goto(c, IF args[c].cell = NoCell THEN "body" ELSE "lock"), UNCHANGED verdict
        PROVE  UNCHANGED SU!vars
    <3>1. \A d \in Calls : /\ (Claimed(d)' <=> Claimed(d))
                           /\ (pc'[d] = "idle" <=> pc[d] = "idle")
                           /\ (verdict[d] # Pending => pc'[d] = pc[d])
      BY <2>1, <2>3, SentinelAssumption DEF Claimed, Goto, IInv, TypeOK
    <3> QED
      BY <2>1, <2>3, <3>1, StutterRefines
  <2> QED
    BY <1>3, <2>2, <2>3, BindingStep
<1>4. ASSUME NEW c \in Calls, Lock(c)
      PROVE  UNCHANGED SU!vars
  <2>1. /\ pc[c] = "lock" /\ pc' = [pc EXCEPT ![c] = "lookup"] /\ verdict[c] = Pending
        /\ UNCHANGED <<args, verdict>>
    BY <1>4 DEF Lock, Goto, IInv, TypeOK
  <2>2. \A d \in Calls : /\ (Claimed(d)' <=> Claimed(d))
                         /\ (pc'[d] = "idle" <=> pc[d] = "idle")
                         /\ (verdict[d] # Pending => pc'[d] = pc[d])
    BY <2>1 DEF Claimed, IInv, TypeOK
  <2> QED
    BY <2>1, <2>2, StutterRefines
<1>5. ASSUME NEW c \in Calls, Lookup(c)
      PROVE  SU!Return(c, "used") \/ UNCHANGED SU!vars
  <2>1. /\ pc[c] = "lookup" /\ args' = args /\ verdict[c] = Pending
        /\ args[c].cell \in Cells
    BY <1>5 DEF Lookup, IInv, TypeOK, LockProtectsSet
  <2>2. CASE args[c].bytes \in used_challenges[args[c].cell]
    <3>1. Return(c, "refused", "ChallengePreviouslyUsed")
      BY <1>5, <2>2 DEF Lookup
    <3>2. (Claimed(c)' <=> Claimed(c)) /\ ~Claimed(c)
      BY <2>1, <3>1 DEF Claimed, Return, Goto, IInv, TypeOK
    <3>3. PICK d \in Calls : Claimed(d) /\ Presents(d, args[c].cell, args[c].bytes)
      BY <2>1, <2>2 DEF IInv, OnlyClaimsSpend
    <3>4. /\ Token(c) = <<args[c].cell, args[c].bytes>> /\ Token(c) # NoCell
          /\ Token(c) \in Cells \X Bytes
      BY <2>1, TokenType, SentinelAssumption
    <3>5. Winner(Token(c)) = d
      BY <3>3, <3>4, WinnerIsClaimant DEF Presents
    <3>6. "ChallengePreviouslyUsed" # Pending
      BY SentinelAssumption DEF WebAuthnErrors
    <3> QED
      BY <2>1, <3>1, <3>2, <3>3, <3>4, <3>5, <3>6, ReturnRefines, SentinelAssumption
  <2>3. CASE args[c].bytes \notin used_challenges[args[c].cell]
    <3>1. pc' = [pc EXCEPT ![c] = "insert"] /\ UNCHANGED verdict
      BY <1>5, <2>3 DEF Lookup, Goto
    <3>2. \A d \in Calls : /\ (Claimed(d)' <=> Claimed(d))
                           /\ (pc'[d] = "idle" <=> pc[d] = "idle")
                           /\ (verdict[d] # Pending => pc'[d] = pc[d])
      BY <2>1, <3>1 DEF Claimed, IInv, TypeOK
    <3> QED
      BY <2>1, <3>1, <3>2, StutterRefines
  <2> QED
    BY <2>2, <2>3
<1>6. ASSUME NEW c \in Calls, Insert(c)
      PROVE  SU!Claim(c)
  <2>1. /\ pc[c] = "insert" /\ pc' = [pc EXCEPT ![c] = "body"] /\ verdict[c] = Pending
        /\ UNCHANGED <<args, verdict>>
        /\ args[c].cell \in Cells
        /\ args[c].bytes \notin used_challenges[args[c].cell]
    BY <1>6 DEF Insert, Goto, IInv, TypeOK, LockProtectsSet
  <2>2. PICK t \in Cells \X Bytes : t = Token(c) /\ t = <<args[c].cell, args[c].bytes>>
    BY <2>1, TokenType, SentinelAssumption
  <2>3. Winner(t) = Free
    <3>1. \A d \in Calls : ~(Claimed(d) /\ Presents(d, t[1], t[2]))
      BY <2>1, <2>2 DEF IInv, LockProtectsSet, Presents
    <3> QED
      BY <3>1 DEF Winner, Claimants
  <2>4. Winner(t)' = c
    <3>1. Claimed(c)' /\ t[1] = args'[c].cell /\ t[2] = args'[c].bytes
      BY <2>1, <2>2 DEF Claimed, IInv, TypeOK
    <3>2. \A d \in Calls : Claimed(d)' /\ args'[d].cell = t[1] /\ args'[d].bytes = t[2] => d = c
      BY <2>2, <3>1 DEF IInv, AtMostOneClaim, Presents
    <3> DEFINE K == {d \in Calls : Claimed(d)' /\ args'[d].cell = t[1] /\ args'[d].bytes = t[2]}
    <3>3. K = {c}
      BY <3>1, <3>2
    <3> QED
      BY <3>3 DEF Winner, Claimants, Presents
  <2>5. ASSUME NEW u \in Cells \X Bytes, u # t
        PROVE  Winner(u)' = Winner(u)
    <3>1. Claimants(u)' = Claimants(u)
      BY <2>1, <2>2, <2>5 DEF Claimants, Presents, Claimed, IInv, TypeOK
    <3> QED
      BY <3>1 DEF Winner
  <2>6. \A d \in Calls : Token(d)' = Token(d) /\ Kind(d)' = Kind(d)
    BY <2>1 DEF Token, Kind, IInv, TypeOK
  <2>7. Kind(c) = Pending
    BY <2>1 DEF Kind
  <2>8. /\ tokens' = tokens /\ kinds' = kinds
        /\ winners' = [winners EXCEPT ![t] = c]
    BY <2>2, <2>4, <2>5, <2>6
  <2> QED
    BY <2>2, <2>3, <2>7, <2>8 DEF SU!Claim
<1>7. ASSUME NEW c \in Calls, CheckBody(c)
      PROVE  SU!Return(c, "body")
  <2>1. /\ pc[c] = "body" /\ args' = args /\ verdict[c] = Pending
    BY <1>7, BodyStep DEF IInv, TypeOK
  <2>2. PICK e \in ResponseVerdicts : Return(c, "returned", e)
    BY <1>7, BodyStep DEF IInv
  <2>3. e # Pending /\ e # "ChallengePreviouslyUsed"
    BY SentinelAssumption DEF ResponseVerdicts, WebAuthnErrors, Ok
  <2>4. Claimed(c)' <=> Claimed(c)
    BY <2>1, <2>2 DEF Claimed, Return, Goto, IInv, TypeOK
  <2>5. Token(c) = NoCell \/ Winner(Token(c)) = c
    <3>1. CASE args[c].cell = NoCell
      BY <2>1, <3>1, TokenType
    <3>2. CASE args[c].cell # NoCell
      <4>1. args[c].cell \in Cells
        BY <2>1, <3>2 DEF IInv, TypeOK, Arguments
      <4>2. Claimed(c)
        BY <2>1, <4>1 DEF Claimed
      <4> QED
        BY <2>1, <4>1, <4>2, TokenType, WinnerIsClaimant, SentinelAssumption
    <3> QED
      BY <3>1, <3>2
  <2> QED
    BY <2>1, <2>2, <2>3, <2>4, <2>5, ReturnRefines
<1> QED
  BY <1>1, <1>2, <1>3, <1>4, <1>5, <1>6, <1>7, SurroundingsStep DEF Next, Step, SU!Next

\* Every behaviour of the relying party is one that SingleUse allows.
THEOREM SingleUseImplemented == Spec => ImplementsSingleUse
<1>1. Init => SU!Init
  BY InitRefines
<1>2. IInv /\ IInv' /\ [Next]_vars => [SU!Next]_SU!vars
  BY NextRefines
<1> QED
  BY <1>1, <1>2, Invariance, PTL DEF Spec, ImplementsSingleUse, SU!Spec
=============================================================================
