---------------------------- MODULE RelyingParty ----------------------------
(***************************************************************************)
(* Concurrent ceremonies on one RelyingParty value and its clones          *)
(* (registration.rs, authentication.rs): several threads are inside        *)
(* verify_registration or verify_authentication at once, and all that they *)
(* share is the system clock and the set of used challenges behind         *)
(* Arc<Mutex<..>>.                                                         *)
(*                                                                         *)
(* A handle is a RelyingParty value; a cell is one allocation of the       *)
(* shared set.  Cloning a handle shares its cell;                          *)
(* enforce_single_use_challenges replaces the cell of the one handle it    *)
(* rebuilds by an empty one, or by none.  (The borrow checker does not let *)
(* a handle be rebuilt while a call borrows it; a call here keeps the cell *)
(* it started with, which is the same as the rebuilt handle having been    *)
(* cloned first.)                                                          *)
(***************************************************************************)
EXTENDS Ceremony

CONSTANTS
    Calls,         \* invocations; each is made at most once
    Handles,       \* values of type RelyingParty
    Cells,         \* allocations of the used-challenge set
    NoCell,        \* used_challenges = None
    Absent,        \* a handle that does not exist yet
    Free,          \* an unlocked mutex
    Pending,       \* the verdict of a call that has not returned
    Bytes,         \* challenge bytes; the generator never repeats them
    NotIssued,     \* created_at of a challenge not yet drawn
    Config,        \* the configuration all handles carry
    Submissions,   \* what callers pass in: response and, to authenticate, credential
    MaxClock       \* bound: the clock reads 0..MaxClock

ASSUME SentinelAssumption ==
    /\ NoCell \notin Cells \union (Cells \X Bytes)
    /\ Absent \notin Cells \union {NoCell} \union (Cells \X Bytes)
    /\ Free \notin Calls
    /\ MaxClock \in Nat
    /\ NotIssued \notin 0 .. MaxClock
    /\ Pending \notin WebAuthnErrors \union {Ok}

\* What the parsers and attestation::verify say of a response: of the
\* library's errors only the used-challenge check has ChallengePreviouslyUsed.
ResponseVerdicts == (WebAuthnErrors \ {"ChallengePreviouslyUsed"}) \union {Ok}

ASSUME SubmissionsAssumption ==
    \A s \in Submissions :
        /\ s.response.auth_data.parse \in ResponseVerdicts
        /\ s.ceremony = "webauthn.create" =>
              {s.response.parse, s.response.attestation} \subseteq ResponseVerdicts

VARIABLES
    clock,         \* SystemTime::now()
    created_at,    \* created_at[b]: when Challenge::new drew b
    handle,        \* handle[h]: the cell behind the handle
    used_challenges,  \* used_challenges[k]: the bytes in cell k
    mutex,         \* mutex[k]: the call that holds the lock of cell k
    pc,            \* pc[c]: where the call is
    args,          \* args[c]: the cell, challenge bytes and submission of the call
    verdict        \* verdict[c]: what the call returned

vars == <<clock, created_at, handle, used_challenges, mutex, pc, args, verdict>>

\* "refused": returned before or at the single-use set; "returned": after it.
Locations == {"idle", "binding", "lock", "lookup", "insert", "body", "refused", "returned"}

Arguments == [cell : Cells \union {NoCell}, bytes : Bytes, submission : Submissions]

NoArguments == [cell |-> NoCell]

Init ==
    /\ clock \in 0 .. MaxClock
    /\ created_at = [b \in Bytes |-> NotIssued]
    /\ handle \in {[h \in Handles |-> IF h = first THEN NoCell ELSE Absent] : first \in Handles}
    /\ used_challenges = [k \in Cells |-> {}]
    /\ mutex = [k \in Cells |-> Free]
    /\ pc = [c \in Calls |-> "idle"]
    /\ args = [c \in Calls |-> NoArguments]
    /\ verdict = [c \in Calls |-> Pending]

-----------------------------------------------------------------------------
(***************************************************************************)
(* The environment: time, challenges, handles.                             *)
(***************************************************************************)

\* SystemTime is not monotonic: it may be set to anything.
SetClock(t) ==
    /\ clock' = t
    /\ UNCHANGED <<created_at, handle, used_challenges, mutex, pc, args, verdict>>

\* Mutant: the deadline is recorded for the date.
IssueChallengeDeadline(b) ==
    /\ created_at[b] = NotIssued
    /\ created_at' = [created_at EXCEPT ![b] = clock + Config.max_age]
    /\ UNCHANGED <<clock, handle, used_challenges, mutex, pc, args, verdict>>

\* begin_registration and authentication_options draw a challenge and keep
\* nothing of it.
IssueChallenge(b) ==
    /\ created_at[b] = NotIssued
    /\ created_at' = [created_at EXCEPT ![b] = clock]
    /\ UNCHANGED <<clock, handle, used_challenges, mutex, pc, args, verdict>>

Clone(h, copy) ==
    /\ handle[h] # Absent
    /\ handle[copy] = Absent
    /\ handle' = [handle EXCEPT ![copy] = handle[h]]
    /\ UNCHANGED <<clock, created_at, used_challenges, mutex, pc, args, verdict>>

\* Cells nothing refers to: what Arc::new may return.
Unreferenced(k) ==
    /\ \A h \in Handles : handle[h] # k
    /\ \A c \in Calls : args[c].cell # k

EnforceSingleUseChallenges(h, enforce) ==
    /\ handle[h] # Absent
    /\ \E k \in Cells \union {NoCell} :
          /\ IF enforce THEN k \in Cells /\ Unreferenced(k) ELSE k = NoCell
          /\ handle' = [handle EXCEPT ![h] = k]
          /\ used_challenges' = [j \in Cells |-> IF j = k THEN {} ELSE used_challenges[j]]
    /\ UNCHANGED <<clock, created_at, mutex, pc, args, verdict>>

-----------------------------------------------------------------------------
(***************************************************************************)
(* A call, step by step.                                                   *)
(***************************************************************************)

Goto(c, location) == pc' = [pc EXCEPT ![c] = location]

Return(c, location, v) ==
    /\ Goto(c, location)
    /\ verdict' = [verdict EXCEPT ![c] = v]

\* A caller presents a challenge it issued together with a response.
Invoke(c, h, b, s) ==
    /\ pc[c] = "idle"
    /\ handle[h] # Absent
    /\ created_at[b] # NotIssued
    /\ args' = [args EXCEPT ![c] = [cell |-> handle[h], bytes |-> b, submission |-> s]]
    /\ Goto(c, "binding")
    /\ UNCHANGED <<clock, created_at, handle, used_challenges, mutex, verdict>>

\* Mutant: the challenge is spent before the response is looked at.
CheckBindingSpendsFirst(c) ==
    /\ pc[c] = "binding"
    /\ used_challenges' = [k \in Cells |-> IF k = args[c].cell
                                           THEN used_challenges[k] \union {args[c].bytes}
                                           ELSE used_challenges[k]]
    /\ LET s == args[c].submission
           challenge == [bytes |-> args[c].bytes, created_at |-> created_at[args[c].bytes]]
           error == FirstError(Binding(Config, s.ceremony, challenge, s.response.client_data, clock))
       IN  IF error # Ok
           THEN Return(c, "refused", error)
           ELSE Goto(c, "body") /\ UNCHANGED verdict
    /\ UNCHANGED <<clock, created_at, handle, mutex, args>>

\* Expiry, client data, and whether there is a set to consult.
CheckBinding(c) ==
    /\ pc[c] = "binding"
    /\ LET s == args[c].submission
           challenge == [bytes |-> args[c].bytes, created_at |-> created_at[args[c].bytes]]
           error == FirstError(Binding(Config, s.ceremony, challenge, s.response.client_data, clock))
       IN  IF error # Ok
           THEN Return(c, "refused", error)
           ELSE /\ Goto(c, IF args[c].cell = NoCell THEN "body" ELSE "lock")
                /\ UNCHANGED verdict
    /\ UNCHANGED <<clock, created_at, handle, used_challenges, mutex, args>>

\* Mutant: a lock that does not wait.
LockWithoutWaiting(c) ==
    /\ pc[c] = "lock"
    /\ mutex' = [mutex EXCEPT ![args[c].cell] = c]
    /\ Goto(c, "lookup")
    /\ UNCHANGED <<clock, created_at, handle, used_challenges, args, verdict>>

Lock(c) ==
    /\ pc[c] = "lock"
    /\ mutex[args[c].cell] = Free
    /\ mutex' = [mutex EXCEPT ![args[c].cell] = c]
    /\ Goto(c, "lookup")
    /\ UNCHANGED <<clock, created_at, handle, used_challenges, args, verdict>>

\* Mutants: the guard lives for the lookup only; the early return keeps the
\* lock; the test is the wrong way round.
LookupUnlocks(c) ==
    /\ pc[c] = "lookup"
    /\ mutex' = [mutex EXCEPT ![args[c].cell] = Free]
    /\ IF args[c].bytes \in used_challenges[args[c].cell]
       THEN Return(c, "refused", "ChallengePreviouslyUsed")
       ELSE Goto(c, "insert") /\ UNCHANGED verdict
    /\ UNCHANGED <<clock, created_at, handle, used_challenges, args>>

LookupKeepsLock(c) ==
    /\ pc[c] = "lookup"
    /\ IF args[c].bytes \in used_challenges[args[c].cell]
       THEN Return(c, "refused", "ChallengePreviouslyUsed")
       ELSE Goto(c, "insert") /\ UNCHANGED verdict
    /\ UNCHANGED <<clock, created_at, handle, used_challenges, mutex, args>>

LookupInverted(c) ==
    /\ pc[c] = "lookup"
    /\ IF args[c].bytes \notin used_challenges[args[c].cell]
       THEN /\ Return(c, "refused", "ChallengePreviouslyUsed")
            /\ mutex' = [mutex EXCEPT ![args[c].cell] = Free]
       ELSE /\ Goto(c, "insert")
            /\ UNCHANGED <<mutex, verdict>>
    /\ UNCHANGED <<clock, created_at, handle, used_challenges, args>>

\* The early return drops the guard, and with it the lock.
Lookup(c) ==
    /\ pc[c] = "lookup"
    /\ IF args[c].bytes \in used_challenges[args[c].cell]
       THEN /\ Return(c, "refused", "ChallengePreviouslyUsed")
            /\ mutex' = [mutex EXCEPT ![args[c].cell] = Free]
       ELSE /\ Goto(c, "insert")
            /\ UNCHANGED <<mutex, verdict>>
    /\ UNCHANGED <<clock, created_at, handle, used_challenges, args>>

\* The guard goes out of scope after the insertion.
Insert(c) ==
    /\ pc[c] = "insert"
    /\ used_challenges' = [used_challenges EXCEPT ![args[c].cell] = @ \union {args[c].bytes}]
    /\ mutex' = [mutex EXCEPT ![args[c].cell] = Free]
    /\ Goto(c, "body")
    /\ UNCHANGED <<clock, created_at, handle, args, verdict>>

BodyVerdict(s) ==
    IF s.ceremony = "webauthn.create"
    THEN FirstError(RegistrationBody(Config, s.response))
    ELSE FirstError(AuthenticationBody(Config, s.stored, s.response))

CheckBody(c) ==
    /\ pc[c] = "body"
    /\ Return(c, "returned", BodyVerdict(args[c].submission))
    /\ UNCHANGED <<clock, created_at, handle, used_challenges, mutex, args>>

Step(c) == CheckBinding(c) \/ Lock(c) \/ Lookup(c) \/ Insert(c) \/ CheckBody(c)

Next ==
    \/ \E t \in 0 .. MaxClock : SetClock(t)
    \/ \E b \in Bytes : IssueChallenge(b)
    \/ \E h, copy \in Handles : Clone(h, copy)
    \/ \E h \in Handles, enforce \in BOOLEAN : EnforceSingleUseChallenges(h, enforce)
    \/ \E c \in Calls, h \in Handles, b \in Bytes, s \in Submissions : Invoke(c, h, b, s)
    \/ \E c \in Calls : Step(c)

\* The scheduler runs every thread that is inside a call.  Nothing else is fair.
Fairness == \A c \in Calls : WF_vars(Step(c))

Spec == Init /\ [][Next]_vars

FairSpec == Spec /\ Fairness

-----------------------------------------------------------------------------
(***************************************************************************)
(* Properties.                                                             *)
(***************************************************************************)

\* Every variable keeps its type.
TypeOK ==
    /\ clock \in 0 .. MaxClock
    /\ created_at \in [Bytes -> 0 .. MaxClock \union {NotIssued}]
    /\ handle \in [Handles -> Cells \union {NoCell, Absent}]
    /\ used_challenges \in [Cells -> SUBSET Bytes]
    /\ mutex \in [Cells -> Calls \union {Free}]
    /\ pc \in [Calls -> Locations]
    /\ args \in [Calls -> Arguments \union {NoArguments}]
    /\ verdict \in [Calls -> WebAuthnErrors \union {Ok, Pending}]
    /\ \A c \in Calls : /\ pc[c] # "idle" => args[c] \in Arguments
                        /\ pc[c] \in {"refused", "returned"} <=> verdict[c] # Pending

\* A call made with enforcement on that has got past the set.
Claimed(c) == pc[c] \in {"body", "returned"} /\ args[c].cell \in Cells

Presents(c, k, b) == args[c].cell = k /\ args[c].bytes = b

\* Of the calls that present one challenge through handles sharing one set,
\* at most one reaches the verification of the response, whether it then
\* accepts or not: a failed ceremony cannot be retried with its challenge, on
\* any clone, in any interleaving (enforce_single_use_challenges).
AtMostOneClaim ==
    \A c, d \in Calls :
        Claimed(c) /\ Claimed(d) /\ Presents(c, args[d].cell, args[d].bytes) => c = d

\* A challenge is spent only by a call that passed the expiry and binding
\* checks: a response that fails them leaves the challenge good for the
\* response that passes.
OnlyClaimsSpend ==
    \A k \in Cells : \A b \in used_challenges[k] :
        \E c \in Calls : Claimed(c) /\ Presents(c, k, b)

\* What a thread learns from the set stays true until it acts on it: between
\* the lookup and the insertion it holds the lock, so the bytes it found
\* missing still are, and whatever has got past the set is recorded in it.
LockProtectsSet ==
    /\ \A c \in Calls : pc[c] \in {"lock", "lookup", "insert"} => args[c].cell \in Cells
    /\ \A c \in Calls : pc[c] \in {"lookup", "insert"} => mutex[args[c].cell] = c
    /\ \A c \in Calls : pc[c] = "insert" => args[c].bytes \notin used_challenges[args[c].cell]
    /\ \A c \in Calls : Claimed(c) => args[c].bytes \in used_challenges[args[c].cell]

\* ChallengePreviouslyUsed is returned only when another call has the
\* challenge; a caller is never told so about a challenge it used first.
ReplayErrorIsTruthful ==
    \A c \in Calls :
        verdict[c] = "ChallengePreviouslyUsed" =>
            \E d \in Calls \ {c} : Claimed(d) /\ Presents(d, args[c].cell, args[c].bytes)

\* Every call returns: the lock is released on the early return as well as
\* after the insertion, so no caller waits for ever behind a refused one.
EveryCallReturns ==
    \A c \in Calls : pc[c] = "binding" ~> pc[c] \in {"refused", "returned"}

(***************************************************************************)
(* The promise of SingleUse, kept.  A token is a challenge within a cell.  *)
(***************************************************************************)
Token(c) ==
    IF pc[c] = "idle" THEN Absent
    ELSE IF args[c].cell = NoCell THEN NoCell
    ELSE <<args[c].cell, args[c].bytes>>

Claimants(t) == {c \in Calls : Claimed(c) /\ Presents(c, t[1], t[2])}
Winner(t) == IF Claimants(t) = {} THEN Free ELSE CHOOSE c \in Claimants(t) : TRUE

Kind(c) ==
    IF verdict[c] = Pending THEN Pending
    ELSE IF verdict[c] = "ChallengePreviouslyUsed" THEN "used"
    ELSE IF pc[c] = "refused" THEN "binding"
    ELSE "body"

SU == INSTANCE SingleUse WITH
    Tokens  <- Cells \X Bytes,
    Idle    <- Absent,
    NoToken <- NoCell,
    NoCall  <- Free,
    token   <- [c \in Calls |-> Token(c)],
    winner  <- [t \in Cells \X Bytes |-> Winner(t)],
    verdict <- [c \in Calls |-> Kind(c)]

\* The lock, the set and the order of the checks implement SingleUse.
ImplementsSingleUse == SU!Spec
=============================================================================
