----------------------------- MODULE SingleUse ------------------------------
(***************************************************************************)
(* What enforce_single_use_challenges promises, with no lock, no set and   *)
(* no order of checks: of all the calls that present one token (the bytes  *)
(* of a challenge, within one tracking set), at most one ever gets as far  *)
(* as the verification of the response, whatever that verification then    *)
(* says, and a call is told that its token was used only when another      *)
(* call really has it.                                                     *)
(***************************************************************************)
CONSTANTS
    Calls,     \* invocations of verify_registration / verify_authentication
    Tokens,    \* <<tracking set, challenge bytes>>
    Idle,      \* a call that has not been made
    NoToken,   \* the token of a call made without enforcement
    NoCall,    \* a token nobody has
    Pending    \* the verdict of a call that has not returned

VARIABLES
    token,     \* token[c]: what the call presents
    winner,    \* winner[t]: the call that has consumed the token
    verdict    \* verdict[c]: what the call has returned: "used" for
               \* ChallengePreviouslyUsed, "binding" for an error found before
               \* the token is looked at, "body" for any verdict after it

vars == <<token, winner, verdict>>

Init ==
    /\ token = [c \in Calls |-> Idle]
    /\ winner = [t \in Tokens |-> NoCall]
    /\ verdict = [c \in Calls |-> Pending]

Arrive(c) ==
    /\ token[c] = Idle
    /\ \E t \in Tokens \union {NoToken} : token' = [token EXCEPT ![c] = t]
    /\ UNCHANGED <<winner, verdict>>

Claim(c) ==
    /\ verdict[c] = Pending
    /\ token[c] \in Tokens
    /\ winner[token[c]] = NoCall
    /\ winner' = [winner EXCEPT ![token[c]] = c]
    /\ UNCHANGED <<token, verdict>>

Return(c, v) ==
    /\ verdict[c] = Pending
    /\ token[c] # Idle
    /\ v = "body" => token[c] = NoToken \/ winner[token[c]] = c
    /\ v = "used" => token[c] \in Tokens /\ winner[token[c]] \notin {NoCall, c}
    /\ v = "binding" => token[c] = NoToken \/ winner[token[c]] # c
    /\ verdict' = [verdict EXCEPT ![c] = v]
    /\ UNCHANGED <<token, winner>>

Next ==
    \E c \in Calls :
        \/ Arrive(c)
        \/ Claim(c)
        \/ \E v \in {"body", "used", "binding"} : Return(c, v)

Spec == Init /\ [][Next]_vars
=============================================================================
