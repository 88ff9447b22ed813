-------------------------- MODULE CredentialStore ---------------------------
(***************************************************************************)
(* What a credential database promises: a registration, named by the owner *)
(* it is for, is stored at most once, on a free id or in place of what was *)
(* there; every accepted assertion carries a count greater than the one    *)
(* stored, and becomes the one stored, unless the authenticator has no     *)
(* counter and both are zero.  A store without persistence may lose        *)
(* everything at once, and does not take a lost registration again.        *)
(***************************************************************************)
EXTENDS Naturals

CONSTANTS Ids, Owners

VARIABLES
    stored,   \* stored[id]: the owner and the count; its domain is what is stored
    used      \* the owners whose registration has been stored

vars == <<stored, used>>

Empty == [id \in {} |-> {}]

Init == stored = Empty /\ used = {}

\* Nothing but the entry of id changes.
Sets(id) ==
    /\ DOMAIN stored' = DOMAIN stored \union {id}
    /\ \A i \in DOMAIN stored \ {id} : stored'[i] = stored[i]

Register(id, owner) ==
    /\ owner \notin used
    /\ used' = used \union {owner}
    /\ Sets(id)
    /\ stored'[id].owner = owner
    /\ stored'[id].count \in Nat

Authenticate(id) ==
    /\ id \in DOMAIN stored
    /\ Sets(id)
    /\ stored'[id].owner = stored[id].owner
    /\ stored'[id].count > stored[id].count
    /\ UNCHANGED used

LoseEverything == stored' = Empty /\ used \subseteq used'

Next ==
    \/ \E id \in Ids, owner \in Owners : Register(id, owner)
    \/ \E id \in Ids : Authenticate(id)
    \/ LoseEverything

Spec == Init /\ [][Next]_vars
=============================================================================
