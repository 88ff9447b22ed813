------------------------------ MODULE MCServer ------------------------------
(***************************************************************************)
(* A small instance of Server.                                             *)
(***************************************************************************)
EXTENDS Server

MCConfig ==
    [ id |-> "example.com", allowed_origins |-> {"https://example.com"},
      reject_cross_origin |-> FALSE, require_user_verification |-> FALSE,
      reject_backup_eligible |-> FALSE, require_backup_eligible |-> FALSE,
      allowed_algorithms |-> {}, authenticator_metadata |-> NoEntries, max_age |-> 1 ]

Symmetry == Permutations(Workers) \union Permutations(Sessions) \union Permutations(Authenticators)
=============================================================================
