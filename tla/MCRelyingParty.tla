--------------------------- MODULE MCRelyingParty ---------------------------
(***************************************************************************)
(* A small instance of RelyingParty: a configuration and the submissions   *)
(* worth telling apart, one for each place a call can return from.         *)
(***************************************************************************)
EXTENDS RelyingParty

MCConfig ==
    [ id |-> "rp", allowed_origins |-> {"https"}, reject_cross_origin |-> TRUE,
      require_user_verification |-> TRUE, reject_backup_eligible |-> FALSE,
      require_backup_eligible |-> FALSE, allowed_algorithms |-> {},
      authenticator_metadata |-> [a \in {} |-> {}], max_age |-> 1 ]

ClientData(type, b, origin) ==
    [ form |-> "ok", type |-> type, challenge |-> b, origin |-> origin,
      cross_origin |-> FALSE ]

Key == [kty |-> "EC2", alg |-> "ES256", id |-> "key"]

AuthData(count, attested) ==
    [ parse |-> Ok, rp_id |-> "rp", user_present |-> TRUE, user_verified |-> TRUE,
      backup_eligible |-> FALSE, backup_state |-> FALSE, sign_count |-> count,
      attested |-> attested ]

Stored ==
    [ id |-> "cred", public_key |-> Key, sign_count |-> 1, user_id |-> "user",
      rp_id |-> "rp", created_at |-> 0, backup_eligible |-> FALSE, backup_state |-> FALSE ]

Create(b, origin, attestation) ==
    [ ceremony |-> "webauthn.create",
      response |->
        [ client_data |-> ClientData("webauthn.create", b, origin), parse |-> Ok,
          attestation |-> attestation,
          auth_data |-> AuthData(0, {[id |-> "cred", aaguid |-> "model", public_key |-> Key]}) ] ]

Get(b, count) ==
    LET cd == ClientData("webauthn.get", b, "https")
        ad == AuthData(count, {})
    IN  [ ceremony |-> "webauthn.get", stored |-> Stored,
          response |-> [ client_data |-> cd, auth_data |-> ad,
                         signature |-> Sign(Key, ad, cd), credential_id |-> "cred" ] ]

Submission(outcome, b) ==
    CASE outcome = "registered"  -> Create(b, "https", Ok)
      [] outcome = "wrong_origin" -> Create(b, "http", Ok)
      [] outcome = "unattested"  -> Create(b, "https", "AttestationChainInvalid")
      [] outcome = "cloned"      -> Get(b, 1)
      [] outcome = "authenticated" -> Get(b, 2)

\* Accepted; refused for its origin; failing late in each ceremony.
MCSubmissions ==
    { Submission(outcome, b) : outcome \in {"registered", "wrong_origin", "unattested", "cloned"},
                               b \in Bytes }

\* Only what the fair run needs: one that is refused, one that goes through.
FewSubmissions ==
    { Submission(outcome, b) : outcome \in {"wrong_origin", "authenticated"}, b \in Bytes }

Symmetry ==
    Permutations(Calls) \union Permutations(Handles) \union Permutations(Cells)
=============================================================================
