---------------------------- MODULE MCLifecycle -----------------------------
(***************************************************************************)
(* Configurations that differ from the default in one builder each, and    *)
(* one that is strict throughout; devices for each way a key or a model    *)
(* can be refused; extension inputs with each field present and absent.    *)
(***************************************************************************)
EXTENDS Lifecycle

Keys == INSTANCE Der WITH WordOctets <- 8

Updated == Octets(16, 1)
Plain   == Octets(16, 2)
Revoked == Octets(16, 3)

Default == WithOrigins("example.com", {"https://example.com", "https://www"}, "Example", 2)

Required ==
    {[ authenticator_attachment |-> {}, resident_key |-> {"required"},
       require_resident_key |-> TRUE, user_verification |-> "required" ]}
Roaming ==
    {[ authenticator_attachment |-> {"cross-platform"}, resident_key |-> {},
       require_resident_key |-> FALSE, user_verification |-> "discouraged" ]}

Statuses ==
    Revoked :> {"UpdateAvailable", "Revoked"} @@ Updated :> {"UpdateAvailable"}

CrossOriginRejected ==
    Builder(WithOrigins("example.com", {"https://example.com"}, "Example", 2), "reject_cross_origin", TRUE)
UserVerified ==
    Builder(Builder(Default, "require_user_verification", TRUE),
            "default_authenticator_selection", Required)

MCPolicies ==
    { Default, CrossOriginRejected, UserVerified,
      Builder(Default, "reject_backup_eligible", TRUE),
      Builder(Builder(Default, "require_backup_eligible", TRUE),
              "default_authenticator_selection", Roaming),
      Builder(Default, "allowed_algorithms", {"ES256", "EdDSA"}),
      Builder(Default, "authenticator_metadata", Statuses),
      Builder(Builder(Builder(CrossOriginRejected, "require_user_verification", TRUE),
                      "reject_backup_eligible", TRUE), "allowed_algorithms", {"ES256"}) }

Device(alg, public_key, aaguid, counts, eligible, attests) ==
    [ alg |-> alg, public_key |-> public_key, aaguid |-> aaguid, counts |-> counts,
      backup_eligible |-> eligible, attests |-> attests ]

Point(size) == Octets(1, 4) \o Octets(size, 7) \o Octets(size, 8)
RsaDer == The(Keys!RsaComponentsToDer(Octets(256, 129), Raw(<<1, 0, 1>>)).value)

MCDevices ==
    [ es256 |-> Device("ES256", Point(32), Updated, TRUE, FALSE, TRUE),
      es384 |-> Device("ES384", Point(48), Plain, TRUE, FALSE, FALSE),
      eddsa |-> Device("EdDSA", Octets(32, 7), Plain, FALSE, TRUE, TRUE),
      rs256 |-> Device("RS256", RsaDer, Revoked, TRUE, FALSE, FALSE) ]

NoExtensions ==
    [ cred_props |-> {}, prf |-> {}, large_blob |-> {}, cred_protect |-> {}, min_pin_length |-> {} ]

First == [first |-> Octets(2, 1), second |-> {}]
Both == [first |-> Octets(2, 1), second |-> {Octets(2, 2)}]

MCRegistrationRequests ==
    { {},
      {[NoExtensions EXCEPT !.cred_props = {TRUE}, !.prf = {[eval |-> {First}]},
                            !.cred_protect = {[policy |-> "UserVerificationRequired",
                                               enforce |-> TRUE]}]},
      {[NoExtensions EXCEPT !.prf = {[eval |-> {}]}, !.large_blob = {"preferred"},
                            !.cred_protect =
                                {[policy |-> "UserVerificationOptionalWithCredentialIdList",
                                  enforce |-> FALSE]},
                            !.min_pin_length = {TRUE}]} }

MCAuthenticationRequests ==
    { {},
      {[NoExtensions EXCEPT !.prf = {[eval |-> {Both}]}, !.large_blob = {{}}]},
      {[NoExtensions EXCEPT !.large_blob = {{Octets(2, 3)}}]} }

\* The client of this model conforms with every configuration, and its caller
\* asks for something where it asks for extensions.
ASSUME ConformingAssumption == Conforming
ASSUME AskingAssumption == Asking
=============================================================================
