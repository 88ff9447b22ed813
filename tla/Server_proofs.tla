--------------------------- MODULE Server_proofs ----------------------------
(***************************************************************************)
(* Theorems about module Server, for every number of workers, sessions,    *)
(* credential ids and authenticators and every bound: the invariants that  *)
(* its runs check, that a registration takes effect once, and that the     *)
(* server implements CredentialStore until requests race for a credential. *)
(*                                                                         *)
(* None of the invariants is inductive alone.  IInv adds to them what a    *)
(* request holds at each point of its handler (Progress), which            *)
(* registration a stored credential is of and that its session is used up  *)
(* (Registered), what has been used up by an accepted assertion            *)
(* (Authenticated) and, for the key and the count that a request verifies  *)
(* against, that without a race its copy of a credential is the only one   *)
(* and current (CopiesCurrent).  What a ceremony's verdict implies comes   *)
(* from Ceremony_proofs.                                                   *)
(***************************************************************************)
EXTENDS Server, Ceremony_proofs

-----------------------------------------------------------------------------
(***************************************************************************)
(* The inductive invariant.                                                *)
(***************************************************************************)

Challenges == [bytes : drawn, created_at : 0 .. clock]

Credentials ==
    [ id : Ids, public_key : {PublicKey(a) : a \in Authenticators}, sign_count : 0 .. MaxCount,
      user_id : drawn, rp_id : {Config.id}, created_at : 0 .. clock, backup_eligible : BOOLEAN,
      backup_state : BackupStates ]

Results ==
    [ credential_id : Ids, new_sign_count : 0 .. MaxCount, backup_eligible : BOOLEAN,
      backup_state : BackupStates ]

Messages ==
    [ type : {"webauthn.create", "webauthn.get"}, authenticator : Authenticators,
      credential_id : Ids, challenge : drawn, sign_count : 0 .. MaxCount,
      backup_state : BackupStates ]

Requests ==
    [ at : {"take", "decode", "store", "verify", "write_back"},
      endpoint : {"register", "authenticate", "passkey"}, session : drawn, response : network,
      challenge : Challenges \union {Unset}, credential : Credentials \union {Unset},
      result : Results \union {Unset} ]

\* Every variable has its type.
Types ==
    /\ clock \in 0 .. MaxClock
    /\ drawn \subseteq Sessions
    /\ counterless \subseteq Authenticators
    /\ registered \subseteq drawn
    /\ raced \subseteq Ids
    /\ counter \in [Authenticators -> 0 .. MaxCount]
    /\ network \subseteq Messages
    /\ accepted \subseteq [session : drawn, response : network]
    /\ worker \in [Workers -> Requests \union {Idle}]
    /\ DOMAIN pending_challenges \subseteq drawn
    /\ pending_challenges \in [DOMAIN pending_challenges -> Challenges]
    /\ DOMAIN credentials \subseteq Ids
    /\ credentials \in [DOMAIN credentials -> Credentials]

\* How far a request has come determines what it holds.
Progress ==
    \A w \in Workers :
        LET r == worker[w]
        IN  /\ Busy(w) => r.endpoint \in Endpoint(r.response)
            /\ HoldsSession(w) => r.challenge \in Challenges /\ r.challenge.bytes = r.session
            /\ r.at = "store" =>
                  /\ r.endpoint = "register"
                  /\ r.credential \in Credentials
                  /\ Registration(r.response, r.credential)
                  /\ r.credential.sign_count = r.response.sign_count
                  /\ r.credential.user_id = r.session
            /\ r.at \in {"verify", "write_back"} =>
                  /\ r.endpoint # "register"
                  /\ r.credential \in Credentials
                  /\ r.credential.id = r.response.credential_id
                  /\ r.response.credential_id \in DOMAIN credentials
            /\ r.at = "write_back" =>
                  /\ r.result \in Results
                  /\ r.result.new_sign_count = r.response.sign_count
                  /\ [session |-> r.session, response |-> r.response] \in accepted
                  /\ PublicKey(r.response.authenticator) = r.credential.public_key

\* A session is gone from the map when it is in use, and when it has been used.
Pending == \A s \in DOMAIN pending_challenges : pending_challenges[s].bytes = s

Registered ==
    /\ \A id \in DOMAIN credentials :
          /\ credentials[id].id = id
          /\ \E m \in network : Registration(m, credentials[id])
    /\ \A s \in registered :
          /\ s \notin DOMAIN pending_challenges
          /\ \A w \in Workers : HoldsSession(w) => worker[w].session # s

Authenticated ==
    \A x \in accepted :
        /\ x.response.challenge = x.session
        /\ x.session \notin DOMAIN pending_challenges
        /\ \A w \in Workers : worker[w].at \in {"decode", "store", "verify"} =>
                                  worker[w].session # x.session

\* Without a race a request's copy of a credential is the only one, and current.
CopiesCurrent ==
    \A v \in Workers, id \in Ids \ raced :
        HoldsCopy(v, id) =>
            /\ worker[v].credential.sign_count = credentials[id].sign_count
            /\ worker[v].credential.public_key = credentials[id].public_key
            /\ \A w \in Workers : HoldsCopy(w, id) => v = w

IInv ==
    /\ Types /\ Progress /\ Pending /\ Registered /\ Authenticated
    /\ SessionTakenOnce /\ AcceptedOnce /\ StoredCountWasAccepted /\ CopiesCurrent

-----------------------------------------------------------------------------
(***************************************************************************)
(* What the messages are, and what it takes to accept one.                 *)
(***************************************************************************)

\* The server accepts a registration only for the session whose challenge it
\* answers, and stores the credential, the count and the session of it.
LEMMA AcceptedRegistration ==
    ASSUME Types, NEW m \in network, m.type = "webauthn.create", NEW challenge, NEW s \in drawn,
           challenge.bytes = s,
           VerifyRegistration(Config, challenge, AttestationResponse(m), clock) = Ok
    PROVE  LET credential == NewCredential(Config, AttestationResponse(m), s, clock)
           IN  /\ credential \in Credentials
               /\ Registration(m, credential)
               /\ credential.sign_count = m.sign_count
               /\ credential.user_id = s
<1> DEFINE response == AttestationResponse(m)
<1>1. /\ response.client_data.challenge = m.challenge
      /\ response.parse = Ok /\ response.attestation = Ok /\ response.auth_data.parse = Ok
  BY DEF AttestationResponse, ClientData, AuthData
<1>2. m.challenge = challenge.bytes
  BY <1>1, RegistrationShows
<1>3. m \in Messages
  BY DEF Types
<1>4. /\ response.auth_data.attested = {[id |-> m.credential_id, aaguid |-> "none",
                                         public_key |-> PublicKey(m.authenticator)]}
      /\ response.auth_data.sign_count = m.sign_count
      /\ response.auth_data.backup_eligible = TRUE
      /\ response.auth_data.backup_state = m.backup_state
  BY DEF AttestationResponse, AuthData
<1> HIDE DEF response
<1>5. NewCredential(Config, response, s, clock) =
        [ id |-> m.credential_id, public_key |-> PublicKey(m.authenticator),
          sign_count |-> m.sign_count, user_id |-> s, rp_id |-> Config.id, created_at |-> clock,
          backup_eligible |-> TRUE, backup_state |-> m.backup_state ]
  <2> DEFINE a == [id |-> m.credential_id, aaguid |-> "none",
                   public_key |-> PublicKey(m.authenticator)]
  <2>1. (CHOOSE c \in response.auth_data.attested : TRUE) = a
    <3>1. response.auth_data.attested = {a}
      BY <1>4
    <3> HIDE DEF a
    <3> QED
      BY <3>1
  <2>2. a.id = m.credential_id /\ a.public_key = PublicKey(m.authenticator)
    OBVIOUS
  <2> HIDE DEF a
  <2> QED
    BY <1>4, <2>1, <2>2 DEF NewCredential
<1>6. clock \in 0 .. clock
  BY BoundsAssumption DEF Types
<1>7. PublicKey(m.authenticator) \in {PublicKey(a) : a \in Authenticators}
  BY <1>3 DEF Messages
<1> HIDE DEF PublicKey
<1> QED
  BY <1>2, <1>3, <1>5, <1>6, <1>7 DEF Credentials, Messages, Registration, response

\* The server accepts an assertion only for the session whose challenge it
\* answers, and with a count greater than that of the copy, or both zero.
LEMMA AcceptedAssertion ==
    ASSUME Types, NEW m \in network, NEW challenge, NEW stored \in Credentials,
           VerifyAuthentication(Config, stored, challenge, AssertionResponse(m), clock) = Ok
    PROVE  LET result == AuthenticationResult(stored, AssertionResponse(m))
           IN  /\ m.challenge = challenge.bytes
               /\ result \in Results
               /\ result.new_sign_count = m.sign_count
               /\ PublicKey(m.authenticator) = stored.public_key
               /\ \/ m.sign_count > stored.sign_count
                  \/ m.sign_count = 0 /\ stored.sign_count = 0
<1> DEFINE response == AssertionResponse(m)
<1>1. /\ response.client_data.challenge = m.challenge
      /\ response.auth_data.parse = Ok
      /\ response.auth_data.sign_count = m.sign_count
      /\ response.auth_data.backup_eligible = TRUE
      /\ response.auth_data.backup_state = m.backup_state
  BY DEF AssertionResponse, ClientData, AuthData
<1> HIDE DEF response
<1>2. /\ response.client_data.challenge = challenge.bytes
      /\ ~SignCountInvalid(stored.sign_count, response.auth_data.sign_count)
      /\ VerifySignature(stored, response)
  BY AuthenticationShows DEF response
<1>3. /\ m.sign_count \in 0 .. MaxCount /\ stored.sign_count \in 0 .. MaxCount
      /\ m.backup_state \in BackupStates
  BY DEF Types, Messages, Credentials
<1>4. \/ m.sign_count > stored.sign_count
      \/ m.sign_count = 0 /\ stored.sign_count = 0
  BY <1>1, <1>2, <1>3, BoundsAssumption DEF SignCountInvalid
<1>5. AuthenticationResult(stored, response) =
        [ credential_id |-> stored.id, new_sign_count |-> m.sign_count,
          backup_eligible |-> TRUE, backup_state |-> m.backup_state ]
  BY <1>1 DEF AuthenticationResult
<1>6. stored.id \in Ids
  BY DEF Credentials
<1>7. PublicKey(m.authenticator) = stored.public_key
  BY <1>2 DEF VerifySignature, Sign, AssertionResponse, response
<1> QED
  BY <1>1, <1>2, <1>3, <1>4, <1>5, <1>6, <1>7 DEF Results, response
-----------------------------------------------------------------------------
(***************************************************************************)
(* What each step of a handler does to the request it serves.              *)
(***************************************************************************)

\* The request of w becomes r, which has come from the same client.
Becomes(w, r) ==
    /\ worker' = [worker EXCEPT ![w] = r]
    /\ r \in Requests
    /\ r.endpoint = worker[w].endpoint
    /\ r.session = worker[w].session
    /\ r.response = worker[w].response

\* What a request in progress is.
LEMMA InProgress ==
    ASSUME Types, NEW w \in Workers, worker[w].at # "idle"
    PROVE  worker[w] \in Requests
BY DEF Types, Idle

\* A request at `at` holds its session and is busy.
LEMMA Locations ==
    ASSUME Types, NEW w \in Workers
    PROVE  /\ Busy(w) <=> worker[w].at # "idle"
           /\ Busy(w) => worker[w] \in Requests
           /\ HoldsSession(w) <=> worker[w].at \in {"decode", "store", "verify", "write_back"}
           /\ HoldsSession(w) => Busy(w)
<1>1. CASE worker[w] = Idle
  BY <1>1 DEF Busy, HoldsSession, Idle
<1>2. CASE worker[w] \in Requests
  <2>1. worker[w].at \in {"take", "decode", "store", "verify", "write_back"}
    BY <1>2 DEF Requests
  <2>2. worker[w] # Idle
    BY <2>1 DEF Idle
  <2> QED
    BY <1>2, <2>1, <2>2 DEF Busy, HoldsSession
<1> QED
  BY <1>1, <1>2 DEF Types

\* The challenge goes from the map to the request, or the request ends.
LEMMA TakeSessionStep ==
    ASSUME Types, NEW w \in Workers, TakeSession(w)
    PROVE  /\ worker[w].at = "take"
           /\ \/ /\ worker[w].session \in DOMAIN pending_challenges
                 /\ pending_challenges' = Without(pending_challenges, worker[w].session)
                 /\ \E r : /\ Becomes(w, r)
                          /\ r.at = "decode"
                          /\ r.challenge = pending_challenges[worker[w].session]
              \/ worker' = [worker EXCEPT ![w] = Idle] /\ UNCHANGED pending_challenges
           /\ UNCHANGED <<surroundings, credentials, history>>
<1>1. worker[w].at = "take" /\ UNCHANGED <<surroundings, credentials, history>>
  BY DEF TakeSession
<1>2. worker[w] \in Requests
  BY <1>1, InProgress
<1>3. CASE worker[w].session \in DOMAIN pending_challenges
  <2> DEFINE r == [worker[w] EXCEPT !.at = "decode",
                                    !.challenge = pending_challenges[worker[w].session]]
  <2>1. worker' = [worker EXCEPT ![w] = r]
    BY <1>3 DEF TakeSession, Types
  <2>2. pending_challenges' = Without(pending_challenges, worker[w].session)
    BY <1>3 DEF TakeSession
  <2>3. pending_challenges[worker[w].session] \in Challenges
    BY <1>3 DEF Types
  <2>4. /\ r \in Requests /\ r.at = "decode"
        /\ r.challenge = pending_challenges[worker[w].session]
        /\ r.endpoint = worker[w].endpoint
        /\ r.session = worker[w].session /\ r.response = worker[w].response
    BY <1>2, <2>3 DEF Requests
  <2> HIDE DEF r
  <2> QED
    BY <1>1, <1>3, <2>1, <2>2, <2>4 DEF Becomes
<1>4. CASE worker[w].session \notin DOMAIN pending_challenges
  BY <1>1, <1>4 DEF TakeSession, Respond
<1> QED
  BY <1>3, <1>4

\* The request comes to hold the credential that its own response describes,
\* and that response answers its session's challenge, or the request ends.
LEMMA CompleteRegistrationStep ==
    ASSUME Types, Progress, NEW w \in Workers, NEW garbled \in BOOLEAN,
           CompleteRegistration(w, garbled)
    PROVE  /\ worker[w].at = "decode"
           /\ \/ \E r : /\ Becomes(w, r)
                       /\ r.at = "store"
                       /\ r.challenge = worker[w].challenge
                       /\ r.endpoint = "register"
                       /\ r.credential \in Credentials
                       /\ Registration(r.response, r.credential)
                       /\ r.credential.sign_count = r.response.sign_count
                       /\ r.credential.user_id = r.session
              \/ worker' = [worker EXCEPT ![w] = Idle]
           /\ UNCHANGED <<surroundings, pending_challenges, credentials, history>>
<1> DEFINE m == worker[w].response
           credential == NewCredential(Config, AttestationResponse(m), worker[w].session, clock)
           ok == VerifyRegistration(Config, worker[w].challenge, AttestationResponse(m), clock) = Ok
<1>1. /\ worker[w].at = "decode" /\ worker[w].endpoint = "register"
      /\ UNCHANGED <<surroundings, pending_challenges, credentials, history>>
  BY DEF CompleteRegistration
<1>2. worker[w] \in Requests
  BY <1>1, InProgress
<1>3. CASE ok /\ ~garbled
  <2> DEFINE r == [worker[w] EXCEPT !.at = "store", !.credential = credential]
  <2>1. worker' = [worker EXCEPT ![w] = r]
    BY <1>3 DEF CompleteRegistration, Types
  <2>2. m.type = "webauthn.create" /\ m \in network /\ worker[w].session \in drawn
    <3>1. Busy(w)
      BY <1>1, Locations
    <3> QED
      BY <1>1, <1>2, <3>1 DEF Progress, Endpoint, Requests
  <2>3. worker[w].challenge.bytes = worker[w].session
    BY <1>1, Locations DEF Progress
  <2>4. /\ credential \in Credentials
        /\ Registration(m, credential)
        /\ credential.sign_count = m.sign_count
        /\ credential.user_id = worker[w].session
    BY <1>3, <2>2, <2>3, AcceptedRegistration
  <2> HIDE DEF credential
  <2>5. /\ r \in Requests /\ r.at = "store" /\ r.challenge = worker[w].challenge
        /\ r.credential = credential /\ r.endpoint = worker[w].endpoint
        /\ r.session = worker[w].session /\ r.response = m
    BY <1>2, <2>4 DEF Requests
  <2> HIDE DEF r
  <2> QED
    BY <1>1, <2>1, <2>4, <2>5 DEF Becomes
<1>4. CASE ~ok \/ garbled
  BY <1>1, <1>4 DEF CompleteRegistration, Respond
<1> QED
  BY <1>3, <1>4

\* The request comes to hold a copy of the stored credential, and whoever holds
\* one already is remembered, or the request ends.
LEMMA FindCredentialStep ==
    ASSUME Types, Registered, NEW w \in Workers, NEW garbled \in BOOLEAN,
           FindCredential(w, garbled)
    PROVE  LET id == worker[w].response.credential_id
           IN  /\ worker[w].at = "decode"
               /\ worker[w].endpoint # "register"
               /\ \/ /\ id \in DOMAIN credentials
                     /\ \E r : /\ Becomes(w, r)
                              /\ r.at = "verify"
                              /\ r.challenge = worker[w].challenge
                              /\ r.credential = credentials[id]
                              /\ r.credential \in Credentials
                              /\ r.credential.id = id
                     /\ raced' = raced \union CopiedBy(Workers \ {w}, id)
                  \/ worker' = [worker EXCEPT ![w] = Idle] /\ UNCHANGED raced
               /\ UNCHANGED <<surroundings, pending_challenges, credentials, registered, accepted>>
<1> DEFINE id == worker[w].response.credential_id
           found == /\ ~garbled
                    /\ worker[w].endpoint = "passkey" =>
                         BeginAuthentication(AssertionResponse(worker[w].response)) = Ok
                    /\ id \in DOMAIN credentials
<1>1. /\ worker[w].at = "decode" /\ worker[w].endpoint # "register"
      /\ UNCHANGED <<surroundings, pending_challenges, credentials, registered, accepted>>
  BY DEF FindCredential
<1>2. worker[w] \in Requests
  BY <1>1, InProgress
<1>3. CASE found
  <2> DEFINE r == [worker[w] EXCEPT !.at = "verify", !.credential = credentials[id]]
  <2>1. /\ worker' = [worker EXCEPT ![w] = r]
        /\ raced' = raced \union CopiedBy(Workers \ {w}, id)
    BY <1>3 DEF FindCredential, Types
  <2>2. credentials[id] \in Credentials /\ credentials[id].id = id
    BY <1>3 DEF Types, Registered
  <2>3. /\ r \in Requests /\ r.at = "verify" /\ r.challenge = worker[w].challenge
        /\ r.credential = credentials[id] /\ r.endpoint = worker[w].endpoint
        /\ r.session = worker[w].session /\ r.response = worker[w].response
    BY <1>2, <2>2 DEF Requests
  <2> HIDE DEF r
  <2> QED
    BY <1>1, <1>3, <2>1, <2>2, <2>3 DEF Becomes
<1>4. CASE ~found
  BY <1>1, <1>4 DEF FindCredential, Respond
<1> QED
  BY <1>3, <1>4

\* The assertion answers its session's challenge, its count is to be written
\* back and is greater than that of the copy or both are zero, or the request
\* ends.
LEMMA CompleteAuthenticationStep ==
    ASSUME Types, Progress, NEW w \in Workers, NEW garbled \in BOOLEAN,
           CompleteAuthentication(w, garbled)
    PROVE  /\ worker[w].at = "verify"
           /\ \/ /\ \E r : /\ Becomes(w, r)
                          /\ r.at = "write_back"
                          /\ r.challenge = worker[w].challenge
                          /\ r.credential = worker[w].credential
                          /\ r.result \in Results
                          /\ r.result.new_sign_count = r.response.sign_count
                          /\ PublicKey(r.response.authenticator) = r.credential.public_key
                 /\ worker[w].response.challenge = worker[w].session
                 /\ \/ worker[w].response.sign_count > worker[w].credential.sign_count
                    \/ /\ worker[w].response.sign_count = 0
                       /\ worker[w].credential.sign_count = 0
                 /\ accepted' = accepted \union {[ session  |-> worker[w].session,
                                                  response |-> worker[w].response ]}
              \/ worker' = [worker EXCEPT ![w] = Idle] /\ UNCHANGED accepted
           /\ UNCHANGED <<surroundings, pending_challenges, credentials, registered, raced>>
<1> DEFINE m == worker[w].response
           stored == worker[w].credential
           result == AuthenticationResult(stored, AssertionResponse(m))
           ok == VerifyAuthentication(Config, stored, worker[w].challenge, AssertionResponse(m),
                                      clock) = Ok
<1>1. /\ worker[w].at = "verify"
      /\ UNCHANGED <<surroundings, pending_challenges, credentials, registered, raced>>
  BY DEF CompleteAuthentication
<1>2. worker[w] \in Requests
  BY <1>1, InProgress
<1>3. CASE ok /\ ~garbled
  <2> DEFINE r == [worker[w] EXCEPT !.at = "write_back", !.result = result]
  <2>1. /\ worker' = [worker EXCEPT ![w] = r]
        /\ accepted' = accepted \union {[session |-> worker[w].session, response |-> m]}
    BY <1>3 DEF CompleteAuthentication, Types
  <2>2. m \in network /\ stored \in Credentials
    BY <1>1, <1>2 DEF Progress, Requests
  <2>3. /\ m.challenge = worker[w].challenge.bytes
        /\ result \in Results
        /\ result.new_sign_count = m.sign_count
        /\ PublicKey(m.authenticator) = stored.public_key
        /\ \/ m.sign_count > stored.sign_count
           \/ m.sign_count = 0 /\ stored.sign_count = 0
    BY <1>3, <2>2, AcceptedAssertion
  <2>4. worker[w].challenge.bytes = worker[w].session
    BY <1>1, Locations DEF Progress
  <2> HIDE DEF result
  <2>5. /\ r \in Requests /\ r.at = "write_back" /\ r.challenge = worker[w].challenge
        /\ r.credential = stored /\ r.result = result /\ r.endpoint = worker[w].endpoint
        /\ r.session = worker[w].session /\ r.response = m
    BY <1>2, <2>3 DEF Requests
  <2> HIDE DEF r
  <2> QED
    BY <1>1, <2>1, <2>3, <2>4, <2>5 DEF Becomes
<1>4. CASE ~ok \/ garbled
  BY <1>1, <1>4 DEF CompleteAuthentication, Respond
<1> QED
  BY <1>3, <1>4
-----------------------------------------------------------------------------
(***************************************************************************)
(* The invariant is inductive.                                             *)
(***************************************************************************)

\* A handler's step changes no set that a variable's type depends on.
LEMMA SameTypes ==
    ASSUME UNCHANGED surroundings
    PROVE  /\ UNCHANGED <<clock, drawn, counterless, counter, network>>
           /\ Challenges' = Challenges /\ Credentials' = Credentials /\ Results' = Results
           /\ Messages' = Messages /\ Requests' = Requests
<1>1. UNCHANGED <<clock, drawn, counterless, counter, network>>
  BY DEF surroundings, clientVars
<1>2. Challenges' = Challenges /\ Credentials' = Credentials /\ Results' = Results
  BY <1>1 DEF Challenges, Credentials, Results
<1> QED
  BY <1>1, <1>2 DEF Messages, Requests

\* A handler that gives its request up changes nothing that matters to others.
LEMMA RefusalKeeps ==
    ASSUME IInv, NEW w \in Workers, worker' = [worker EXCEPT ![w] = Idle],
           UNCHANGED <<surroundings, pending_challenges, credentials, history>>
    PROVE  IInv'
<1> USE DEF IInv
<1>1. /\ UNCHANGED <<clock, drawn, counterless, counter, network>>
      /\ UNCHANGED <<pending_challenges, credentials, registered, accepted, raced>>
      /\ Challenges' = Challenges /\ Credentials' = Credentials /\ Results' = Results
      /\ Messages' = Messages /\ Requests' = Requests
  BY SameTypes DEF history
<1>2. /\ worker'[w] = Idle
      /\ \A v \in Workers : worker'[v] = worker[v] \/ worker'[v] = Idle
  BY DEF Types
<1>3. Types'
  BY <1>1 DEF Types
<1>4. Pending' /\ AcceptedOnce' /\ StoredCountWasAccepted'
  BY <1>1 DEF Pending, AcceptedOnce, StoredCountWasAccepted
<1>5. Idle.at = "idle"
  BY DEF Idle
<1>6. Progress'
  BY <1>1, <1>2, <1>5 DEF Progress, Busy, HoldsSession
<1>7. Registered' /\ Authenticated'
  BY <1>1, <1>2, <1>5 DEF Registered, Authenticated, HoldsSession
<1>8. SessionTakenOnce'
  BY <1>1, <1>2, <1>5 DEF SessionTakenOnce, HoldsSession
<1>9. CopiesCurrent'
  BY <1>1, <1>2, <1>5 DEF CopiesCurrent, HoldsCopy
<1> QED
  BY <1>3, <1>4, <1>6, <1>7, <1>8, <1>9

\* Whoever takes a session is the only one to hold it, and the first.
LEMMA TakeSessionKeeps ==
    ASSUME IInv, NEW w \in Workers, TakeSession(w)
    PROVE  IInv'
<1> USE DEF IInv
<1> DEFINE s == worker[w].session
<1>1. CASE worker' = [worker EXCEPT ![w] = Idle] /\ UNCHANGED pending_challenges
  BY <1>1, TakeSessionStep, RefusalKeeps
<1>2. CASE /\ s \in DOMAIN pending_challenges
           /\ pending_challenges' = Without(pending_challenges, s)
           /\ \E r : Becomes(w, r) /\ r.at = "decode" /\ r.challenge = pending_challenges[s]
  <2>1. PICK r : Becomes(w, r) /\ r.at = "decode" /\ r.challenge = pending_challenges[s]
    BY <1>2
  <2>2. /\ UNCHANGED <<clock, drawn, counterless, counter, network>>
        /\ UNCHANGED <<credentials, registered, accepted, raced>>
        /\ Challenges' = Challenges /\ Credentials' = Credentials /\ Results' = Results
        /\ Messages' = Messages /\ Requests' = Requests
    BY SameTypes, TakeSessionStep DEF history
  <2>3. /\ DOMAIN pending_challenges' = DOMAIN pending_challenges \ {s}
        /\ \A t \in DOMAIN pending_challenges' : pending_challenges'[t] = pending_challenges[t]
        /\ pending_challenges' \in [DOMAIN pending_challenges' -> Challenges]
    BY <1>2 DEF Without, Restrict, Types
  <2>4. /\ worker'[w] = r
        /\ \A v \in Workers : v # w => worker'[v] = worker[v]
        /\ worker' \in [Workers -> Requests \union {Idle}]
    BY <2>1 DEF Becomes, Types
  <2>5. /\ r.endpoint = worker[w].endpoint /\ r.session = s /\ r.response = worker[w].response
        /\ r.challenge \in Challenges /\ r.challenge.bytes = s
        /\ Busy(w)
    BY <1>2, <2>1, TakeSessionStep, Locations DEF Becomes, Types, Pending
  <2>6. Types'
    BY <2>2, <2>3, <2>4 DEF Types
  <2>7. Pending' /\ AcceptedOnce' /\ StoredCountWasAccepted'
    BY <2>2, <2>3 DEF Pending, AcceptedOnce, StoredCountWasAccepted
  <2>8. Progress'
    BY <2>1, <2>2, <2>4, <2>5 DEF Progress, Busy, HoldsSession
  <2>9. Registered'
    BY <1>2, <2>2, <2>3, <2>4, <2>5 DEF Registered, HoldsSession
  <2>10. Authenticated'
    BY <1>2, <2>2, <2>3, <2>4, <2>5 DEF Authenticated
  <2>11. SessionTakenOnce'
    BY <1>2, <2>2, <2>3, <2>4, <2>5 DEF SessionTakenOnce, HoldsSession
  <2>12. CopiesCurrent'
    BY <2>1, <2>2, <2>4 DEF CopiesCurrent, HoldsCopy
  <2> QED
    BY <2>6, <2>7, <2>8, <2>9, <2>10, <2>11, <2>12
<1> QED
  BY <1>1, <1>2, TakeSessionStep

\* An accepted registration answers the challenge of the session it was
\* delivered to, and the credential is the one it makes.
LEMMA CompleteRegistrationKeeps ==
    ASSUME IInv, NEW w \in Workers, NEW garbled \in BOOLEAN, CompleteRegistration(w, garbled)
    PROVE  IInv'
<1> USE DEF IInv
<1>1. CASE worker' = [worker EXCEPT ![w] = Idle]
  BY <1>1, CompleteRegistrationStep, RefusalKeeps
<1>2. ASSUME NEW r,
             /\ Becomes(w, r) /\ r.at = "store" /\ r.challenge = worker[w].challenge
             /\ r.endpoint = "register"
             /\ r.credential \in Credentials
             /\ Registration(r.response, r.credential)
             /\ r.credential.sign_count = r.response.sign_count
             /\ r.credential.user_id = r.session
      PROVE  IInv'
  <2>1. /\ worker[w].at = "decode"
        /\ UNCHANGED <<clock, drawn, counterless, counter, network>>
        /\ UNCHANGED <<pending_challenges, credentials, registered, accepted, raced>>
        /\ Challenges' = Challenges /\ Credentials' = Credentials /\ Results' = Results
        /\ Messages' = Messages /\ Requests' = Requests
    BY SameTypes, CompleteRegistrationStep DEF history
  <2>2. /\ worker'[w] = r
        /\ \A v \in Workers : v # w => worker'[v] = worker[v]
        /\ worker' \in [Workers -> Requests \union {Idle}]
    BY <1>2 DEF Becomes, Types
  <2>3. /\ r.endpoint = worker[w].endpoint /\ r.session = worker[w].session
        /\ r.response = worker[w].response
        /\ Busy(w) /\ HoldsSession(w)
    BY <1>2, <2>1, Locations DEF Becomes
  <2>4. Types'
    BY <2>1, <2>2 DEF Types
  <2>5. Pending' /\ AcceptedOnce' /\ StoredCountWasAccepted'
    BY <2>1 DEF Pending, AcceptedOnce, StoredCountWasAccepted
  <2>6. Progress'
    BY <1>2, <2>1, <2>2, <2>3 DEF Progress, Busy, HoldsSession
  <2>7. Registered' /\ Authenticated'
    BY <1>2, <2>1, <2>2, <2>3 DEF Registered, Authenticated, HoldsSession
  <2>8. SessionTakenOnce'
    BY <2>1, <2>2, <2>3 DEF SessionTakenOnce, HoldsSession
  <2>9. CopiesCurrent'
    BY <1>2, <2>1, <2>2 DEF CopiesCurrent, HoldsCopy
  <2> QED
    BY <2>4, <2>5, <2>6, <2>7, <2>8, <2>9
<1> QED
  BY <1>1, <1>2, CompleteRegistrationStep

\* A copy taken while nobody else holds one is the only one; otherwise the
\* credential counts as raced.
LEMMA FindCredentialKeeps ==
    ASSUME IInv, NEW w \in Workers, NEW garbled \in BOOLEAN, FindCredential(w, garbled)
    PROVE  IInv'
<1> USE DEF IInv
<1> DEFINE id == worker[w].response.credential_id
<1>1. CASE worker' = [worker EXCEPT ![w] = Idle] /\ UNCHANGED raced
  BY <1>1, FindCredentialStep, RefusalKeeps DEF history
<1>2. ASSUME NEW r,
             /\ Becomes(w, r) /\ r.at = "verify" /\ r.challenge = worker[w].challenge
             /\ r.credential = credentials[id] /\ r.credential \in Credentials
             /\ r.credential.id = id,
             id \in DOMAIN credentials,
             raced' = raced \union CopiedBy(Workers \ {w}, id)
      PROVE  IInv'
  <2>1. /\ worker[w].at = "decode" /\ worker[w].endpoint # "register"
        /\ UNCHANGED <<clock, drawn, counterless, counter, network>>
        /\ UNCHANGED <<pending_challenges, credentials, registered, accepted>>
        /\ Challenges' = Challenges /\ Credentials' = Credentials /\ Results' = Results
        /\ Messages' = Messages /\ Requests' = Requests
    BY SameTypes, FindCredentialStep
  <2>2. /\ worker'[w] = r
        /\ \A v \in Workers : v # w => worker'[v] = worker[v]
        /\ worker' \in [Workers -> Requests \union {Idle}]
    BY <1>2 DEF Becomes, Types
  <2>3. /\ r.endpoint = worker[w].endpoint /\ r.session = worker[w].session
        /\ r.response = worker[w].response
        /\ Busy(w) /\ HoldsSession(w)
    BY <1>2, <2>1, Locations DEF Becomes
  <2>4. Types'
    <3>1. CopiedBy(Workers \ {w}, id) \subseteq {id} /\ id \in Ids
      BY <1>2 DEF CopiedBy, Types
    <3> HIDE DEF id
    <3> QED
      BY <1>2, <2>1, <2>2, <3>1 DEF Types
  <2>5. Pending' /\ AcceptedOnce' /\ StoredCountWasAccepted'
    <3>1. raced \subseteq raced'
      BY <1>2
    <3> QED
      BY <2>1, <3>1 DEF Pending, AcceptedOnce, StoredCountWasAccepted
  <2>6. Progress'
    BY <1>2, <2>1, <2>2, <2>3 DEF Progress, Busy, HoldsSession
  <2>7. Registered' /\ Authenticated'
    BY <1>2, <2>1, <2>2, <2>3 DEF Registered, Authenticated, HoldsSession
  <2>8. SessionTakenOnce'
    BY <2>1, <2>2, <2>3 DEF SessionTakenOnce, HoldsSession
  <2>9. CopiesCurrent'
    <3> SUFFICES ASSUME NEW v \in Workers, NEW i \in Ids, i \notin raced', HoldsCopy(v, i)'
                 PROVE  /\ worker'[v].credential.sign_count = credentials[i].sign_count
                        /\ worker'[v].credential.public_key = credentials[i].public_key
                        /\ \A u \in Workers : HoldsCopy(u, i)' => v = u
      BY <2>1 DEF CopiesCurrent
    <3>1. i \notin raced
      BY <1>2
    <3>2. HoldsCopy(w, i)' <=> i = id
      BY <1>2, <2>2, <2>3 DEF HoldsCopy
    <3>3. \A u \in Workers : u # w => (HoldsCopy(u, i)' <=> HoldsCopy(u, i))
      BY <2>2 DEF HoldsCopy
    <3>4. worker'[w].credential = credentials[id]
      BY <1>2, <2>2
    <3>5. i = id => \A u \in Workers : HoldsCopy(u, i) => u = w
      BY <1>2 DEF CopiedBy
    <3> HIDE DEF id
    <3>6. CASE v = w
      BY <3>2, <3>3, <3>4, <3>5, <3>6
    <3>7. CASE v # w
      BY <2>2, <3>1, <3>2, <3>3, <3>5, <3>7 DEF CopiesCurrent
    <3> QED
      BY <3>6, <3>7
  <2> QED
    BY <2>4, <2>5, <2>6, <2>7, <2>8, <2>9
<1> QED
  BY <1>1, <1>2, FindCredentialStep

\* An accepted assertion answers the challenge of its session, which nobody else
\* holds: neither the session nor the response has been accepted before.
LEMMA CompleteAuthenticationKeeps ==
    ASSUME IInv, NEW w \in Workers, NEW garbled \in BOOLEAN, CompleteAuthentication(w, garbled)
    PROVE  IInv'
<1> USE DEF IInv
<1> DEFINE x == [session |-> worker[w].session, response |-> worker[w].response]
<1>1. CASE worker' = [worker EXCEPT ![w] = Idle] /\ UNCHANGED accepted
  BY <1>1, CompleteAuthenticationStep, RefusalKeeps DEF history
<1>2. ASSUME NEW r,
             /\ Becomes(w, r) /\ r.at = "write_back" /\ r.challenge = worker[w].challenge
             /\ r.credential = worker[w].credential /\ r.result \in Results
             /\ r.result.new_sign_count = r.response.sign_count
             /\ PublicKey(r.response.authenticator) = r.credential.public_key,
             worker[w].response.challenge = worker[w].session,
             accepted' = accepted \union {x}
      PROVE  IInv'
  <2>1. /\ worker[w].at = "verify"
        /\ UNCHANGED <<clock, drawn, counterless, counter, network>>
        /\ UNCHANGED <<pending_challenges, credentials, registered, raced>>
        /\ Challenges' = Challenges /\ Credentials' = Credentials /\ Results' = Results
        /\ Messages' = Messages /\ Requests' = Requests
    BY SameTypes, CompleteAuthenticationStep
  <2>2. /\ worker'[w] = r
        /\ \A v \in Workers : v # w => worker'[v] = worker[v]
        /\ worker' \in [Workers -> Requests \union {Idle}]
    BY <1>2 DEF Becomes, Types
  <2>3. /\ r.endpoint = worker[w].endpoint /\ r.session = worker[w].session
        /\ r.response = worker[w].response
        /\ Busy(w) /\ HoldsSession(w) /\ worker[w] \in Requests
    BY <1>2, <2>1, Locations DEF Becomes
  <2>4. x \in [session : drawn, response : network]
    BY <2>3 DEF Requests
  <2>5. Types'
    BY <1>2, <2>1, <2>2, <2>4 DEF Types
  <2>6. Pending' /\ StoredCountWasAccepted'
    BY <1>2, <2>1 DEF Pending, StoredCountWasAccepted
  <2>7. Progress'
    BY <1>2, <2>1, <2>2, <2>3 DEF Progress, Busy, HoldsSession
  <2>8. Registered'
    BY <1>2, <2>1, <2>2, <2>3 DEF Registered, HoldsSession
  <2>9. SessionTakenOnce'
    BY <2>1, <2>2, <2>3 DEF SessionTakenOnce, HoldsSession
  <2>10. Authenticated'
    <3>1. x.session = worker[w].session /\ x.response = worker[w].response
      OBVIOUS
    <3> HIDE DEF x
    <3>2. \A v \in Workers : worker'[v].at \in {"decode", "store", "verify"} =>
            v # w /\ HoldsSession(v) /\ worker'[v] = worker[v]
      BY <1>2, <2>2 DEF HoldsSession
    <3> QED
      BY <1>2, <2>1, <2>3, <3>1, <3>2 DEF Authenticated, SessionTakenOnce
  <2>11. AcceptedOnce'
    <3>1. x.session = worker[w].session /\ x.response = worker[w].response
      OBVIOUS
    <3> HIDE DEF x
    <3>2. \A y \in accepted : y.session # x.session /\ y.response # x.response
      BY <1>2, <2>1, <3>1 DEF Authenticated
    <3> QED
      BY <1>2, <3>2 DEF AcceptedOnce
  <2>12. CopiesCurrent'
    BY <1>2, <2>1, <2>2, <2>3 DEF CopiesCurrent, HoldsCopy
  <2> QED
    BY <2>5, <2>6, <2>7, <2>8, <2>9, <2>10, <2>11, <2>12
<1> QED
  BY <1>1, <1>2, CompleteAuthenticationStep

\* The request holds the credential that its response registers, for a session
\* that no other request holds.
LEMMA StoreCredentialStep ==
    ASSUME IInv, NEW w \in Workers, StoreCredential(w)
    PROVE  LET c == worker[w].credential
           IN  /\ worker[w].at = "store"
               /\ c \in Credentials
               /\ worker[w].response \in network
               /\ Registration(worker[w].response, c)
               /\ c.sign_count = worker[w].response.sign_count
               /\ c.user_id = worker[w].session
               /\ c.user_id \notin registered
               /\ HoldsSession(w)
               /\ credentials' = With(credentials, c.id, c)
               /\ registered' = registered \union {c.user_id}
               /\ raced' = raced \union CopiedBy(Workers, c.id)
               /\ worker' = [worker EXCEPT ![w] = Idle]
               /\ UNCHANGED <<surroundings, pending_challenges, accepted>>
<1> USE DEF IInv
<1> DEFINE c == worker[w].credential
<1>1. /\ worker[w].at = "store"
      /\ credentials' = With(credentials, c.id, c)
      /\ registered' = registered \union {worker[w].session}
      /\ raced' = raced \union CopiedBy(Workers, c.id)
      /\ worker' = [worker EXCEPT ![w] = Idle]
      /\ UNCHANGED <<surroundings, pending_challenges, accepted>>
  BY DEF StoreCredential, StoreAs, Respond
<1>2. HoldsSession(w) /\ worker[w].response \in network
  BY <1>1, Locations DEF Requests
<1>3. /\ c \in Credentials
      /\ Registration(worker[w].response, c)
      /\ c.sign_count = worker[w].response.sign_count
      /\ c.user_id = worker[w].session
  BY <1>1 DEF Progress
<1>4. worker[w].session \notin registered
  BY <1>2 DEF Registered
<1> QED
  BY <1>1, <1>2, <1>3, <1>4

\* The session of a new credential is used up: only this request held it.  What
\* another request has copied of an entry of the same id counts as raced.
LEMMA StoreCredentialKeeps ==
    ASSUME IInv, NEW w \in Workers, StoreCredential(w)
    PROVE  IInv'
<1> USE DEF IInv
<1>1. PICK c : c = worker[w].credential
  OBVIOUS
<1>2. PICK m : m = worker[w].response
  OBVIOUS
<1>3. /\ credentials' = With(credentials, c.id, c)
      /\ registered' = registered \union {c.user_id}
      /\ raced' = raced \union CopiedBy(Workers, c.id)
      /\ UNCHANGED <<clock, drawn, counterless, counter, network>>
      /\ UNCHANGED <<pending_challenges, accepted>>
      /\ Challenges' = Challenges /\ Credentials' = Credentials /\ Results' = Results
      /\ Messages' = Messages /\ Requests' = Requests
  BY <1>1, StoreCredentialStep, SameTypes
<1>4. /\ DOMAIN credentials' = DOMAIN credentials \union {c.id}
      /\ credentials'[c.id] = c
      /\ \A id \in DOMAIN credentials : id # c.id => credentials'[id] = credentials[id]
      /\ credentials' = [id \in DOMAIN credentials' |-> credentials'[id]]
  BY <1>3 DEF With
<1>5. /\ worker'[w] = Idle
      /\ \A v \in Workers : v # w => worker'[v] = worker[v]
      /\ worker' \in [Workers -> Requests \union {Idle}]
  BY StoreCredentialStep DEF Types
<1>6. /\ HoldsSession(w)
      /\ c \in Credentials
      /\ m \in network
      /\ Registration(m, c)
      /\ c.sign_count = m.sign_count
      /\ c.user_id = worker[w].session
  BY <1>1, <1>2, StoreCredentialStep
<1>7. c.id \in Ids /\ c.user_id \in drawn
  BY <1>6 DEF Credentials
<1>8. Idle.at = "idle"
  BY DEF Idle
<1>9. CopiedBy(Workers, c.id) \subseteq {c.id}
  BY DEF CopiedBy
<1>10. Types'
  <2>1. credentials' \in [DOMAIN credentials' -> Credentials]
    <3>1. \A id \in DOMAIN credentials : credentials[id] \in Credentials
      BY DEF Types
    <3>2. \A id \in DOMAIN credentials' : credentials'[id] \in Credentials
      BY <1>4, <1>6, <3>1
    <3> QED
      BY <1>4, <3>2
  <2> QED
    BY <1>3, <1>4, <1>5, <1>7, <1>9, <2>1 DEF Types
<1>11. Pending' /\ AcceptedOnce'
  BY <1>3 DEF Pending, AcceptedOnce
<1>12. Progress'
  BY <1>3, <1>4, <1>5, <1>8 DEF Progress, Busy, HoldsSession
<1>13. Registered'
  <2>1. \A id \in DOMAIN credentials' :
          /\ credentials'[id].id = id
          /\ \E n \in network : Registration(n, credentials'[id])
    BY <1>4, <1>6 DEF Registered
  <2>2. worker[w].session \notin DOMAIN pending_challenges
    BY <1>6 DEF SessionTakenOnce
  <2>3. \A v \in Workers : HoldsSession(v)' =>
          HoldsSession(v) /\ v # w /\ worker'[v] = worker[v]
    BY <1>5, <1>8 DEF HoldsSession
  <2>4. \A v \in Workers : HoldsSession(v)' => worker'[v].session # c.user_id
    BY <1>6, <2>3 DEF SessionTakenOnce
  <2> QED
    BY <1>3, <1>6, <2>1, <2>2, <2>3, <2>4 DEF Registered
<1>14. Authenticated'
  BY <1>3, <1>5, <1>8 DEF Authenticated
<1>15. SessionTakenOnce'
  BY <1>3, <1>5, <1>8 DEF SessionTakenOnce, HoldsSession
<1>16. StoredCountWasAccepted'
  <2>1. raced \subseteq raced'
    BY <1>3
  <2> QED
    BY <1>3, <1>4, <1>6, <2>1 DEF StoredCountWasAccepted
<1>17. CopiesCurrent'
  <2>1. \A v \in Workers, id \in Ids :
          HoldsCopy(v, id)' => HoldsCopy(v, id) /\ worker'[v] = worker[v] /\ id \in DOMAIN credentials
    BY <1>5, <1>8 DEF HoldsCopy, Progress
  <2>2. \A v \in Workers, id \in Ids \ raced' : HoldsCopy(v, id)' => id # c.id /\ id \notin raced
    BY <1>3, <2>1 DEF CopiedBy
  <2> QED
    BY <1>4, <2>1, <2>2 DEF CopiesCurrent
<1> QED
  BY <1>10, <1>11, <1>12, <1>13, <1>14, <1>15, <1>16, <1>17

\* The count written back is that of the response, and nothing else is written.
LEMMA WriteBackStep ==
    ASSUME IInv, NEW w \in Workers, WriteBack(w)
    PROVE  LET m  == worker[w].response
               id == m.credential_id
           IN  /\ worker[w].at = "write_back"
               /\ id \in DOMAIN credentials
               /\ m \in network
               /\ worker[w].result.new_sign_count = m.sign_count
               /\ [session |-> worker[w].session, response |-> m] \in accepted
               /\ DOMAIN credentials' = DOMAIN credentials
               /\ \A i \in DOMAIN credentials : i # id => credentials'[i] = credentials[i]
               /\ credentials'[id].sign_count = m.sign_count
               /\ \A field \in DOMAIN credentials[id] :
                     field # "sign_count" => credentials'[id][field] = credentials[id][field]
               /\ credentials' \in [DOMAIN credentials -> Credentials]
               /\ worker' = [worker EXCEPT ![w] = Idle]
               /\ UNCHANGED <<surroundings, pending_challenges, history>>
<1> USE DEF IInv
<1>1. worker[w].at = "write_back"
  BY DEF WriteBack
<1>2. PICK m : m = worker[w].response
  OBVIOUS
<1>3. /\ worker[w] \in Requests /\ m.credential_id \in DOMAIN credentials
      /\ worker[w].result.new_sign_count = m.sign_count
      /\ [session |-> worker[w].session, response |-> m] \in accepted
      /\ m \in network
  BY <1>1, <1>2, Locations DEF Progress, Requests
<1>4. m.sign_count \in 0 .. MaxCount
  BY <1>3 DEF Types, Messages
<1>5. credentials' = [c \in DOMAIN credentials |->
                        IF c = m.credential_id
                        THEN [credentials[c] EXCEPT !.sign_count = m.sign_count]
                        ELSE credentials[c]]
  BY <1>2, <1>3 DEF WriteBack
<1>6. \A c \in DOMAIN credentials : credentials[c] \in Credentials
  BY DEF Types
<1>7. \A c \in DOMAIN credentials : [credentials[c] EXCEPT !.sign_count = m.sign_count] \in Credentials
  BY <1>4, <1>6 DEF Credentials
<1>8. \A c \in DOMAIN credentials :
        LET d == [credentials[c] EXCEPT !.sign_count = m.sign_count]
        IN  /\ d.sign_count = m.sign_count
            /\ \A field \in DOMAIN credentials[c] : field # "sign_count" => d[field] = credentials[c][field]
  BY <1>6 DEF Credentials
<1>9. /\ DOMAIN credentials' = DOMAIN credentials
      /\ credentials' \in [DOMAIN credentials -> Credentials]
      /\ credentials'[m.credential_id] =
            [credentials[m.credential_id] EXCEPT !.sign_count = m.sign_count]
      /\ \A i \in DOMAIN credentials : i # m.credential_id => credentials'[i] = credentials[i]
  BY <1>3, <1>5, <1>6, <1>7
<1>10. worker' = [worker EXCEPT ![w] = Idle]
       /\ UNCHANGED <<surroundings, pending_challenges, history>>
  BY DEF WriteBack, Respond
<1> QED
  BY <1>1, <1>2, <1>3, <1>8, <1>9, <1>10

\* The assertion whose count is written back has been accepted, and whoever else
\* holds a copy of the credential has raced with it.
LEMMA WriteBackKeeps ==
    ASSUME IInv, NEW w \in Workers, WriteBack(w)
    PROVE  IInv'
<1> USE DEF IInv
<1>1. PICK m : m = worker[w].response
  OBVIOUS
<1>2. /\ worker[w].at = "write_back"
      /\ m.credential_id \in DOMAIN credentials
      /\ m \in network
      /\ [session |-> worker[w].session, response |-> m] \in accepted
      /\ UNCHANGED <<clock, drawn, counterless, counter, network>>
      /\ UNCHANGED <<pending_challenges, registered, accepted, raced>>
      /\ Challenges' = Challenges /\ Credentials' = Credentials /\ Results' = Results
      /\ Messages' = Messages /\ Requests' = Requests
  BY <1>1, WriteBackStep, SameTypes DEF history
<1>3. /\ DOMAIN credentials' = DOMAIN credentials
      /\ \A i \in DOMAIN credentials : i # m.credential_id => credentials'[i] = credentials[i]
      /\ credentials'[m.credential_id].sign_count = m.sign_count
      /\ credentials' \in [DOMAIN credentials' -> Credentials]
  BY <1>1, WriteBackStep
<1>4. \A i \in DOMAIN credentials : /\ credentials'[i].id = credentials[i].id
                                    /\ credentials'[i].user_id = credentials[i].user_id
                                    /\ credentials'[i].public_key = credentials[i].public_key
  <2>1. \A i \in DOMAIN credentials : {"id", "user_id", "public_key"} \subseteq DOMAIN credentials[i]
    BY DEF Types, Credentials
  <2> QED
    BY <1>1, <1>3, <2>1, WriteBackStep
<1>5. /\ worker'[w] = Idle
      /\ \A v \in Workers : v # w => worker'[v] = worker[v]
      /\ worker' \in [Workers -> Requests \union {Idle}]
  BY WriteBackStep DEF Types
<1>6. Idle.at = "idle"
  BY DEF Idle
<1>7. Types'
  BY <1>2, <1>3, <1>5 DEF Types
<1>8. Pending' /\ AcceptedOnce'
  BY <1>2 DEF Pending, AcceptedOnce
<1>9. Progress'
  BY <1>2, <1>3, <1>5, <1>6 DEF Progress, Busy, HoldsSession
<1>10. Registered'
  <2>1. \A i \in DOMAIN credentials, n \in network :
          Registration(n, credentials[i]) => Registration(n, credentials'[i])
    BY <1>4 DEF Registration
  <2>2. \A v \in Workers : HoldsSession(v)' => HoldsSession(v) /\ worker'[v] = worker[v]
    BY <1>5, <1>6 DEF HoldsSession
  <2> QED
    BY <1>2, <1>3, <1>4, <2>1, <2>2 DEF Registered
<1>11. Authenticated'
  BY <1>2, <1>5, <1>6 DEF Authenticated
<1>12. SessionTakenOnce'
  BY <1>2, <1>5, <1>6 DEF SessionTakenOnce, HoldsSession
<1>13. HoldsCopy(w, m.credential_id) /\ m.credential_id \in Ids
  BY <1>1, <1>2 DEF HoldsCopy, Types
<1>14. StoredCountWasAccepted'
  <2> SUFFICES ASSUME NEW id \in DOMAIN credentials
               PROVE  \/ \E n \in network : /\ Registration(n, credentials'[id])
                                            /\ n.sign_count = credentials'[id].sign_count
                      \/ \E x \in accepted :
                            /\ x.response.credential_id = id
                            /\ x.response.sign_count = credentials'[id].sign_count
                            /\ id \notin raced => PublicKey(x.response.authenticator)
                                                    = credentials'[id].public_key
    BY <1>2, <1>3 DEF StoredCountWasAccepted
  <2>1. CASE id = m.credential_id
    <3>1. PICK x \in accepted : x.response = m
      BY <1>2
    <3>2. x.response.sign_count = credentials'[id].sign_count
      BY <1>3, <2>1, <3>1
    <3>3. PublicKey(m.authenticator) = worker[w].credential.public_key
      BY <1>1, <1>2 DEF Progress
    <3>4. id \notin raced => worker[w].credential.public_key = credentials[id].public_key
      BY <1>13, <2>1 DEF CopiesCurrent
    <3> QED
      BY <1>4, <2>1, <3>1, <3>2, <3>3, <3>4
  <2>2. CASE id # m.credential_id
    BY <1>3, <2>2 DEF StoredCountWasAccepted
  <2> QED
    BY <2>1, <2>2
<1>15. CopiesCurrent'
  <2>1. \A v \in Workers, id \in Ids :
          HoldsCopy(v, id)' => HoldsCopy(v, id) /\ worker'[v] = worker[v] /\ v # w
    BY <1>5, <1>6 DEF HoldsCopy
  <2>2. \A v \in Workers, id \in Ids : HoldsCopy(v, id) => id \in DOMAIN credentials
    BY DEF HoldsCopy, Progress
  <2> QED
    BY <1>2, <1>3, <1>4, <1>13, <2>1, <2>2 DEF CopiesCurrent
<1> QED
  BY <1>7, <1>8, <1>9, <1>10, <1>11, <1>12, <1>14, <1>15

-----------------------------------------------------------------------------
\* What has a type keeps it while sessions, credentials and messages are added
\* and the clock runs.
LEMMA TypesGrow ==
    ASSUME clock \in Nat, clock' \in Nat, clock <= clock',
           drawn \subseteq drawn', network \subseteq network'
    PROVE  /\ Challenges \subseteq Challenges'
           /\ Credentials \subseteq Credentials'
           /\ Results \subseteq Results'
           /\ Messages \subseteq Messages'
           /\ Requests \subseteq Requests'
<1>1. 0 .. clock \subseteq 0 .. clock'
  OBVIOUS
<1>2. Challenges \subseteq Challenges'
  BY <1>1 DEF Challenges
<1>3. Credentials \subseteq Credentials'
  BY <1>1 DEF Credentials
<1>4. Results \subseteq Results' /\ Messages \subseteq Messages'
  BY DEF Results, Messages
<1>5. Requests \subseteq Requests'
  BY <1>2, <1>3, <1>4 DEF Requests
<1> QED
  BY <1>2, <1>3, <1>4, <1>5

\* Whatever happens outside the handlers, and in a `begin` handler: a session is
\* opened under an id that nothing has yet.
LEMMA GrowthKeeps ==
    ASSUME IInv,
           clock' \in 0 .. MaxClock, clock <= clock',
           drawn \subseteq drawn', drawn' \subseteq Sessions,
           network \subseteq network', network' \subseteq Messages',
           counter' \in [Authenticators -> 0 .. MaxCount],
           UNCHANGED <<counterless, credentials, worker, registered, accepted, raced>>,
           pending_challenges' \in [DOMAIN pending_challenges' -> Challenges'],
           \A s \in DOMAIN pending_challenges' :
              \/ s \in DOMAIN pending_challenges /\ pending_challenges'[s] = pending_challenges[s]
              \/ s \in drawn' \ drawn /\ pending_challenges'[s].bytes = s
    PROVE  IInv'
<1> USE DEF IInv
<1>1. /\ Challenges \subseteq Challenges' /\ Credentials \subseteq Credentials'
      /\ Results \subseteq Results' /\ Requests \subseteq Requests'
  BY BoundsAssumption, TypesGrow DEF Types
<1>2. Types'
  BY <1>1 DEF Types
<1>3. Pending'
  BY DEF Pending
<1>4. AcceptedOnce' /\ StoredCountWasAccepted' /\ CopiesCurrent'
  BY DEF AcceptedOnce, StoredCountWasAccepted, CopiesCurrent, HoldsCopy
<1>5. Progress'
  BY <1>1 DEF Progress, Busy, HoldsSession
<1>6. \A s \in drawn : s \in DOMAIN pending_challenges' => s \in DOMAIN pending_challenges
  OBVIOUS
<1>7. \A w \in Workers : HoldsSession(w) => worker[w].session \in drawn
  BY Locations DEF Requests
<1>8. registered \subseteq drawn
  BY DEF Types
<1>9. Registered'
  BY <1>6, <1>8 DEF Registered, HoldsSession
<1>10. Authenticated'
  BY <1>6 DEF Authenticated, Types
<1>11. SessionTakenOnce'
  BY <1>6, <1>7 DEF SessionTakenOnce, HoldsSession
<1> QED
  BY <1>2, <1>3, <1>4, <1>5, <1>9, <1>10, <1>11

\* Nothing but the age of challenges depends on the clock.
LEMMA TickKeeps ==
    ASSUME IInv, Tick
    PROVE  IInv'
<1> USE DEF IInv
<1>1. /\ clock' = clock + 1 /\ clock < MaxClock
      /\ UNCHANGED <<drawn, pending_challenges, credentials, worker, registered, accepted, raced>>
      /\ UNCHANGED <<counterless, counter, network>>
  BY DEF Tick, serverVars, clientVars, history
<1>2. clock \in Nat /\ clock' \in 0 .. MaxClock /\ clock <= clock'
  BY <1>1, BoundsAssumption DEF Types
<1>3. Challenges \subseteq Challenges' /\ Messages \subseteq Messages'
  BY <1>1, <1>2, TypesGrow
<1>4. pending_challenges' \in [DOMAIN pending_challenges' -> Challenges']
  BY <1>1, <1>3 DEF Types
<1> QED
  BY <1>1, <1>2, <1>3, <1>4, GrowthKeeps DEF Types

\* A new response is on the network.
LEMMA ResponseKeeps ==
    ASSUME IInv, NEW m \in Messages, Produce(m), UNCHANGED <<clock, serverVars, counterless>>,
           counter' \in [Authenticators -> 0 .. MaxCount]
    PROVE  IInv'
<1> USE DEF IInv
<1>1. /\ network' = network \union {m}
      /\ UNCHANGED <<clock, drawn, pending_challenges, credentials, worker>>
      /\ UNCHANGED <<registered, accepted, raced, counterless>>
  BY DEF Produce, serverVars, history
<1>2. clock \in Nat /\ clock' \in 0 .. MaxClock /\ clock <= clock'
  BY <1>1, BoundsAssumption DEF Types
<1>3. Challenges \subseteq Challenges' /\ Messages \subseteq Messages'
  BY <1>1, <1>2, TypesGrow
<1>4. pending_challenges' \in [DOMAIN pending_challenges' -> Challenges']
  BY <1>1, <1>3 DEF Types
<1>5. network' \subseteq Messages'
  BY <1>1, <1>3 DEF Types
<1> QED
  BY <1>1, <1>2, <1>4, <1>5, GrowthKeeps DEF Types

\* Registrations are signed with the count as it is.
LEMMA MakeCredentialKeeps ==
    ASSUME IInv, NEW a \in Authenticators, NEW id \in Ids, NEW s \in Sessions,
           NEW bs \in BackupStates, MakeCredential(a, id, s, bs)
    PROVE  IInv'
<1> DEFINE m == Message("webauthn.create", a, id, s, counter[a], bs)
<1>1. Produce(m) /\ UNCHANGED <<clock, serverVars, counterless, counter>>
  BY DEF MakeCredential
<1>2. counter \in [Authenticators -> 0 .. MaxCount]
  BY DEF IInv, Types
<1>3. s \in drawn
  BY <1>1 DEF Produce, Message
<1>4. m \in Messages
  BY <1>2, <1>3 DEF Message, Messages
<1> HIDE DEF m
<1> QED
  BY <1>1, <1>2, <1>4, ResponseKeeps

\* A counter counts up to its bound.
LEMMA GetAssertionKeeps ==
    ASSUME IInv, NEW a \in Authenticators, NEW id \in Ids, NEW s \in Sessions,
           NEW bs \in BackupStates, GetAssertion(a, id, s, bs)
    PROVE  IInv'
<1> DEFINE m == Message("webauthn.get", a, id, s, counter'[a], bs)
<1>1. /\ a \notin counterless => counter[a] < MaxCount
      /\ counter' = [counter EXCEPT ![a] = IF a \in counterless THEN 0 ELSE @ + 1]
      /\ Produce(m)
      /\ UNCHANGED <<clock, serverVars, counterless>>
  BY DEF GetAssertion
<1>2. counter \in [Authenticators -> 0 .. MaxCount]
  BY DEF IInv, Types
<1>3. (IF a \in counterless THEN 0 ELSE counter[a] + 1) \in 0 .. MaxCount
  BY <1>1, <1>2, BoundsAssumption
<1>4. counter' \in [Authenticators -> 0 .. MaxCount]
  BY <1>1, <1>2, <1>3
<1>5. s \in drawn
  BY <1>1 DEF Produce, Message
<1>6. m \in Messages
  BY <1>4, <1>5 DEF Message, Messages
<1> HIDE DEF m
<1> QED
  BY <1>1, <1>4, <1>6, ResponseKeeps

\* A new session was never drawn, so no request holds it, no credential names it
\* and no assertion was accepted for it.
LEMMA OpenSessionKeeps ==
    ASSUME IInv, NEW s \in Sessions, OpenSession(s)
    PROVE  IInv'
<1> USE DEF IInv
<1>1. /\ s \notin drawn /\ drawn' = drawn \union {s}
      /\ pending_challenges' = With(pending_challenges, s, [bytes |-> s, created_at |-> clock])
      /\ UNCHANGED <<clock, credentials, worker, registered, accepted, raced>>
      /\ UNCHANGED <<counterless, counter, network>>
  BY DEF OpenSession, clientVars, history
<1>2. clock \in Nat /\ clock' \in 0 .. MaxClock /\ clock <= clock'
  BY <1>1, BoundsAssumption DEF Types
<1>3. Challenges \subseteq Challenges' /\ Messages \subseteq Messages'
  BY <1>1, <1>2, TypesGrow
<1>4. [bytes |-> s, created_at |-> clock] \in Challenges'
  BY <1>1, <1>2 DEF Challenges
<1>5. /\ DOMAIN pending_challenges' = DOMAIN pending_challenges \union {s}
      /\ pending_challenges'[s].bytes = s
      /\ \A t \in DOMAIN pending_challenges : t # s => pending_challenges'[t] = pending_challenges[t]
      /\ pending_challenges' \in [DOMAIN pending_challenges' -> Challenges']
  BY <1>1, <1>3, <1>4 DEF With, Types
<1> QED
  BY <1>1, <1>2, <1>3, <1>5, GrowthKeeps DEF Types

\* A request that has just arrived holds nothing.
LEMMA ArriveKeeps ==
    ASSUME IInv, NEW w \in Workers, NEW s \in drawn, NEW m \in network,
           NEW endpoint \in Endpoint(m), Arrive(w, s, m, endpoint)
    PROVE  IInv'
<1> USE DEF IInv
<1>1. PICK r : r = [ at |-> "take", endpoint |-> endpoint, session |-> s, response |-> m,
                     challenge |-> Unset, credential |-> Unset, result |-> Unset ]
  OBVIOUS
<1>2. /\ r \in Requests /\ r.at = "take" /\ r.endpoint = endpoint /\ r.response = m
      /\ r.session = s
  BY <1>1 DEF Requests, Endpoint
<1>3. /\ UNCHANGED <<clock, drawn, counterless, counter, network>>
      /\ UNCHANGED <<pending_challenges, credentials, registered, accepted, raced>>
      /\ Challenges' = Challenges /\ Credentials' = Credentials /\ Results' = Results
      /\ Messages' = Messages /\ Requests' = Requests
  BY SameTypes DEF Arrive, history
<1>4. /\ worker'[w] = r
      /\ \A v \in Workers : v # w => worker'[v] = worker[v]
      /\ worker' \in [Workers -> Requests \union {Idle}]
  BY <1>1, <1>2 DEF Arrive, Types
<1>5. Types'
  BY <1>3, <1>4 DEF Types
<1>6. Pending' /\ AcceptedOnce' /\ StoredCountWasAccepted'
  BY <1>3 DEF Pending, AcceptedOnce, StoredCountWasAccepted
<1>7. Progress'
  BY <1>2, <1>3, <1>4 DEF Progress, Busy, HoldsSession
<1>8. Registered' /\ Authenticated'
  BY <1>2, <1>3, <1>4 DEF Registered, Authenticated, HoldsSession
<1>9. SessionTakenOnce'
  BY <1>2, <1>3, <1>4 DEF SessionTakenOnce, HoldsSession
<1>10. CopiesCurrent'
  BY <1>2, <1>3, <1>4 DEF CopiesCurrent, HoldsCopy
<1> QED
  BY <1>5, <1>6, <1>7, <1>8, <1>9, <1>10

\* A restart forgets the sessions; none of them is drawn again.
LEMMA RestartKeeps ==
    ASSUME IInv, Restart
    PROVE  IInv'
<1> USE DEF IInv
<1>1. /\ clock < MaxClock /\ clock' = clock + 1
      /\ DOMAIN pending_challenges' = {} /\ DOMAIN credentials' = {}
      /\ pending_challenges' = NoEntries /\ credentials' = NoEntries
      /\ \A w \in Workers : worker'[w] = Idle
      /\ worker' \in [Workers -> {Idle}]
      /\ UNCHANGED <<drawn, registered, accepted, raced, counterless, counter, network>>
  BY DEF Restart, clientVars, history, NoEntries
<1>2. Messages' = Messages
  BY <1>1 DEF Messages
<1>3. Idle.at = "idle"
  BY DEF Idle
<1>4. Types'
  <2>1. clock' \in 0 .. MaxClock
    BY <1>1, BoundsAssumption DEF Types
  <2>2. /\ pending_challenges' \in [DOMAIN pending_challenges' -> Challenges']
        /\ credentials' \in [DOMAIN credentials' -> Credentials']
    BY <1>1 DEF NoEntries
  <2> QED
    BY <1>1, <1>2, <2>1, <2>2 DEF Types
<1>5. AcceptedOnce'
  BY <1>1 DEF AcceptedOnce
<1>6. Pending' /\ StoredCountWasAccepted'
  BY <1>1 DEF Pending, StoredCountWasAccepted
<1>7. Progress' /\ SessionTakenOnce' /\ CopiesCurrent'
  BY <1>1, <1>3 DEF Progress, SessionTakenOnce, CopiesCurrent, Busy, HoldsSession, HoldsCopy
<1>8. Registered' /\ Authenticated'
  BY <1>1, <1>3 DEF Registered, Authenticated, HoldsSession
<1> QED
  BY <1>4, <1>5, <1>6, <1>7, <1>8

\* Nothing has happened yet.
LEMMA InitIInv == Init => IInv
<1> SUFFICES ASSUME Init
             PROVE  IInv
  OBVIOUS
<1>1. \A w \in Workers : worker[w] = Idle
  BY DEF Init
<1>2. Idle.at = "idle"
  BY DEF Idle
<1>3. Types
  <2>1. clock \in 0 .. MaxClock
    BY BoundsAssumption DEF Init
  <2>2. counter \in [Authenticators -> 0 .. MaxCount]
    BY BoundsAssumption DEF Init
  <2>3. /\ DOMAIN pending_challenges = {} /\ DOMAIN credentials = {}
        /\ pending_challenges \in [DOMAIN pending_challenges -> Challenges]
        /\ credentials \in [DOMAIN credentials -> Credentials]
    BY DEF Init, NoEntries
  <2>4. worker \in [Workers -> Requests \union {Idle}]
    BY DEF Init
  <2> QED
    BY <2>1, <2>2, <2>3, <2>4 DEF Init, Types
<1>4. Progress /\ SessionTakenOnce /\ CopiesCurrent
  BY <1>1, <1>2 DEF Progress, SessionTakenOnce, CopiesCurrent, Busy, HoldsSession, HoldsCopy
<1>5. Pending /\ Registered /\ StoredCountWasAccepted
  BY DEF Init, NoEntries, Pending, Registered, StoredCountWasAccepted
<1>6. Authenticated /\ AcceptedOnce
  BY DEF Init, Authenticated, AcceptedOnce
<1> QED
  BY <1>3, <1>4, <1>5, <1>6 DEF IInv

\* One case for every action.
LEMMA NextIInv == IInv /\ [Next]_vars => IInv'
<1> SUFFICES ASSUME IInv, [Next]_vars
             PROVE  IInv'
  OBVIOUS
<1>1. CASE Tick
  BY <1>1, TickKeeps
<1>2. CASE \E a \in Authenticators, id \in Ids, s \in Sessions, bs \in BackupStates :
              MakeCredential(a, id, s, bs) \/ GetAssertion(a, id, s, bs)
  BY <1>2, MakeCredentialKeeps, GetAssertionKeeps
<1>3. CASE \E s \in Sessions : Begin(s)
  BY <1>3, OpenSessionKeeps
  DEF Begin, RegisterBegin, AuthenticateBegin, PasskeyAuthenticateBegin
<1>4. CASE \E w \in Workers, s \in drawn, m \in network :
              \E endpoint \in Endpoint(m) : Arrive(w, s, m, endpoint)
  BY <1>4, ArriveKeeps
<1>5. CASE \E w \in Workers : Serve(w)
  BY <1>5, TakeSessionKeeps, StoreCredentialKeeps, CompleteRegistrationKeeps,
     FindCredentialKeeps, CompleteAuthenticationKeeps, WriteBackKeeps DEF Serve
<1>6. CASE Restart
  BY <1>6, RestartKeeps
<1>7. CASE UNCHANGED vars
  <2>1. /\ UNCHANGED surroundings
        /\ UNCHANGED <<pending_challenges, credentials, worker, registered, accepted, raced>>
    BY <1>7 DEF vars, serverVars, clientVars, surroundings, history
  <2>2. /\ UNCHANGED <<clock, drawn, counterless, counter, network>>
        /\ Challenges' = Challenges /\ Credentials' = Credentials /\ Results' = Results
        /\ Messages' = Messages /\ Requests' = Requests
    BY <2>1, SameTypes
  <2>3. Types' = Types
    BY <2>1, <2>2 DEF Types
  <2>4. Progress' = Progress
    BY <2>1, <2>2 DEF Progress, Busy, HoldsSession
  <2> QED
    BY <2>1, <2>2, <2>3, <2>4
    DEF IInv, Pending, Registered, Authenticated, SessionTakenOnce, AcceptedOnce,
        StoredCountWasAccepted, CopiesCurrent, HoldsSession, HoldsCopy
<1> QED
  BY <1>1, <1>2, <1>3, <1>4, <1>5, <1>6, <1>7 DEF Next

\* The inductive invariant holds of every behaviour.
THEOREM Invariance == Spec => []IInv
<1>1. Init => IInv
  BY InitIInv
<1>2. IInv /\ [Next]_vars => IInv'
  BY NextIInv
<1> QED
  BY <1>1, <1>2, PTL DEF Spec

\* The maps of the server are keyed as they should be and requests are well
\* formed, however many handlers run at once.
THEOREM TypeCorrectness == Spec => []TypeOK
<1>1. IInv => TypeOK
  <2> SUFFICES ASSUME IInv
               PROVE  TypeOK
    OBVIOUS
  <2> USE DEF IInv
  <2>1. \A s \in DOMAIN pending_challenges :
          pending_challenges[s] \in [bytes : {s}, created_at : 0 .. clock]
    BY DEF Types, Pending, Challenges
  <2>2. \A id \in DOMAIN credentials : /\ credentials[id].id = id
                                       /\ credentials[id].sign_count \in 0 .. MaxCount
    BY DEF Types, Credentials, Registered
  <2>3. \A w \in Workers :
          /\ worker[w].at \in {"idle", "take", "decode", "store", "verify", "write_back"}
          /\ Busy(w) => worker[w].session \in drawn /\ worker[w].response \in network
    BY Locations DEF Requests
  <2>4. \A m \in network : m.credential_id \in Ids /\ m.challenge \in drawn
    BY DEF Types, Messages
  <2> QED
    BY <2>1, <2>2, <2>3, <2>4 DEF TypeOK, Types
<1> QED
  BY <1>1, Invariance, PTL

\* A session's challenge goes to one request, however requests interleave
\* between the acquisitions of the two locks.
THEOREM SessionsTakenOnce == Spec => []SessionTakenOnce
<1>1. IInv => SessionTakenOnce
  BY DEF IInv
<1> QED
  BY <1>1, Invariance, PTL

\* No session and no response authenticates twice.
THEOREM AssertionsAcceptedOnce == Spec => []AcceptedOnce
<1>1. IInv => AcceptedOnce
  BY DEF IInv
<1> QED
  BY <1>1, Invariance, PTL

\* A stored count comes from the registration stored or from an accepted
\* assertion, signed by the stored key unless the credential was raced for.
THEOREM StoredCountsWereAccepted == Spec => []StoredCountWasAccepted
<1>1. IInv => StoredCountWasAccepted
  BY DEF IInv
<1> QED
  BY <1>1, Invariance, PTL

\* A stored credential is the one before it but for its counts, or the one that
\* a registration makes whose session has not been used.
LEMMA CredentialsKept ==
    ASSUME IInv, [Next]_vars, NEW id \in DOMAIN credentials'
    PROVE  \/ /\ id \in DOMAIN credentials
              /\ \A field \in {"public_key", "user_id", "created_at", "rp_id"} :
                    credentials'[id][field] = credentials[id][field]
           \/ /\ credentials'[id].user_id \notin registered
              /\ \E m \in network : Registration(m, credentials'[id])
<1>1. CASE \E w \in Workers : StoreCredential(w)
  <2>1. PICK w \in Workers : StoreCredential(w)
    BY <1>1
  <2>2. PICK c : c = worker[w].credential
    OBVIOUS
  <2>3. /\ credentials' = With(credentials, c.id, c)
        /\ c.user_id \notin registered
        /\ \E m \in network : Registration(m, c)
    BY <2>1, <2>2, StoreCredentialStep
  <2>4. CASE id = c.id
    BY <2>3, <2>4 DEF With
  <2>5. CASE id # c.id
    BY <2>3, <2>5 DEF With
  <2> QED
    BY <2>4, <2>5
<1>2. CASE \E w \in Workers : WriteBack(w)
  <2>1. id \in DOMAIN credentials
    BY <1>2, WriteBackStep
  <2>2. {"public_key", "user_id", "created_at", "rp_id"} \subseteq DOMAIN credentials[id]
    BY <2>1 DEF IInv, Types, Credentials
  <2> QED
    BY <1>2, <2>1, <2>2, WriteBackStep
<1>3. CASE Restart
  BY <1>3 DEF Restart, NoEntries
<1>4. CASE UNCHANGED credentials
  BY <1>4
<1> QED
  BY <1>1, <1>2, <1>3, <1>4
  DEF Next, vars, serverVars, Tick, MakeCredential, GetAssertion, Begin, RegisterBegin,
      AuthenticateBegin, PasskeyAuthenticateBegin, OpenSession, Arrive, Serve, TakeSession,
      CompleteRegistration, FindCredential, CompleteAuthentication

\* However registrations, repeated, delayed and of one id, interleave with each
\* other, with authentications and with restarts, each is stored once and whole.
THEOREM RegistrationsTakeEffectOnce == Spec => RegisteredOnce
<1>1. IInv /\ [Next]_vars =>
        [ \A id \in DOMAIN credentials' :
            LET credential == credentials'[id]
            IN  \/ /\ id \in DOMAIN credentials
                   /\ \A field \in {"public_key", "user_id", "created_at", "rp_id"} :
                         credential[field] = credentials[id][field]
                \/ /\ credential.user_id \notin registered
                   /\ \E m \in network : Registration(m, credential) ]_vars
  BY CredentialsKept
<1> QED
  BY <1>1, Invariance, PTL DEF Spec, RegisteredOnce

-----------------------------------------------------------------------------
(***************************************************************************)
(* The server implements CredentialStore.                                  *)
(***************************************************************************)

\* The abstract entries, under a name.
Entries == [id \in IF raced = {} THEN DOMAIN credentials ELSE {} |-> Entry(id)]

\* Without a race the count of a credential is that of the one response being
\* written back, or else the stored one.
CountsKnown ==
    raced = {} =>
        \A id \in Ids :
            /\ \A w \in Workers : HoldsCopy(w, id) /\ worker[w].at = "write_back" =>
                                     StoredCount(id) = worker[w].response.sign_count
            /\ (\A w \in Workers : HoldsCopy(w, id) => worker[w].at # "write_back") =>
                   StoredCount(id) = credentials[id].sign_count

\* The invariant determines which request's count it is.
LEMMA IInvCountsKnown == IInv => CountsKnown
<1> SUFFICES ASSUME IInv, raced = {}, NEW id \in Ids
             PROVE  /\ \A w \in Workers : HoldsCopy(w, id) /\ worker[w].at = "write_back" =>
                                             StoredCount(id) = worker[w].response.sign_count
                    /\ (\A w \in Workers : HoldsCopy(w, id) => worker[w].at # "write_back") =>
                           StoredCount(id) = credentials[id].sign_count
  BY DEF CountsKnown
<1>1. ASSUME NEW w \in Workers, HoldsCopy(w, id), worker[w].at = "write_back"
      PROVE  StoredCount(id) = worker[w].response.sign_count
  <2>1. w \in Written(id) /\ \A v \in Written(id) : v = w
    BY <1>1 DEF Written, IInv, CopiesCurrent
  <2>2. (CHOOSE v \in Written(id) : TRUE) = w
    BY <2>1
  <2>3. worker[w].result.new_sign_count = worker[w].response.sign_count
    BY <1>1 DEF IInv, Progress
  <2> QED
    BY <2>1, <2>2, <2>3 DEF StoredCount
<1>2. ASSUME \A w \in Workers : HoldsCopy(w, id) => worker[w].at # "write_back"
      PROVE  StoredCount(id) = credentials[id].sign_count
  <2>1. Written(id) = {}
    BY <1>2 DEF Written
  <2> QED
    BY <2>1 DEF StoredCount
<1> QED
  BY <1>1, <1>2

\* Steps that leave the map and the requests being written back alone stutter.
LEMMA QuietStep ==
    ASSUME IInv, UNCHANGED <<credentials, registered, raced>>,
           \A w \in Workers : \/ worker'[w] = worker[w]
                              \/ worker[w].at # "write_back" /\ worker'[w].at # "write_back"
    PROVE  UNCHANGED <<Entries, registered>>
<1>1. ASSUME NEW id
      PROVE  Written(id)' = Written(id)
  BY DEF Written, HoldsCopy
<1>2. ASSUME NEW id
      PROVE  StoredCount(id)' = StoredCount(id)
  <2>1. CASE Written(id) = {}
    BY <1>1, <2>1 DEF StoredCount
  <2>2. CASE Written(id) # {}
    <3>1. PICK w \in Written(id) : w = CHOOSE v \in Written(id) : TRUE
      BY <2>2
    <3>2. worker'[w] = worker[w]
      BY <3>1 DEF Written
    <3>3. w = CHOOSE v \in Written(id)' : TRUE
      BY <1>1, <3>1
    <3> QED
      BY <1>1, <2>2, <3>1, <3>2, <3>3 DEF StoredCount
  <2> QED
    BY <2>1, <2>2
<1> QED
  BY <1>2 DEF Entries, Entry

\* A registration that has taken effect is remembered.
LEMMA RegisteredGrows ==
    ASSUME IInv, [Next]_vars
    PROVE  registered \subseteq registered'
<1>1. CASE \E w \in Workers : StoreCredential(w)
  BY <1>1, StoreCredentialStep
<1>2. CASE UNCHANGED registered
  BY <1>2
<1> QED
  BY <1>1, <1>2
  DEF Next, vars, serverVars, history, Tick, MakeCredential, GetAssertion, Begin, RegisterBegin,
      AuthenticateBegin, PasskeyAuthenticateBegin, OpenSession, Arrive, Serve, TakeSession,
      CompleteRegistration, FindCredential, CompleteAuthentication, WriteBack, Restart

\* A race, once seen, is the end of the promise.
LEMMA RacedStep ==
    ASSUME raced' # {}, registered \subseteq registered'
    PROVE  Store!LoseEverything
BY DEF Store!LoseEverything, Store!Empty, Entries

\* An entry changes with its owner and its count.
LEMMA EntryIs ==
    ASSUME NEW id
    PROVE  /\ Entry(id).owner = credentials[id].user_id
           /\ Entry(id).count = StoredCount(id)
           /\ Entry(id)'.owner = credentials'[id].user_id
           /\ Entry(id)'.count = StoredCount(id)'
           /\ /\ credentials'[id].user_id = credentials[id].user_id
              /\ StoredCount(id)' = StoredCount(id)
              => Entry(id)' = Entry(id)
BY DEF Entry

\* An accepted assertion raises the count of its credential, or leaves it at
\* zero: without a race the copy it was compared with is the stored credential.
LEMMA AuthenticationRefines ==
    ASSUME IInv, IInv', raced' = {}, NEW w \in Workers, NEW garbled \in BOOLEAN,
           CompleteAuthentication(w, garbled)
    PROVE  \/ \E id \in Ids : Store!Authenticate(id)
           \/ UNCHANGED <<Entries, registered>>
<1>1. /\ worker[w].at = "verify"
      /\ UNCHANGED <<credentials, registered, raced>>
      /\ worker[w] \in Requests
  BY CompleteAuthenticationStep, InProgress DEF IInv
<1>2. PICK id : id = worker[w].response.credential_id
  OBVIOUS
<1>3. HoldsCopy(w, id) /\ id \in DOMAIN credentials /\ id \in Ids
  BY <1>1, <1>2 DEF HoldsCopy, IInv, Progress, Types
<1>4. CASE worker' = [worker EXCEPT ![w] = Idle]
  <2>1. worker'[w].at # "write_back" /\ \A v \in Workers : v # w => worker'[v] = worker[v]
    BY <1>4 DEF Idle, IInv, Types
  <2> QED
    BY <1>1, <2>1, QuietStep
<1>5. ASSUME NEW r, Becomes(w, r), r.at = "write_back",
             \/ worker[w].response.sign_count > worker[w].credential.sign_count
             \/ worker[w].response.sign_count = 0 /\ worker[w].credential.sign_count = 0
      PROVE  (\E i \in Ids : Store!Authenticate(i)) \/ UNCHANGED <<Entries, registered>>
  <2>1. /\ worker'[w] = r /\ r.response = worker[w].response
        /\ \A v \in Workers : v # w => worker'[v] = worker[v]
    BY <1>5 DEF Becomes, IInv, Types
  <2>2. CountsKnown
    BY IInvCountsKnown
  <2>3. IInv' => CountsKnown'
    BY IInvCountsKnown, PTL
  <2>4. raced = {} /\ id \notin raced
    BY <1>1
  <2>5. /\ \A v \in Workers : HoldsCopy(v, id) => v = w
        /\ worker[w].credential.sign_count = credentials[id].sign_count
    BY <1>3, <2>4 DEF IInv, CopiesCurrent
  <2>6. StoredCount(id) = worker[w].credential.sign_count
    BY <1>1, <1>3, <2>2, <2>4, <2>5 DEF CountsKnown
  <2>7. HoldsCopy(w, id)' /\ worker'[w].at = "write_back"
    BY <1>2, <1>5, <2>1 DEF HoldsCopy
  <2>8. StoredCount(id)' = worker[w].response.sign_count
    BY <1>3, <2>1, <2>3, <2>7 DEF CountsKnown
  <2>9. \A i \in DOMAIN credentials : i # id => StoredCount(i)' = StoredCount(i)
    <3> SUFFICES ASSUME NEW i \in DOMAIN credentials, i # id
                 PROVE  StoredCount(i)' = StoredCount(i)
      OBVIOUS
    <3>1. i \in Ids /\ \A v \in Workers : HoldsCopy(v, i) => v # w
      BY <1>2 DEF IInv, Types, HoldsCopy
    <3>2. \A v \in Workers : HoldsCopy(v, i)' <=> HoldsCopy(v, i)
      BY <1>2, <2>1, <3>1 DEF HoldsCopy
    <3>3. CASE \E v \in Workers : HoldsCopy(v, i) /\ worker[v].at = "write_back"
      BY <2>1, <2>2, <2>3, <2>4, <3>1, <3>2, <3>3 DEF CountsKnown
    <3>4. CASE \A v \in Workers : HoldsCopy(v, i) => worker[v].at # "write_back"
      BY <1>1, <2>1, <2>2, <2>3, <2>4, <3>1, <3>2, <3>4 DEF CountsKnown
    <3> QED
      BY <3>3, <3>4
  <2>10. /\ DOMAIN Entries' = DOMAIN credentials /\ DOMAIN Entries = DOMAIN credentials
         /\ \A i \in DOMAIN credentials : Entries[i] = Entry(i) /\ Entries'[i] = Entry(i)'
    BY <1>1, <2>4 DEF Entries
  <2>11. \A i \in DOMAIN credentials : i # id => Entry(i)' = Entry(i)
    BY <1>1, <2>9, EntryIs
  <2>12. CASE worker[w].response.sign_count > worker[w].credential.sign_count
    <3>1. /\ Entry(id)'.count > Entry(id).count
          /\ Entry(id)'.owner = Entry(id).owner
      BY <1>1, <2>6, <2>8, <2>12, EntryIs
    <3>2. Store!Authenticate(id)
      BY <1>1, <1>3, <2>10, <2>11, <3>1 DEF Store!Authenticate, Store!Sets, Entries
    <3> QED
      BY <1>3, <3>2
  <2>13. CASE worker[w].response.sign_count = 0 /\ worker[w].credential.sign_count = 0
    <3>1. Entry(id)' = Entry(id)
      BY <1>1, <2>6, <2>8, <2>13, EntryIs
    <3>2. \A i \in DOMAIN credentials : Entry(i)' = Entry(i)
      BY <2>11, <3>1
    <3>3. Entries' = Entries
      BY <1>1, <3>2 DEF Entries
    <3> QED
      BY <1>1, <3>3
  <2> QED
    BY <1>5, <2>12, <2>13
<1> QED
  BY <1>4, <1>5, CompleteAuthenticationStep DEF IInv

\* Storing a credential registers it, for an owner that was not used yet.
LEMMA RegistrationRefines ==
    ASSUME IInv, IInv', raced' = {}, NEW w \in Workers, StoreCredential(w)
    PROVE  \E id \in Ids, owner \in Sessions : Store!Register(id, owner)
<1>1. PICK c : c = worker[w].credential
  OBVIOUS
<1>2. /\ worker[w].at = "store"
      /\ credentials' = With(credentials, c.id, c)
      /\ registered' = registered \union {c.user_id}
      /\ c.user_id \notin registered
      /\ raced' = raced \union CopiedBy(Workers, c.id)
      /\ worker' = [worker EXCEPT ![w] = Idle]
      /\ c \in Credentials
  BY <1>1, StoreCredentialStep
<1>3. /\ c.id \in Ids /\ c.user_id \in Sessions /\ c.sign_count \in Nat
      /\ DOMAIN credentials' = DOMAIN credentials \union {c.id}
      /\ credentials'[c.id] = c
      /\ \A i \in DOMAIN credentials \ {c.id} : credentials'[i] = credentials[i]
      /\ \A v \in Workers : v # w => worker'[v] = worker[v]
      /\ worker'[w].at = "idle"
  BY <1>2, BoundsAssumption DEF With, Credentials, IInv, Types, Idle
<1>4. raced = {} /\ \A v \in Workers : ~HoldsCopy(v, c.id)
  BY <1>2 DEF CopiedBy
<1>5. \A v \in Workers, i \in Ids : HoldsCopy(v, i)' <=> HoldsCopy(v, i)
  BY <1>2, <1>3 DEF HoldsCopy
<1>6. CountsKnown
  BY IInvCountsKnown
<1>7. IInv' => CountsKnown'
  BY IInvCountsKnown, PTL
<1>8. StoredCount(c.id)' = c.sign_count
  BY <1>3, <1>4, <1>5, <1>7 DEF CountsKnown
<1>9. ASSUME NEW i \in DOMAIN credentials \ {c.id}
      PROVE  StoredCount(i)' = StoredCount(i)
  <2>1. i \in Ids /\ ~HoldsCopy(w, i)
    BY <1>2 DEF IInv, Types, HoldsCopy
  <2>2. CASE \E v \in Workers : HoldsCopy(v, i) /\ worker[v].at = "write_back"
    BY <1>3, <1>4, <1>5, <1>6, <1>7, <2>1, <2>2 DEF CountsKnown
  <2>3. CASE \A v \in Workers : HoldsCopy(v, i) => worker[v].at # "write_back"
    BY <1>3, <1>4, <1>5, <1>6, <1>7, <2>1, <2>3 DEF CountsKnown
  <2> QED
    BY <2>2, <2>3
<1>10. /\ DOMAIN Entries' = DOMAIN credentials' /\ DOMAIN Entries = DOMAIN credentials
       /\ \A i \in DOMAIN credentials : Entries[i] = Entry(i)
       /\ \A i \in DOMAIN credentials' : Entries'[i] = Entry(i)'
  BY <1>4 DEF Entries
<1>11. \A i \in DOMAIN credentials \ {c.id} : Entry(i)' = Entry(i)
  BY <1>3, <1>9, EntryIs
<1>12. Entry(c.id)'.owner = c.user_id /\ Entry(c.id)'.count = c.sign_count
  BY <1>3, <1>8, EntryIs
<1>13. Store!Register(c.id, c.user_id)
  BY <1>2, <1>3, <1>10, <1>11, <1>12 DEF Store!Register, Store!Sets, Entries
<1> QED
  BY <1>3, <1>13

\* Writing a count back stutters: it took effect when it was accepted.
LEMMA WriteBackRefines ==
    ASSUME IInv, IInv', raced' = {}, NEW w \in Workers, WriteBack(w)
    PROVE  UNCHANGED <<Entries, registered>>
<1>1. PICK m : m = worker[w].response
  OBVIOUS
<1>2. PICK id : id = m.credential_id
  OBVIOUS
<1>3. /\ worker[w].at = "write_back" /\ id \in DOMAIN credentials
      /\ DOMAIN credentials' = DOMAIN credentials
      /\ \A i \in DOMAIN credentials : i # id => credentials'[i] = credentials[i]
      /\ credentials'[id].sign_count = m.sign_count
      /\ worker' = [worker EXCEPT ![w] = Idle]
      /\ UNCHANGED <<registered, raced>>
      /\ \A field \in DOMAIN credentials[id] :
            field # "sign_count" => credentials'[id][field] = credentials[id][field]
  BY <1>1, <1>2, WriteBackStep DEF history
<1>4. /\ \A v \in Workers : v # w => worker'[v] = worker[v]
      /\ worker'[w].at = "idle" /\ id \in Ids /\ raced = {}
  BY <1>3 DEF IInv, Types, Idle
<1>5. CountsKnown
  BY IInvCountsKnown
<1>6. IInv' => CountsKnown'
  BY IInvCountsKnown, PTL
<1>7. HoldsCopy(w, id) /\ \A v \in Workers : HoldsCopy(v, id) => v = w
  BY <1>1, <1>2, <1>3, <1>4 DEF HoldsCopy, IInv, CopiesCurrent
<1>8. StoredCount(id) = m.sign_count
  BY <1>1, <1>3, <1>4, <1>5, <1>7 DEF CountsKnown
<1>9. \A v \in Workers : ~HoldsCopy(v, id)'
  BY <1>4, <1>7 DEF HoldsCopy
<1>10. StoredCount(id)' = m.sign_count
  BY <1>3, <1>4, <1>6, <1>9 DEF CountsKnown
<1>11. ASSUME NEW i \in DOMAIN credentials, i # id
       PROVE  StoredCount(i)' = StoredCount(i)
  <2>1. i \in Ids /\ ~HoldsCopy(w, i)
    BY <1>1, <1>2, <1>11 DEF IInv, Types, HoldsCopy
  <2>2. \A v \in Workers : HoldsCopy(v, i)' <=> HoldsCopy(v, i)
    BY <1>4, <2>1 DEF HoldsCopy
  <2>3. CASE \E v \in Workers : HoldsCopy(v, i) /\ worker[v].at = "write_back"
    BY <1>3, <1>4, <1>5, <1>6, <2>1, <2>2, <2>3 DEF CountsKnown
  <2>4. CASE \A v \in Workers : HoldsCopy(v, i) => worker[v].at # "write_back"
    BY <1>3, <1>4, <1>5, <1>6, <1>11, <2>1, <2>2, <2>4 DEF CountsKnown
  <2> QED
    BY <2>3, <2>4
<1>12. \A i \in DOMAIN credentials : StoredCount(i)' = StoredCount(i)
  BY <1>8, <1>10, <1>11
<1>13. "user_id" \in DOMAIN credentials[id]
  BY <1>3 DEF IInv, Types, Credentials
<1>14. \A i \in DOMAIN credentials : credentials'[i].user_id = credentials[i].user_id
  BY <1>3, <1>13
<1>15. \A i \in DOMAIN credentials : Entry(i)' = Entry(i)
  BY <1>12, <1>14, EntryIs
<1> QED
  BY <1>3, <1>15 DEF Entries

\* Every step is a step of CredentialStore or leaves the counts unchanged.
LEMMA NextRefines == IInv /\ IInv' /\ [Next]_vars => [Store!Next]_<<Entries, registered>>
<1> SUFFICES ASSUME IInv, IInv', [Next]_vars
             PROVE  Store!Next \/ UNCHANGED <<Entries, registered>>
  OBVIOUS
<1>1. CASE raced' # {}
  BY <1>1, RacedStep, RegisteredGrows DEF Store!Next
<1>2. CASE raced' = {} /\ \E w \in Workers : StoreCredential(w)
  BY <1>2, RegistrationRefines DEF Store!Next
<1>3. CASE raced' = {} /\ \E w \in Workers : WriteBack(w)
  BY <1>3, WriteBackRefines
<1>4. CASE raced' = {} /\ \E w \in Workers, garbled \in BOOLEAN : CompleteAuthentication(w, garbled)
  BY <1>4, AuthenticationRefines DEF Store!Next
<1>5. CASE Restart
  <2>1. UNCHANGED registered /\ Entries' = Store!Empty
    BY <1>5 DEF Restart, NoEntries, Entries, Store!Empty, history
  <2> QED
    BY <2>1 DEF Store!Next, Store!LoseEverything, Entries
<1>6. CASE raced' = {} /\ \E w \in Workers : TakeSession(w)
  <2>1. PICK w \in Workers : TakeSession(w)
    BY <1>6
  <2>2. /\ UNCHANGED <<credentials, registered, raced>> /\ worker[w].at = "take"
        /\ worker'[w].at # "write_back"
        /\ \A v \in Workers : v # w => worker'[v] = worker[v]
    BY <2>1, TakeSessionStep DEF IInv, Types, Becomes, Idle, history
  <2> QED
    BY <2>2, QuietStep
<1>7. CASE raced' = {} /\ \E w \in Workers, garbled \in BOOLEAN : CompleteRegistration(w, garbled)
  <2>1. PICK w \in Workers, garbled \in BOOLEAN : CompleteRegistration(w, garbled)
    BY <1>7
  <2>2. /\ UNCHANGED <<credentials, registered, raced>> /\ worker[w].at = "decode"
        /\ worker'[w].at # "write_back"
        /\ \A v \in Workers : v # w => worker'[v] = worker[v]
    BY <2>1, CompleteRegistrationStep DEF IInv, Types, Becomes, Idle, history
  <2> QED
    BY <2>2, QuietStep
<1>8. CASE raced' = {} /\ \E w \in Workers, garbled \in BOOLEAN : FindCredential(w, garbled)
  <2>1. PICK w \in Workers, garbled \in BOOLEAN : FindCredential(w, garbled)
    BY <1>8
  <2>2. UNCHANGED <<credentials, registered>> /\ worker[w].at = "decode"
    BY <2>1, FindCredentialStep DEF IInv
  <2>3. UNCHANGED raced
    BY <1>8, <2>1, FindCredentialStep DEF IInv
  <2>4. \/ \E r : Becomes(w, r) /\ r.at = "verify"
        \/ worker' = [worker EXCEPT ![w] = Idle]
    BY <2>1, FindCredentialStep DEF IInv
  <2>5. worker'[w].at # "write_back" /\ \A v \in Workers : v # w => worker'[v] = worker[v]
    BY <2>4 DEF IInv, Types, Becomes, Idle
  <2> QED
    BY <2>2, <2>3, <2>5, QuietStep
<1>9. CASE \E w \in Workers, s \in drawn, m \in network :
              \E endpoint \in Endpoint(m) : Arrive(w, s, m, endpoint)
  <2>1. PICK w \in Workers, s \in drawn, m \in network :
               \E endpoint \in Endpoint(m) : Arrive(w, s, m, endpoint)
    BY <1>9
  <2>2. /\ UNCHANGED <<credentials, registered, raced>> /\ worker[w].at = "idle"
        /\ worker'[w].at = "take"
        /\ \A v \in Workers : v # w => worker'[v] = worker[v]
    BY <2>1 DEF Arrive, IInv, Types, Idle, history
  <2> QED
    BY <2>2, QuietStep
<1>10. CASE UNCHANGED <<credentials, worker, registered, raced>>
  BY <1>10, QuietStep
<1> QED
  BY <1>1, <1>2, <1>3, <1>4, <1>5, <1>6, <1>7, <1>8, <1>9, <1>10
  DEF Next, vars, serverVars, history, Tick, MakeCredential, GetAssertion, Begin, RegisterBegin,
      AuthenticateBegin, PasskeyAuthenticateBegin, OpenSession, Serve

\* Until requests race for a credential, the demo server is a credential store
\* that uses no registration twice and whose counts only go up, whatever is delayed, repeated or interleaved.
THEOREM CredentialStoreImplemented == Spec => ImplementsCredentialStore
<1>1. Init => Store!Init
  BY DEF Init, NoEntries, Store!Init, Store!Empty
<1>2. IInv /\ IInv' /\ [Next]_vars => [Store!Next]_<<Entries, registered>>
  BY NextRefines
<1> QED
  BY <1>1, <1>2, Invariance, PTL DEF Spec, ImplementsCredentialStore, Store!Spec, Store!vars, Entries
=============================================================================
