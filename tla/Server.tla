------------------------------- MODULE Server -------------------------------
(***************************************************************************)
(* The demo server, examples/server.rs: HTTP handlers on a multi-threaded  *)
(* runtime over two in-memory maps, pending_challenges (session id to      *)
(* challenge) and credentials (credential id to Credential), each behind   *)
(* its own mutex.  A handler never holds a lock across an await, so it is  *)
(* atomic between two acquisitions and other handlers run in between: the  *)
(* `complete` handlers are modelled one acquisition at a time.             *)
(*                                                                         *)
(* The other side is external: authenticators that sign what they are      *)
(* asked to, and clients that deliver a response late, twice, to another   *)
(* session, or never.  The server accepts "none" attestations, so nothing  *)
(* ties a credential id to a key: a registration may claim any id, one     *)
(* that is stored included, and the server, to which the library leaves    *)
(* the uniqueness of credentials, replaces the entry.                      *)
(* A session and the challenge drawn with it are one value.  A restart     *)
(* loses all state, requests in progress included.                         *)
(***************************************************************************)
EXTENDS Ceremony

CONSTANTS
    Workers,         \* requests the runtime serves at once
    Sessions,        \* session ids; new_session_id never repeats one
    Ids,             \* credential ids
    Authenticators,  \* key pairs, each with its signature counter
    BackupStates,    \* values the BS flag takes
    MaxCount,        \* bound: the value a counter reaches
    MaxResponses,    \* bound: different responses produced
    MaxClock,        \* bound: ticks of the clock, and so restarts
    Unset,           \* what a request has not come to yet
    Config           \* the RelyingParty of main(), without single-use enforcement

ASSUME BoundsAssumption ==
    /\ MaxCount \in Nat
    /\ MaxResponses \in Nat
    /\ MaxClock \in Nat
    /\ BackupStates \subseteq BOOLEAN

VARIABLES
    clock,               \* SystemTime::now()
    drawn,               \* session ids handed out
    pending_challenges,  \* session id -> Challenge
    credentials,         \* credential id -> Credential
    worker,              \* worker[w]: the request being served
    counterless,         \* the authenticators whose counter stays zero
    counter,             \* counter[a]: the authenticator's signature counter
    network,             \* responses produced, deliverable any number of times
    registered,          \* history: sessions whose credential has been stored
    accepted,            \* history: [session, response] of accepted assertions
    raced                \* history: credential ids with a copy in use while another
                         \* request took one too or a registration replaced the entry

history == <<registered, accepted, raced>>
serverVars == <<drawn, pending_challenges, credentials, worker, history>>
clientVars == <<counterless, counter, network>>
vars == <<clock, serverVars, clientVars>>

\* What no `complete` handler changes.
surroundings == <<clock, drawn, clientVars>>

\* The empty map, m with an entry for k, and m without one.
NoEntries == [x \in {} |-> {}]
With(m, k, v) == [x \in DOMAIN m \union {k} |-> IF x = k THEN v ELSE m[x]]
Without(m, k) == Restrict(m, DOMAIN m \ {k})

Idle == [at |-> "idle"]

Init ==
    /\ clock = 0
    /\ drawn = {}
    /\ pending_challenges = NoEntries
    /\ credentials = NoEntries
    /\ worker = [w \in Workers |-> Idle]
    /\ counterless \in SUBSET Authenticators
    /\ counter = [a \in Authenticators |-> 0]
    /\ network = {}
    /\ registered = {}
    /\ accepted = {}
    /\ raced = {}

-----------------------------------------------------------------------------
(***************************************************************************)
(* External: what an authenticator returns for a challenge.                *)
(***************************************************************************)

PublicKey(a) == [kty |-> "EC2", alg |-> "ES256", id |-> a]

ClientData(m) ==
    [ form |-> "ok", type |-> m.type, challenge |-> m.challenge,
      origin |-> "https://example.com", cross_origin |-> FALSE ]

AuthData(m) ==
    [ parse |-> Ok, rp_id |-> "example.com", user_present |-> TRUE, user_verified |-> TRUE,
      backup_eligible |-> TRUE, backup_state |-> m.backup_state, sign_count |-> m.sign_count,
      attested |-> IF m.type = "webauthn.create"
                   THEN {[id |-> m.credential_id, aaguid |-> "none",
                          public_key |-> PublicKey(m.authenticator)]}
                   ELSE {} ]

AttestationResponse(m) ==
    [client_data |-> ClientData(m), parse |-> Ok, attestation |-> Ok, auth_data |-> AuthData(m)]

AssertionResponse(m) ==
    [ client_data |-> ClientData(m), auth_data |-> AuthData(m), credential_id |-> m.credential_id,
      signature |-> Sign(PublicKey(m.authenticator), AuthData(m), ClientData(m)) ]

Message(type, a, id, s, n, bs) ==
    [ type |-> type, authenticator |-> a, credential_id |-> id, challenge |-> s,
      sign_count |-> n, backup_state |-> bs ]

Produce(m) ==
    /\ m.challenge \in drawn
    /\ Cardinality(network) < MaxResponses
    /\ network' = network \union {m}

MakeCredential(a, id, s, bs) ==
    /\ Produce(Message("webauthn.create", a, id, s, counter[a], bs))
    /\ UNCHANGED <<clock, serverVars, counterless, counter>>

\* For a credential it has made.  The signature counter, if there is one, goes
\* up with every assertion.
GetAssertion(a, id, s, bs) ==
    /\ \E m \in network :
          m.type = "webauthn.create" /\ m.authenticator = a /\ m.credential_id = id
    /\ a \notin counterless => counter[a] < MaxCount
    /\ counter' = [counter EXCEPT ![a] = IF a \in counterless THEN 0 ELSE @ + 1]
    /\ Produce(Message("webauthn.get", a, id, s, counter'[a], bs))
    /\ UNCHANGED <<clock, serverVars, counterless>>

Tick ==
    /\ clock < MaxClock
    /\ clock' = clock + 1
    /\ UNCHANGED <<serverVars, clientVars>>

-----------------------------------------------------------------------------
(***************************************************************************)
(* The `begin` handlers.                                                   *)
(***************************************************************************)

\* A fresh session with a fresh challenge, remembered until it is completed.
OpenSession(s) ==
    /\ s \notin drawn
    /\ drawn' = drawn \union {s}
    /\ pending_challenges' = With(pending_challenges, s, [bytes |-> s, created_at |-> clock])
    /\ UNCHANGED <<clock, credentials, worker, history, clientVars>>

RegisterBegin(s) == OpenSession(s)

\* The credential is looked up and the session inserted under different
\* locks; nothing but a restart removes a credential, and a restart also ends
\* the handler, so the two are one step.
AuthenticateBegin(s) ==
    /\ credentials # NoEntries
    /\ OpenSession(s)

PasskeyAuthenticateBegin(s) == OpenSession(s)

-----------------------------------------------------------------------------
(***************************************************************************)
(* The `complete` handlers.                                                *)
(***************************************************************************)

Endpoint(m) == IF m.type = "webauthn.create" THEN {"register"} ELSE {"authenticate", "passkey"}

\* A request with response m for session s.  Whether its fields are well
\* encoded, or garbled, is decided where a handler decodes them.
Arrive(w, s, m, endpoint) ==
    /\ worker[w] = Idle
    /\ endpoint \in Endpoint(m)
    /\ worker' = [worker EXCEPT ![w] =
                    [ at |-> "take", endpoint |-> endpoint, session |-> s, response |-> m,
                      challenge |-> Unset, credential |-> Unset, result |-> Unset ]]
    /\ UNCHANGED <<surroundings, pending_challenges, credentials, history>>

Respond(w) == worker' = [worker EXCEPT ![w] = Idle]

\* Mutant: the session is read and stays.
TakeSessionWithoutRemoving(w) ==
    /\ worker[w].at = "take"
    /\ LET s == worker[w].session
       IN  IF s \in DOMAIN pending_challenges
           THEN worker' = [worker EXCEPT ![w].at = "decode",
                                         ![w].challenge = pending_challenges[s]]
           ELSE Respond(w)
    /\ UNCHANGED <<surroundings, pending_challenges, credentials, history>>

\* First of all the session is removed, whatever becomes of the request.
TakeSession(w) ==
    /\ worker[w].at = "take"
    /\ LET s == worker[w].session
       IN  IF s \in DOMAIN pending_challenges
           THEN /\ pending_challenges' = Without(pending_challenges, s)
                /\ worker' = [worker EXCEPT ![w].at = "decode",
                                            ![w].challenge = pending_challenges[s]]
           ELSE /\ Respond(w)
                /\ UNCHANGED pending_challenges
    /\ UNCHANGED <<surroundings, credentials, history>>

\* register_complete, without a lock: decode and verify_registration.
CompleteRegistration(w, garbled) ==
    /\ worker[w].at = "decode"
    /\ worker[w].endpoint = "register"
    /\ LET response == AttestationResponse(worker[w].response)
           verdict == VerifyRegistration(Config, worker[w].challenge, response, clock)
       IN  IF garbled \/ verdict # Ok
           THEN Respond(w)
           ELSE worker' = [worker EXCEPT
                             ![w].at = "store",
                             ![w].credential = NewCredential(Config, response,
                                                             worker[w].session, clock)]
    /\ UNCHANGED <<surroundings, pending_challenges, credentials, history>>

\* Between looking a credential up and writing its count back.
HoldsCopy(w, id) ==
    worker[w].at \in {"verify", "write_back"} /\ worker[w].response.credential_id = id

CopiedBy(W, id) == {i \in {id} : \E w \in W : HoldsCopy(w, i)}

\* credentials.insert: an entry of the same id is replaced.
StoreAs(w, id) ==
    /\ worker[w].at = "store"
    /\ credentials' = With(credentials, id, worker[w].credential)
    /\ registered' = registered \union {worker[w].session}
    /\ raced' = raced \union CopiedBy(Workers, id)
    /\ Respond(w)
    /\ UNCHANGED <<surroundings, pending_challenges, accepted>>

\* Mutant: stored under the user's id instead of the credential's.
StoreCredentialByUser(w) == StoreAs(w, worker[w].credential.user_id)

StoreCredential(w) == StoreAs(w, worker[w].credential.id)

\* authenticate_complete decodes the credential id, passkey_authenticate_complete
\* every field, before looking the credential up; both work on a copy of it.
FindCredential(w, garbled) ==
    /\ worker[w].at = "decode"
    /\ worker[w].endpoint # "register"
    /\ LET id == worker[w].response.credential_id
           found == /\ ~garbled
                    /\ worker[w].endpoint = "passkey" =>
                         BeginAuthentication(AssertionResponse(worker[w].response)) = Ok
                    /\ id \in DOMAIN credentials
       IN  IF found
           THEN /\ worker' = [worker EXCEPT ![w].at = "verify",
                                            ![w].credential = credentials[id]]
                /\ raced' = raced \union CopiedBy(Workers \ {w}, id)
           ELSE Respond(w) /\ UNCHANGED raced
    /\ UNCHANGED <<surroundings, pending_challenges, credentials, registered, accepted>>

CompleteAuthentication(w, garbled) ==
    /\ worker[w].at = "verify"
    /\ garbled => worker[w].endpoint = "authenticate"
    /\ LET response == AssertionResponse(worker[w].response)
           verdict == VerifyAuthentication(Config, worker[w].credential, worker[w].challenge,
                                           response, clock)
       IN  IF garbled \/ verdict # Ok
           THEN Respond(w) /\ UNCHANGED accepted
           ELSE /\ worker' = [worker EXCEPT
                                ![w].at = "write_back",
                                ![w].result = AuthenticationResult(worker[w].credential, response)]
                /\ accepted' = accepted \union
                                 {[session |-> worker[w].session, response |-> worker[w].response]}
    /\ UNCHANGED <<surroundings, pending_challenges, credentials, registered, raced>>

\* Mutant: the count expected next is stored.
WriteBackNextCount(w) ==
    /\ worker[w].at = "write_back"
    /\ LET id == worker[w].response.credential_id
       IN  credentials' = [c \in DOMAIN credentials |->
                             IF c = id
                             THEN [credentials[c] EXCEPT !.sign_count =
                                                            worker[w].result.new_sign_count + 1]
                             ELSE credentials[c]]
    /\ Respond(w)
    /\ UNCHANGED <<surroundings, pending_challenges, history>>

\* Mutant: the copy is written back whole.
WriteBackCopy(w) ==
    /\ worker[w].at = "write_back"
    /\ credentials' = With(credentials, worker[w].response.credential_id,
                           [worker[w].credential EXCEPT !.sign_count =
                                                           worker[w].result.new_sign_count])
    /\ Respond(w)
    /\ UNCHANGED <<surroundings, pending_challenges, history>>

\* The sign count, and nothing else, is written to whatever is stored now.
WriteBack(w) ==
    /\ worker[w].at = "write_back"
    /\ LET id == worker[w].response.credential_id
       IN  credentials' = [c \in DOMAIN credentials |->
                             IF c = id
                             THEN [credentials[c] EXCEPT !.sign_count =
                                                            worker[w].result.new_sign_count]
                             ELSE credentials[c]]
    /\ Respond(w)
    /\ UNCHANGED <<surroundings, pending_challenges, history>>

-----------------------------------------------------------------------------
\* Both maps live in memory only.  A restart takes a tick of the clock.
Restart ==
    /\ clock < MaxClock
    /\ clock' = clock + 1
    /\ pending_challenges' = NoEntries
    /\ credentials' = NoEntries
    /\ worker' = [w \in Workers |-> Idle]
    /\ UNCHANGED <<drawn, history, clientVars>>

Begin(s) == RegisterBegin(s) \/ AuthenticateBegin(s) \/ PasskeyAuthenticateBegin(s)

Serve(w) ==
    \/ TakeSession(w)
    \/ StoreCredential(w)
    \/ \E garbled \in BOOLEAN :
          \/ CompleteRegistration(w, garbled)
          \/ FindCredential(w, garbled)
          \/ CompleteAuthentication(w, garbled)
    \/ WriteBack(w)

Next ==
    \/ Tick
    \/ \E a \in Authenticators, id \in Ids, s \in Sessions, bs \in BackupStates :
          MakeCredential(a, id, s, bs) \/ GetAssertion(a, id, s, bs)
    \/ \E s \in Sessions : Begin(s)
    \/ \E w \in Workers, s \in drawn, m \in network :
          \E endpoint \in Endpoint(m) : Arrive(w, s, m, endpoint)
    \/ \E w \in Workers : Serve(w)
    \/ Restart

Spec == Init /\ [][Next]_vars

-----------------------------------------------------------------------------
(***************************************************************************)
(* Properties.                                                             *)
(***************************************************************************)

Busy(w) == worker[w] # Idle

\* Past the removal of its session.
HoldsSession(w) == worker[w].at \notin {"idle", "take"}

\* The maps are keyed as they should be and requests are well formed.
TypeOK ==
    /\ clock \in 0 .. MaxClock
    /\ drawn \subseteq Sessions
    /\ DOMAIN pending_challenges \subseteq drawn
    /\ \A s \in DOMAIN pending_challenges :
          pending_challenges[s] \in [bytes : {s}, created_at : 0 .. clock]
    /\ DOMAIN credentials \subseteq Ids
    /\ \A id \in DOMAIN credentials : /\ credentials[id].id = id
                                      /\ credentials[id].sign_count \in 0 .. MaxCount
    /\ \A w \in Workers :
          /\ worker[w].at \in {"idle", "take", "decode", "store", "verify", "write_back"}
          /\ Busy(w) => worker[w].session \in drawn /\ worker[w].response \in network
    /\ counter \in [Authenticators -> 0 .. MaxCount]
    /\ counterless \subseteq Authenticators
    /\ registered \subseteq drawn
    /\ raced \subseteq Ids
    /\ \A m \in network : m.credential_id \in Ids /\ m.challenge \in drawn

\* However requests for one session interleave, one of them gets its challenge:
\* the map entry is gone before anything else happens to the request
\* (register_complete, authenticate_complete, passkey_authenticate_complete).
SessionTakenOnce ==
    \A w \in Workers : HoldsSession(w) =>
        /\ worker[w].session \notin DOMAIN pending_challenges
        /\ \A v \in Workers \ {w} :
              HoldsSession(v) => worker[v].session # worker[w].session

\* A session authenticates at most once, and so does a response, however often
\* and to whichever session and endpoint clients deliver it, across restarts.
AcceptedOnce ==
    \A x, y \in accepted :
        x.session = y.session \/ x.response = y.response => x = y

\* A registration for the challenge of session s that makes `credential`.
Registration(m, credential) ==
    /\ m.type = "webauthn.create"
    /\ m.credential_id = credential.id
    /\ m.challenge = credential.user_id
    /\ PublicKey(m.authenticator) = credential.public_key

\* A registration takes effect once, and whole: a stored credential keeps its
\* key, owner, date and rp id until a client's registration of the same id for
\* another session replaces all of them.  What was replaced, or lost in a
\* restart, does not come back, whatever is delivered again or written late.
RegisteredOnce ==
    [][ \A id \in DOMAIN credentials' :
          LET credential == credentials'[id]
          IN  \/ /\ id \in DOMAIN credentials
                 /\ \A field \in {"public_key", "user_id", "created_at", "rp_id"} :
                       credential[field] = credentials[id][field]
              \/ /\ credential.user_id \notin registered
                 /\ \E m \in network : Registration(m, credential) ]_vars

\* A stored count is that of the registration stored, or was signed in an
\* assertion for that id that the server accepted, and by the key stored unless
\* the credential was replaced behind a request that held a copy of it.
StoredCountWasAccepted ==
    \A id \in DOMAIN credentials :
        LET credential == credentials[id]
        IN  \/ \E m \in network : /\ Registration(m, credential)
                                  /\ m.sign_count = credential.sign_count
            \/ \E x \in accepted :
                  /\ x.response.credential_id = id
                  /\ x.response.sign_count = credential.sign_count
                  /\ id \notin raced =>
                        PublicKey(x.response.authenticator) = credential.public_key

\* Credential.sign_count is documented as monotonically increasing: as long as
\* the entry is that of one registration, its count does not fall.
StoredCountNeverDecreases ==
    [][ \A id \in DOMAIN credentials \intersect DOMAIN credentials' :
          credentials'[id].user_id = credentials[id].user_id =>
             credentials'[id].sign_count >= credentials[id].sign_count ]_vars

\* Credential.backup_state is documented as updated from the result of every
\* successful authentication before the credential is persisted.
BackupStateFollows ==
    [][ \A w \in Workers :
          LET id == worker[w].response.credential_id
          IN  worker[w].at = "write_back" /\ worker'[w] = Idle /\ id \in DOMAIN credentials' =>
                 credentials'[id].backup_state = worker[w].result.backup_state ]_vars

\* As long as a request that holds a copy of a credential is the only one to
\* touch it, the server is a CredentialStore, in which a registration is never
\* used twice and counts only go up: a count takes effect when the assertion
\* that carries it is accepted.  From such a race on nothing is promised.
Written(id) == {w \in Workers : HoldsCopy(w, id) /\ worker[w].at = "write_back"}
StoredCount(id) ==
    IF Written(id) = {} THEN credentials[id].sign_count
    ELSE worker[CHOOSE w \in Written(id) : TRUE].result.new_sign_count

Entry(id) == [owner |-> credentials[id].user_id, count |-> StoredCount(id)]

Store == INSTANCE CredentialStore WITH
    Owners <- Sessions,
    used   <- registered,
    stored <- [id \in IF raced = {} THEN DOMAIN credentials ELSE {} |-> Entry(id)]

ImplementsCredentialStore == Store!Spec
=============================================================================
