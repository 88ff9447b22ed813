# Verification of caden

TLA+ specifications of the WebAuthn relying-party library in `src/src/` and of
its demo server `src/examples/server.rs`, from the octets an authenticator
sends to the credential a caller stores, model-checked with TLC, with most of
the safety properties and both refinements proved with TLAPS for every
instance. Every definition was translated from the Rust code; `PROJECT.json`
maps each one to the lines it stands for.

- [1. The system](#1-the-system)
- [2. The modules](#2-the-modules)
- [3. What is checked](#3-what-is-checked)
- [4. Fairness](#4-fairness)
- [5. What is proved](#5-what-is-proved)
- [6. Where code and documentation disagree](#6-where-code-and-documentation-disagree)
- [7. What is not modelled](#7-what-is-not-modelled)
- [8. Plan](#8-plan)

Run a check with `tlc -config MCServer.cfg MCServer.tla`, the proofs of a module
with `tlapm Server_proofs.tla`, and so for `Ceremony_proofs`, `Octets_proofs`,
`RelyingParty_proofs`, `Lifecycle_proofs`, `Provenance_proofs`, `Metadata_proofs`
and `Wire_proofs`.

## 1. The system

A relying party (a web site) issues a random *challenge*; a browser and an
authenticator answer with a signed *response*; the library decides whether to
accept it. There are two ceremonies: *registration* creates a credential,
*authentication* proves possession of one. The library owns no storage: the
caller keeps challenges and credentials, and passes them in.

| Component | Source | State | Operations |
|---|---|---|---|
| Ceremonies | `registration.rs`, `authentication.rs`, `client_data.rs`, `challenge.rs` | none (configuration is immutable after the builders) | `begin_registration`, `verify_registration`, `authentication_options`, `begin_authentication`, `verify_authentication` |
| Single-use challenges | `registration.rs` 377-414, 587-596; `authentication.rs` 237-247 | `used_challenges: Option<Arc<Mutex<HashSet>>>`, shared by clones of a `RelyingParty` | `enforce_single_use_challenges`, `clone`, and the check inside each ceremony |
| Challenge, Credential | `credential.rs` | `created_at`; sign count, backup state | `Challenge::new`, `is_expired` |
| Authenticator data parser | `authenticator_data.rs` | none | `parse_authenticator_data` and the COSE key parsers |
| Attestation statements | `attestation.rs` | none | `verify`, one verifier per format, the chain and the trust anchors |
| Metadata service reader | `metadata.rs` | none; its result becomes `authenticator_metadata` | `verify_and_parse_mds_blob`, `parse_aaguid`, `status_from_wire` |
| Demo server | `examples/server.rs` | `pending_challenges`, `credentials`, each behind a mutex | six HTTP handlers: begin and complete of registration, authentication and passkey login |
| Options and builders | `options.rs`, `registration.rs` 180-514, `authentication.rs` 96-121, `algorithm.rs` | the configuration | the builders; serializers of options, descriptors and extension inputs |
| Extensions | `extensions.rs` | none | the accessors of `ExtensionView` |
| DER writer | `der.rs` | none | `rsa_components_to_der` and what it is built from |
| Errors, crypto | `error.rs`, `crypto.rs` | none | error values; calls into `ring` |
| Simulated authenticators | `examples/demo.rs`, `examples/mds_metadata.rs` | key pairs | encode keys and authenticator data, sign |

**How they interact.** A handler of the server opens a session with `begin_*`,
remembers the challenge, and on `complete` takes it out of the map, calls the
ceremony and writes the outcome to `credentials`. A ceremony checks expiry and
client data, consults the single-use set if there is one, then calls the
authenticator data parser, the policies, the metadata, the attestation
verifier (registration) or the signature check and the sign-count rule
(authentication). The metadata that registration consults was installed by the
caller from `verify_and_parse_mds_blob`.

The options go to a browser as JSON, and with them the extension inputs; the
outputs come back in the authenticator data and are read through
`ExtensionView`. What the browser is told (algorithms, timeout, user
verification) and what the ceremony later checks are computed separately from
the same configuration, which may have been replaced in between.

**What is hard here, and what would make each part correct.**

- *Ceremonies.* Two long sequences of early returns whose order matters, under
  a configuration of eight policies. A response with any fault must be refused
  by every configuration, a sound one accepted by every configuration that has
  no reason to refuse it, a stricter configuration may only accept less, and
  the clone alarm must not be raised by data nobody signed.
- *Single-use challenges.* Threads race through lookup and insertion; an early
  return happens under the lock; a failure before the set must leave the
  challenge good and a failure after it must not. At most one call per
  challenge gets through; everyone returns.
- *Demo server.* Requests interleave between lock acquisitions; a client may
  deliver a response twice, late or to another session, and register an id
  that is stored already; a credential is verified as a copy and written back
  later. A session is taken once, an assertion accepted once, a registration
  stored once and whole, the stored count one that the stored key signed.
- *Options.* A client that does as the options say must never be locked out by
  what they left unsaid; what an extension is asked must be what is answered.
- *Parsers.* In authenticator data, DER and the TPM's structures each field
  begins where one of variable length ended. What is accepted must be exactly
  what was encoded; nothing shorter is accepted.
- *Attestation.* Seven formats with optional fields bind a credential key to
  authenticator data and client data in seven ways. What is accepted as
  attested was attested, what is accepted as anchored was certified by an
  anchor, and trust anchors only take away.
- *Metadata.* Statuses of one model are spread over entries, some of which must
  be skipped, in a list that may be altered on the way. What is installed is
  what the service said, and no compromise is hidden.

The hazards, each at its line and with the properties that cover it or the
reason none does, are listed in `PROJECT.json`.

## 2. The modules

```
Ceremony <-- RelyingParty --implements--> SingleUse
  ^ ^-- Server            --implements--> CredentialStore
  | ^-- Certificates <-- Attestation <-- Provenance
  |            ^-- Metadata
  ^-- Octets <-- AuthenticatorData <-- Extensions ----------+
        |                ^-- SoftwareAuthenticator --+      |
        ^-- Options -----------------------------> Client <-+ <-- Lifecycle
        |                                            +-- Attestation (instance)
        ^-- Der, Tpm; with SoftwareAuthenticator and Extensions: Wire
                                                     +-- Attestation (instance)
```

Every `MC*` module instantiates the module it is named after, and every
`*_proofs` module has the theorems of the module it is named after;
`Octets_proofs` has those of `SoftwareAuthenticator` and `AuthenticatorData`
together. All rest on the lemmas of `Ceremony_proofs`, `Lifecycle_proofs` and
`Wire_proofs` on those of `Octets_proofs` too. (`<--` is EXTENDS.)

A comment that begins with `Mutant:` marks an altered copy of the
definition that follows it; no specification uses it. Replacing the definition
by it must make a property fail, which shows that the property depends on that
piece of the code.

### Ceremony

Pure operators. `Check(failed, error)` is one `if .. { return Err(..) }`, a
ceremony is the sequence of its checks in source order, and `FirstError` is
its verdict. `Binding` is everything before the single-use set (expiry, client
data), `RegistrationBody` and `AuthenticationBody` everything after it;
`VerifyRegistration` and `VerifyAuthentication` are the whole ceremonies for a
relying party that keeps no set. `NewCredential` and `AuthenticationResult` are
what the caller receives on success.

Data are abstracted to what the checks tell apart: byte strings are compared
for equality only; a hash is the value it is taken of; a signature is the
triple of key, authenticator data and client data and verifies exactly when
those are equal. `attestation` and `parse` in a response are the verdicts of
the two parsers; `Lifecycle` computes them with the modules of the parsers,
`RelyingParty` and `Server`, whose concurrency does not depend on them, choose
them. `WebAuthnErrors` are the variants of `error.rs`.

### RelyingParty, SingleUse

Threads inside `verify_registration` or `verify_authentication`. The state is
the system clock (which may be set back), when each challenge was drawn, the
cell (allocation of the set) behind each handle, the contents and the lock
holder of each cell, and for each call its place, arguments and verdict.

| Action | Code |
|---|---|
| `IssueChallenge` | `Challenge::new` in `begin_registration` and `authentication_options` |
| `Clone`, `EnforceSingleUseChallenges` | `#[derive(Clone)]`, the builder: a new empty set, or none |
| `Invoke` | a caller's call with a challenge and a response |
| `CheckBinding` | expiry and client data; goes to the lock, or past it when there is no set |
| `Lock`, `Lookup`, `Insert` | `lock()`, `contains` with its early return (which drops the guard), `insert` and end of the block |
| `CheckBody` | the rest of the ceremony, on local data |

`SingleUse` says the same with no lock, no set and no order of checks: calls
claim tokens, one call per token.

### Server, CredentialStore

The `begin` handlers are one step (one map is written under one lock; the
lookup in `authenticate_begin` cannot be invalidated except by a restart,
which ends the handler too). The `complete` handlers are cut at each lock
acquisition: `TakeSession`, `CompleteRegistration`, `StoreCredential`,
`FindCredential` (which clones the credential), `CompleteAuthentication`
(lock-free, on the clone), `WriteBack`. `worker[w].at` is where the request is.
Authenticators and clients are external: `MakeCredential` and `GetAssertion`
put responses into `network`, from where `Arrive` takes them any number of
times, for any session and either endpoint. `Restart` empties both maps, drops
every request in progress and takes a tick of the clock.

A credential id is what a client says it is: the server accepts `none`
attestations, and `register_complete` inserts over whatever has the same id
(`server.rs:259-263`). So any key pair may register any of `Ids` in any
session, as often as it likes, `StoreCredential` replaces the entry, and
`RegisteredOnce` says what is promised nevertheless: an entry changes its key,
owner, date or rp id only to those of a registration that was not stored
before. The sessions whose registration was stored are remembered in
`registered`, the accepted assertions in `accepted`. `raced` remembers the
credentials of which a copy was in use while another request took one too, or
while a registration replaced the entry.

`CredentialStore` is the promise about registrations and counts: a registration
is stored at most once, on a free id or in place of what was there; from then
on the count is strictly increasing (or silent). It is implemented until a
credential is raced; finding 1 is what happens then.

### Octets, AuthenticatorData, Extensions

A buffer is a sequence of octets; the first octet of a CBOR item or a digest
carries its value and its length (that is what `ciborium` would return with its
cursor). `Octets` has what the parsers share. `AuthenticatorData` is the parser
octet by octet: header, flags, attested credential data with the three key
types, extensions. `Extensions` has the six accessors of `ExtensionView`, each
over a map whose entries may have any type, value or multiplicity.

### Der, Tpm

`Der` is the writer of `der.rs` and the reader of `attestation.rs` 1521-1730:
`der_parse_tlv` with its word of `WordOctets` octets, and the three functions
that search a certificate for an identifier and read on from there. `Tpm` is
the cursor over `pubArea` and `certInfo` (`tpm_read_*`, `tpm_skip`), the name of
an area, and the two comparisons.

### SoftwareAuthenticator, Wire

`SoftwareAuthenticator` writes what the authenticator simulated by
`examples/demo.rs` writes (keys, authenticator data, attestation objects, with
the RSA key taken apart again as `extract_rsa_components` does) and has
`parse_attestation_object`. `Wire` is a state machine over all of these: a
source of one of seven kinds is written, its buffer is damaged (`Truncate`,
`Extend`, `FlipFlag`, `Overwrite`) and read by the reader for that kind. `RecordsAgree`
ties the octets of a TPM to the records by which `Attestation` represents them.

### Options, Client, Lifecycle

`Options` has the builders, `begin_registration`, `authentication_options` and
every serializer. A serializer of the code announces the number of entries
before it writes them, so a JSON object is the announced size and the entries.
`Client` is external: a browser that reads the options, an authenticator that
answers every extension input it knows, and the packed self attestation it
makes; and the library's reading of both, by `ParseAttestationObject`,
`ParseAuthenticatorData` and `Verify` of `Attestation`.

`Lifecycle` is a caller that follows the documentation: one credential,
ceremonies one after the other, the new sign count *and* backup state
persisted.

| Action | Code |
|---|---|
| `AskRegistration`, `AskAuthentication` | `begin_registration`, `authentication_options`; the serialized options become `pending` |
| `Register`, `Authenticate` | the client's answer to `pending`, from octets to verdict, and the caller's write on Ok |
| `Deploy` | the relying party is replaced by one of another configuration, between ceremonies or in the middle of one |
| `Restore` | the device is restored from a copy with an older counter |

An answer carries at most one fault; a client may also ignore the options. The
counter wraps around. Each answer a device can give is written and parsed once,
in `AttestationResponses` and `AssertionResponses`, which makes the run short
and changes nothing.

### Certificates, Attestation, Provenance

`Certificates` has what attestation and metadata share: `verify_chain_order`,
`cert_signed_by`, the signature checks with a certificate's key, and
`split_jws_with_x5c`. `Attestation` is `attestation::verify` and the verifier of
each of the formats, check by check in source order, as an operator of the
attestation object and the trust anchors. `Provenance` is the state machine
around it: an authenticator makes an attestation, and parts of it are lost,
mistyped, truncated or exchanged with those of other attestations. Nothing on
the way can sign. Certificates and TPM structures are records there; `Wire`
reads their octets.

### Metadata

`ParseAaguid` works on characters with their UTF-8 width, since the code slices
the string by octets; `VerifyBlob` is the sequence of checks, `ParseEntries` the
fold over the entries. The service reports entries and signs lists, a BLOB is
fetched and altered on the way, and the caller installs what it verified.
`CompromiseNotHidden` composes it with the check in `Ceremony` that refuses a
compromised model.

## 3. What is checked

Every property has a mutant: a plausible bug in a mapped definition under which
TLC finds the property violated with the same configuration.

| Run | What it shows | Distinct states |
|---|---|---|
| `challenges` | No more than one call per challenge passes the set, over all clones and both ceremonies; a challenge is spent only by a call that passed the binding checks; the lock protects what a thread read; `ChallengePreviouslyUsed` is always true | 742 000 |
| `challenges_fair` | Every call returns; the implementation refines `SingleUse` | 19 700 |
| `lifecycle` | Faulty responses are refused by every configuration, answers that obey the options accepted unless the configuration objects to what no option speaks of; stricter accepts less; what was accepted was offered; the clone alarm is genuine; options are well formed; extensions are answered as asked; accepted counts increase | 55 000 |
| `server` | Sessions taken once, assertions accepted once, registrations stored once although an id may be registered again, stored counts signed by the key stored; the server refines `CredentialStore` while no credential is raced | 1 479 000 |
| `octets` | What is written is read back; whatever of a damaged buffer is accepted stands in it at its declared length; no strict prefix is accepted; parsed keys convert; key order is irrelevant; typed views say what was written; TPM records agree with their octets | 60 000 |
| `attestation` | Genuine attestations accepted at their grade; what is accepted was attested; an anchored leaf was certified by an anchor; anchors only restrict | 357 000 |
| `metadata` | What is installed was served; no compromise hidden; what was served is accepted | 566 000 |
| `server_lost_update`, `server_backup_state`, `attestation_es384`, `metadata_malformed`, `der_length` | Five disagreements, see section 6 | |

**Bounds, and why they are enough.**

- `challenges`: three calls are needed for one to hold the lock, one to wait for
  it and one to be refused; two handles and two cells for a clone made before
  and one made after enforcement is switched on. Challenges do not interact
  (the set is consulted for one at a time), so one is enough; the clock has two
  readings, of which one is the expiry boundary (`max_age` 1). The submissions
  are one for each place a call can return from. Calls, handles and cells are
  interchangeable, hence symmetric.
- `challenges_fair`: no symmetry (liveness), one cell, a fixed clock and two
  submissions. `SingleUse` constrains the order of claims and answers, which a
  second cell would only repeat.
- `lifecycle`: the counter is 2 bits wide and wraps at 3 (`MaxCount`); the rule
  compares two counts and zero, so four values have every order. Ages are the
  last moment before the timeout, the expiry boundary, and before issue
  (`Timeout` 2, the age limit of the configurations, as 300 000 ms is of
  300 s). The eight configurations differ from the default in one builder each
  (two with a selection of authenticators), and the last is strict throughout.
  Four devices, one for each algorithm, with and without a counter, eligible
  for backup or not, attesting or not, of a sound, an updated and a revoked
  model; the one with ES384 does not attest (finding 3). Three extension
  requests for each ceremony, among them none; an answer with a fault carries
  no extensions, since no check reads both, and a device that does not attest
  has no attestation to be wrong.
- `server`: two requests at once, three sessions, one credential id that both
  of two key pairs may register, each with or without a counter, three
  different responses (`MaxResponses`) delivered any number of times, counts up
  to 2, and a clock of one tick, which a restart may take. So one id is
  registered by one key and by the other while an assertion is in progress, or
  registered once and asserted twice. Entries do not interact, each is read and
  written under its own id, so one id is enough. A third worker adds no new
  pair of conflicting steps: every conflict in the code is between two
  acquisitions of one lock. The backup state is fixed here and varies in
  `server_backup_state`; that run and `server_lost_update` have one key pair.
- `octets`: authenticator data of every shape (AT, ED, both, neither), with every
  key type and every defect of a key, identifiers of 0, 1, 1023 and 1024 octets
  and one that wraps an encoded key; extension outputs of each kind with the
  numbers around each limit; attestation objects with fields repeated, mistyped
  and missing; RSA keys of the lengths that carry each of the nested DER lengths
  over a change of form; Apple and P-256 certificates; `pubArea` and `certInfo`
  that fit and that differ in one field. Two damages: cuts at and around the
  boundaries, any flag, and the octets of every length overwritten with values
  that shorten it, lengthen it, or turn it into the long form of one or two
  octets. Scaled: a usize has 3 octets (`WordOctets`), more than any length form
  among the damages fills; a u32 is 16 bits (`MaxU32`) where an extension is
  converted to it; an encoded CBOR item takes 3 octets (`ItemOctets`), as the
  parsers ask only where it ends.
- `der_length`: the Apple certificates, a usize of 2 octets, and a form of 3
  octets among the damages: the smallest instance of a length longer than the
  word, which is 9 octets against 8 in the code.
- `attestation`: one attestation of each format (two of `packed` and of self),
  chains of one and two certificates, two roots, three edits: enough to take
  two parts of another attestation and change the format.
- `metadata`: AAGUIDs of two octets in place of sixteen (`AaguidLen`; the parser
  treats all pairs alike), two entries per list so that every ordered pair of
  entries meets, two lists so that an old one may replace a new one.

`CHECK_DEADLOCK FALSE` stands where the modelled world may stop: all calls have
been made, all sessions drawn, or all damage done.

## 4. Fairness

Only `challenges_fair` uses it: weak fairness of `Step(c)` for each call `c`. A
thread inside a call is scheduled by the operating system; it waits for
nothing but the mutex, and whoever holds that is inside a block of two set
operations. Weak fairness is enough although `Lock(c)` is enabled and disabled
as others hold the lock, because every call passes the lock once and there are
finitely many calls. Nothing else is fair: clients need not answer, callers
need not call, the clock need not move. The other modules have no liveness
property because the code makes no such promise: their operations return
without waiting.

## 5. What is proved

The theorems hold for every value of the constants: any number of threads,
workers, sessions, authenticators, configurations and edits, and chains, lists
and options of any length.

| Theorem | States | What it rests on |
|---|---|---|
| `RelyingParty_proofs` | | |
| `TypeCorrect`, `SetProtected`, `SingleUseEnforced`, `BindingFailureSpendsNothing` | `[]TypeOK`, `[]LockProtectsSet`, `[]AtMostOneClaim`, `[]OnlyClaimsSpend` | the inductive invariant, their conjunction |
| `ReplayErrorsTrue` | `[]ReplayErrorIsTruthful` | no check but the set answers `ChallengePreviouslyUsed` |
| `SingleUseImplemented` | `ImplementsSingleUse` | step simulation |
| `Server_proofs` | | |
| `TypeCorrectness`, `SessionsTakenOnce`, `AssertionsAcceptedOnce`, `StoredCountsWereAccepted` | `[]TypeOK`, `[]SessionTakenOnce`, `[]AcceptedOnce`, `[]StoredCountWasAccepted` | the inductive invariant |
| `RegistrationsTakeEffectOnce` | `RegisteredOnce` | the inductive invariant, and what a write to the map changes |
| `CredentialStoreImplemented` | `ImplementsCredentialStore` | step simulation |
| `Octets_proofs` | | |
| `WrittenParsed` | authenticator data that is accepted is read as it was written | where each octet of the encoding stands |
| `WellFormedParsed` | what is well formed is accepted, and read with its extensions | the same |
| `TruncatedRefused` | without its last octet it is refused (data without extensions) | the same, for each section that may be cut |
| `AttestationObjectParsed` | an attestation object is read as it was made | the entries under each key |
| `Lifecycle_proofs` | | |
| `TypeCorrect`, `FaultsRefused`, `CountsIncrease`, `AcceptedOffered` | `[]TypeOK`, `[]FaultyNeverAccepted`, `AcceptedCountsIncrease`, `[]AcceptedWasOffered` | the inductive invariant, and `Octets_proofs` |
| `OptionsAlwaysReadable` | `[]OptionsReadable` | the size and depth of each serializer's list |
| `RestrictionsOnlyRestrict` | `[]LenientAcceptsMore` | each check reads the configuration on one side |
| `CloneAlarmsGenuine` | `[]CloneAlarmIsGenuine` | the order of the checks, and the errors of the parser |
| `ConformingNeverLockedOut` | `[]ConformingAccepted` | the inductive invariant, `WellFormedParsed`, and that a key of its algorithm's size is parsed |
| `ExtensionsComeBack` | `[]ExtensionsAnswered` | the inductive invariant, `WellFormedParsed`, and lists of optional entries |
| `Provenance_proofs` | | |
| `TypeCorrectness` | `[]TypeOK` | what each verifier can answer |
| `AttestationsAuthentic` | `[]OriginAuthentic` | the inductive invariant |
| `GenuineAttestationsAccepted` | `[]GenuineAccepted` | what each verifier answers to what `IsMade` describes |
| `AnchoredLeavesCertified`, `AnchorsOnlyTakeAway` | `[]AnchoredLeafCertified`, `[]AnchorsOnlyRestrict` | what a chain is answered with |
| `Metadata_proofs` | | |
| `TypeCorrectness`, `EntriesServed`, `CompromisesShown`, `ServedAccepted` | `[]TypeOK`, `[]InstalledWasServed`, `[]CompromiseNotHidden`, `[]ServedIsAccepted` | the inductive invariant and the closed form of the loop |
| `Wire_proofs` | | |
| `TypeCorrect` | `[]TypeOK` | which errors each reader has, and what damage leaves of a buffer |
| `KeysUsable` | `[]KeyAlwaysUsable` | what a key that is let through has under each label |
| `OrderIrrelevant` | `[]KeyOrderIrrelevant` | a map without duplicates is a function of its labels |
| `RecordsStandForOctets` | `[]RecordsAgree` | where each field of a TPM's structure stands, and that a reader arrives there or fails |

### The arguments

**Ceremonies** (`Ceremony_proofs`, lemmas only). A line of checks is left at the
first that fails: `FirstErrorIsFirst`, `PassedIff`, `FirstErrorOfConcat`. From
these, `BindingAnswer`, `RegistrationBodyAnswer` and `AuthenticationBodyAnswer`
give the verdict of each ceremony as one nested conditional, for any
configuration and response. All the other modules cite them.

**Single use.** The inductive invariant is
`IInv == TypeOK /\ LockProtectsSet /\ OnlyClaimsSpend /\ AtMostOneClaim`.
`AtMostOneClaim` alone is not inductive: the call that inserts must know that no
other call has claimed its bytes. `LockProtectsSet` supplies it in two parts:
the bytes a call found missing are still missing when it inserts, and whatever
has been claimed is in the set. The first part survives another call's
insertion only because both would have to hold the same lock, which is the
remaining conjunct. `OnlyClaimsSpend` rides along: `Insert` adds and claims in
one step, and a replaced cell is one nothing refers to. For the refinement, the
claimants of a token have at most one member, which is the winner that the
mapping names; `Insert` is the abstract claim, every other step answers or
stutters.

**Server.** None of the invariants is inductive alone. `IInv` adds the types of
everything (`Types`), what a request holds at each point of its handler
(`Progress`: the registration or the assertion it stands for, under its own
session), that the challenge under a pending session is the session's own
(`Pending`), that a stored credential is one some client registered and that a
session whose registration has been stored is neither pending nor in use
(`Registered`), what an accepted assertion has used up (`Authenticated`), and
that without a race a request's copy is the only one, and has the key and the
count of the entry (`CopiesCurrent`). `RegistrationsTakeEffectOnce` needs
`Registered`: a request about to store holds its session, so the session is not
among those stored. `CopiesCurrent` is what ties a written count to the key of
the entry, and what the refinement needs; it fails in finding 1 once two
requests hold copies. A write-back is a stutter of `CredentialStore`: the
abstract count rises when the assertion is accepted.

**Options and ceremonies of one credential.** The first part of
`Lifecycle_proofs` shows of each serializer that the size it announces is the
number of entries it writes, that no name occurs twice, and how deep it nests
(`Depth0` to `Depth4`), entry by entry (`Listing`); `AllOffered` reads the
algorithms back from them.

The invariant of `Lifecycle_proofs` has three strengthenings. `AttemptExplained`
remembers that the last verdict is the one the deployed configuration gives to a
response its authenticator can have made; the verdict of a ceremony is then
known from `Ceremony_proofs`. `KnownTo` says that what is stored is the
credential of the device: without it an assertion with another key could not be
told from a good one, nor backup flags that disagree with the registered ones
from those that agree. `Timely` says that a response whose fault is its age
comes at that age, which depends on the timeout that the options carried
(`Asked`). With these, `FaultsRefused` goes through the faults: those of the
client data by `BindingFaults`, those of the authenticator data by
`PresenceFaults` and `WrittenParsed` (what the library reads of them is what the
authenticator put there), a key that does not parse by `KeyVerdicts`, a forged
self-attestation by `ForgedAttestation`, and those of an assertion by
`FaultyAssertionRefused`. `AcceptedOffered` computes the algorithm that the
parser reads from each of the four encodings (`KeyAlgorithm`).
`CloneAlarmsGenuine` says that at an alarm the client data, the rp id and the
signature were good and the count had not advanced: the checks before the last
one have passed (`AuthenticationVerdict`), and no error of the authenticator
data parser can be mistaken for the alarm (`AuthenticatorDataVerdicts`).
`RestrictionsOnlyRestrict` compares verdicts only. The
invariant chooses a credential from no set, which TLC cannot evaluate; with the
choice made from `attempt.against` TLC found it true of the instance of
`MCLifecycle`.

`ConformingNeverLockedOut` is the converse of `FaultsRefused`: it goes through
every check of a ceremony and shows that a response without a fault passes
(`FaultlessRegistration`, `FaultlessAssertion`). For that the invariant also
remembers of a client that obeyed the options that its algorithm was on offer
and its user verified if that is required; `KnownTo` that the credential was
registered at the site of some configuration, hence, there being one site, of
the one now deployed; and `KeyOfSizeRead` shows of each of the four encodings
that the parser takes it, label by label (`FourEntries`, `FiveEntries`).

For `ExtensionsComeBack` the invariant remembers that the outputs of the
authenticator answer the request that was made (`Extended`). Options, inputs,
outputs and views are lists of optional entries in one order: `FiveListed` says
which entry is found under each name whichever of the five are there. With it
`RegistrationAnswered` and `AuthenticationAnswered` compute the outputs from
the request, `AnsweredViews` the views from the outputs, and `OutputsReadBack`
connects them through the octets.

**Octets.** `Encode` joins a header of 37 octets, the attested credential data and
the extensions. `Joined` says where the parts of a concatenation stand; from it
`HeaderParsed`, `AttestedParsed` and `FlagsRead` compute what
`ParseAuthenticatorData` finds at each offset, for identifiers of every
admissible length. Numbers are read from two or four octets, so that no
induction is needed: `BigEndian` is unfolded as often as there are octets.

While proving these, four definitions (`DerLength`, `AddParsed`,
`LargeBlobOutput`, `ClientData`) turned out to be written with a `CASE` whose
arms overlap: TLC takes the first arm, TLA+ leaves the choice open, and the
theorems did not follow. They are conditionals now, in the order of the code's
`match` arms and early returns.

**Attestation.** Each verifier is answered with one error whatever the anchors,
with the grade its chain deserves, or with `SelfAttestation`, and in the last
two cases it has seen a signature, or Apple's nonce, over these data
(`VerifyAnswer`). The invariant `Traceable` says that, whatever the edits, each
signature in the message was made by an authenticator over what it attested, and
each certificate has the key and the nonce of one that was issued.
`OriginAuthentic` is not inductive, since it speaks of messages that are
accepted and an edit may turn a refused one into one of those; it follows from
`Traceable`, because the evidence of a grade fits one kind of maker only: a key
that attests itself is in no certificate. `GenuineAttestationsAccepted` goes the
other way, format by format: what `IsMade` says of an attestation makes each
check of its verifier pass, and `ChainAnswer` grades it.
`AnchoredLeavesCertified` goes along the chain by a least counterexample, since
induction over data cannot be used.

**Metadata.** The signature covers the payload, so a BLOB that is accepted has a
payload the service signed (`AcceptedWasServed`), however it was altered.
`EntriesParsed` gives the loop over the entries in closed form: the statuses of
a model are those of all its readable entries, wherever they stand. It is
proved by the least turn at which the loop would differ.

**Damaged octets.** The invariant of `Wire_proofs` is that damage leaves a buffer
(`IsBuffer`): octets, the items among which are lists of entries. `TypeCorrect`
then collects the errors of each reader, check by check. For `KeysUsable`, a key
that passes `ParseCoseKey` has under each label it needs the only value of that
type (`GetOne`, `KeyAccepted`), which fixes its type, algorithm and conversion.
`OrderIrrelevant` rests on the search for duplicates: a map without them is a
function of its labels, which reading backwards does not change
(`GetPermuted`), and with them both orders are refused (`DuplicatePermuted`).

**A TPM's octets.** `RecordsStandForOctets` is what allows `Attestation`, and the
theorems of `Provenance`, to speak of records: for fields of any content and
length, octets that arrive whole or cut short anywhere have the verdict of their
record. `Holds` says where a part stands in what was written
(`CertInfoStands`, `PubAreaStands`), `Begins` what has arrived of it. Along the
readers, `Reached` is kept (`PartRead`, `BlobRead`): a reader has either the part
it is to read and the position after it, or a failure, and that only if what has
arrived ends first; so the last reader succeeds exactly on the whole
(`EccPubAreaRead`, `RsaPubAreaRead`, `CertInfoRead`). That both structures remain
lists however they are damaged (`Listed`) is the invariant.

### The assumptions

Each is an `ASSUME` of the module that declares the constants, which TLC
evaluates for the instances it checks.

| Assumption | Says | Why the code justifies it |
|---|---|---|
| `SentinelAssumption` | values that stand for "none" are not real ones | `Option` and enum variants are distinct |
| `SubmissionsAssumption` | the verdicts chosen for the parsers are not the two that only the ceremony gives | each parser has its own errors; for authenticator data proved in `Lifecycle_proofs` |
| `BoundsAssumption`, `CounterAssumption`, `ScaleAssumption`, `EditsAssumption`, `TimeoutAssumption` | bounds are natural numbers, a backup state is a Boolean | they have unsigned types; a flag is a bit |
| `PoliciesAssumption` | the age limit is a natural number, the algorithms listed are finitely many, and no configuration is that of the other relying party (`elsewhere`) whose responses are the faulty ones | `challenge_max_age_secs: u64`, `allowed_algorithms: Vec`; the fault would not be one |
| `DevicesAssumption` | a device's algorithm is one of the four, its AAGUID has 16 octets, its flags are Booleans | what an authenticator is; nothing is assumed of its key, which need not be well formed |
| `AttestationsAssumption` | attestations are as an authenticator makes them (`IsMade`): a key that attests itself is in no certificate; issued certificates are well formed, and have a nonce only where Apple issued them for an attestation | the external world the property is about: key pairs are not shared |
| `EntriesAssumption` | an AAGUID, if there is one, is a string | `Option<String>` |
| `DamageAssumption`, `SourcesAssumption` | damaged octets are octets; what is written of authenticator data is a list of octets, and the maps among its items lists of entries; the fields of a TPM's structures are lists of octets, two for an ECC key and one for an RSA key, and the key they are compared with is one of three types | `&[u8]`, what `ciborium` returns, and what the structures of a TPM consist of |
| `SignerAssumption` | the service signs with a P-256 key and has a valid chain | what the service publishes |

Some theorems have a hypothesis besides. Each of them is a formula on the
constants, and the `MC` module assumes the same of its own, so that TLC confirms
that it can be met.

| Hypothesis | Of | Says | What it leaves out |
|---|---|---|---|
| `Readable(Entries)` | the theorems of `Metadata_proofs` | every AAGUID is well formed or is skipped | the strings of finding 4, for which three of the properties fail |
| `\A made \in Attestations : Conforming(made)` (`Provenance`) | `GenuineAttestationsAccepted` | attestations are what a conforming authenticator makes | the defects that a verifier is there to refuse |
| `Conforming` (`Lifecycle`) | `ConformingNeverLockedOut` | every configuration is of the client's site and allows its origin; the timeout ends no later than the challenge; keys have the size of their algorithm; no device attests with ES384 | a site that moves, whose credentials are rightly refused; a `challenge_max_age_secs` below the timeout offered; malformed keys; finding 3 |
| `Asking` | `ExtensionsComeBack` | a request for extensions asks for something, each field an `Option`; a u32 holds the PIN length; only a registration asks what only a registration can | a request in which nothing is asked, to which the authenticator adds no extensions at all |

### Only model-checked

- `EveryCallReturns`: liveness under fairness is beyond the prover.
- `Wire`: `RoundTrip`, `ExtensionsReadBack`, `NothingInvented` and
  `NoPrefixAccepted`. The first two compare with answers that are given with
  each source, so that a theorem would have to assume what it says; what
  `RoundTrip` says of authenticator data and of attestation objects is proved for
  every content in `Octets_proofs` (`WellFormedParsed`, `AttestationObjectParsed`).
  The others are about DER too, where what is read depends on searches over
  sequences of any length; that no strict prefix of a TPM's structure is accepted
  follows from what `RecordsStandForOctets` rests on.

## 6. Where code and documentation disagree

1. *A stored sign count can fall* (`server_lost_update`). Two assertions are
   verified against copies of one credential and written back in the other
   order (`server.rs:389`). `credential.rs:110` calls the count monotonically
   increasing.
2. *The backup state is not updated* (`server_backup_state`). The server writes
   back the sign count and nothing else; `credential.rs:137-139` asks for both.
3. *ES384 self-attestation is refused* (`attestation_es384`). The match at
   `attestation.rs:595` has no arm for it, although ES384 is offered by
   `begin_registration` and packed self-attestation is documented as fully
   verified.
4. *A malformed AAGUID is not skipped* (`metadata_malformed`). A letter of two
   octets at an odd offset makes the slice at `metadata.rs:273` panic, against
   `metadata.rs:189-190` and `lib.rs:87` ("No panics"); a misplaced hyphen or a
   plus sign is accepted.
5. *A DER length may be longer than a word* (`der_length`). `der_parse_tlv` shifts
   the octets of a length into a usize (`attestation.rs:1659`) and loses what is
   shifted out, so an element that declares more than the buffer holds is
   accepted; `attestation.rs:1645-1646` promises `None` "if the slice is too
   short". What is returned still lies within the buffer.

Noted while modelling, without a property: the metadata reader may answer with
`InvalidAttestationObject` (`metadata.rs:234`), which its documentation does not
list; the RSA exponent in a TPM's `pubArea` is not compared
(`attestation.rs:1348`); the number and the date of the next update in a BLOB
are not read, so an older list may replace a newer one. The server replaces the
credential of an id that is registered again (`server.rs:259-263`): `lib.rs:91`
leaves uniqueness to the caller, and this caller does not check it. Two
documents are behind the code: `registration.rs:102-104` lists the algorithms
of the default without ES384, and `security-considerations.md:34` names the
error of a used challenge `ChallengeAlreadyUsed`.

## 7. What is not modelled

- X.509: that a certificate parses, its names, its basic constraints and its
  extensions other than Apple's nonce are fields of a record (`x509-parser`
  decides them).
- Authenticators whose keys are shared, or that sign for an id they have not
  made: in `Server` an assertion follows a registration of its id by its key, without
  which no stored key can verify it.
- Non-empty `excludeCredentials` and transports: `Options` has their
  serializers, the runs of `Lifecycle` send neither (`OptionsAlwaysReadable`
  holds for the requests of `Lifecycle` too).
- Which algorithms an earlier configuration offered: `AcceptedWasOffered`
  compares an accepted credential with what the configuration that accepts it
  offers.
- Persistence: the server keeps nothing over a restart, so there is no recovery
  to check.
- Base64url and text: an encoded field is the value it encodes; a field that
  does not decode is a fault of its own in `Server`.
- The derived serde implementations of stored types, error messages, benches,
  fuzz targets and the test-vector generator: linear code without state. The
  order of calls in the examples is one path of `Lifecycle` and `Metadata`.
- How CBOR is encoded: `Wire` damages the octets around an item, and a damaged
  item is one that `ciborium` refuses.
- `ring` and `ciborium`: represented by what they promise.
- A poisoned mutex: nothing inside the guarded blocks of the library panics.
- The order of the statuses kept for a model: registration only asks whether
  one of them is a compromise.
- Growth of `used_challenges` and `pending_challenges` without bound: a fact of
  the design that no promise contradicts.

## 8. Plan

Written in this order, the most important behaviour first: `Ceremony`,
`RelyingParty` with `SingleUse` and the proofs, `Server` with `CredentialStore`,
`Certificates`, `Attestation`, `Provenance`, `Metadata`; then the octets
(`Octets`, `AuthenticatorData`, `Extensions`, `Der`, `Tpm`, `Wire`) and the
composition from options to stored credential (`Options`, `Client`,
`Lifecycle`). The theorems followed the same order.

Left: that no strict prefix of a certificate or of a TPM's structure is accepted
(`TruncatedRefused` says it of authenticator data without its last octet), and
that what the DER and TPM readers return lies within the buffer.
