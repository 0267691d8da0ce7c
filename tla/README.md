# A TLA+ verification project for libfcp

libfcp is a Rust workspace with two halves. The **FCP library** lets the members
of a federation set up authenticated peer-to-peer control channels over signaling
nobody trusts, and routes CFR messages over them. The **Fabric authority** is a
service on PostgreSQL that keeps accounts, logins, browser sessions and the
administration of federations. This directory models the state machines of both,
checks them with TLC on small instances and proves their safety properties with
TLAPS for all instances.

## 1. Inventory

| Component (crate, files) | State | Operations | Interacts with | Modelled in |
|---|---|---|---|---|
| Connection core (`libfcp-core/connection.rs`) | phase, negotiation (offer id, answer id), replay window | `begin_offer`, `answer`, `candidate`, `cfr_control`, `close`, `receive`, `transport_connected`, `transport_failed` | its peer through any carrier; the adapter through returned actions | `FcpConnection` |
| Signed envelopes (`libfcp-core/envelope.rs`, `identity.rs`) | none | sign, verify, id, encode, decode | every envelope of the core | abstracted in `FcpConnection` |
| Federation configuration (`libfcp-core/configuration.rs`) | none | validate, sign, verify | server and client | `FederationClient` |
| Federation server (`libfcp-server/server.rs`) | current configuration | `new`, `replace_members`, `publish` | a control plane that owns the epoch; clients through any carrier | `FederationClient` |
| Federation client (`libfcp/client.rs`, `bindings.rs`, `directory.rs`, `bridge.rs`) | accepted epoch, bindings, connection directory | `new`, `apply_configuration`, `insert_connection`, `remove_connection`, `route_outbound` | snapshots; connections of the core | `FederationClient` |
| Transport port (`libfcp/transport`) | bounded event queue | `apply_event`, `dispatch` | core and an adapter | `apply_event` in `WebRtcSession` |
| WebRTC session (`libfcp-webrtc`) | core, signal and event queues, staged candidates, data channels | `begin_offer`, `accept_signal`, `answer`, `send_cfr`, `begin_close`, `close`, `try_take_*`, pumps and engine callbacks | core; the WebRTC engine's own tasks | `WebRtcSession` |
| Browser sessions (`fcp-fabric-store/sessions.rs`, `helpers.rs`, `fcp-fabric-service/session.rs`) | tables `session_families`, `refresh_credentials`, `access_sessions` | create, rotate, revoke, look up an access token | concurrent requests; account state | `RefreshSessions` |
| Login and MFA (`login_*`, `authentication`, `mfa`, `totp`, `transport/auth`) | login transactions, passwords, TOTP factors and their last step | start, enroll, confirm, complete | sessions; account state | `Login` |
| Accounts and administration (`accounts`, `step_up`, `transport/admin`, `fcp-fabric-domain`) | accounts, roles, step-up grants, audit trail | bootstrap, invite, step up, change role | sessions, TOTP steps | `Administration` |
| Passkeys (`webauthn*`, `transport/passkeys`) | ceremonies, credentials and counters | begin, finish, register, update | sessions; authenticators | `Passkeys` |
| Federation ingress (`federation*` of service and store) | peers, key documents, replay table | resolve, admit, record | other authorities; the owner who pins keys | `FederationIngress` |
| Password hashing, KMS, HTTP surface, FFI and WebAssembly wrappers, language bindings | none of their own | forwarding, conversion, I/O | all | no (see section 8) |

What is hard in this code, and therefore what the properties are about:

* **Two machines and a carrier.** Envelopes are lost, duplicated, delayed, reordered
  and sent to the wrong attempt, while both applications act on their own. Both ends
  must nevertheless mean the same offer and the same answer, each envelope must act
  at most once within the limits of a bounded replay window, and crossing offers must
  not resolve themselves.
* **Snapshots without order.** A federation's policy is whatever validly signed
  snapshot arrives. Old ones must not roll a client back, half of one must not be
  applied, and connections to members who left linger beside the new bindings.
* **Tasks around one core.** The application's calls, the WebRTC engine's callbacks and
  the pump of each data channel share a session. They look at the core, release it, and
  act on what they saw; queues between them are bounded and one of them drops what does
  not fit; a call can fail after the core has moved on.
* **Restarts.** Neither server nor client persists anything.
* **Concurrent requests on one database.** Clock readings are older than the rows
  they are compared with, locks are taken late, and the same one-use token is
  presented twice, on purpose or not. A request is several statements: what one of
  them read (a state, a role, a counter, a peer's trust) is stale when the next one
  writes, and a request can end between any two.
* **Proofs that travel.** A password, a code, a signed challenge or a grant is checked
  in one place and spent in another. It has to be spent once, for the account, the
  browser and the purpose it was given for.

`PROJECT.json` lists the hazards one by one at the line where each bites, with the
properties that would notice; those without a property say why.

## 2. Modules

| Module | Contents |
|---|---|
| `FcpConnection` | both ends of connection attempts, the carrier, foreign peers |
| `AttemptContract` | what an attempt promises its two applications: an abstract specification without envelopes, ids, window or carrier |
| `FcpRefinement` | the refinement mapping, and `ImplementsContract` |
| `FcpConnection_proofs` | theorems about `FcpConnection`, up to the refinement of `AttemptContract` |
| `FederationClient` | servers, clients, snapshots, directory and routing |
| `MCFederationClient` | its instances: member lists, clients, connections |
| `FederationClient_proofs` | theorems about `FederationClient` |
| `WebRtcSession` | one session: `FcpConnection` for its own end, the engine, queues and tasks |
| `MCWebRtcSession` | its instance: the session and the envelopes the peer sends |
| `WebRtcSession_proofs` | theorems about `WebRtcSession`, resting on those about the core |
| `RefreshSessions` | session families, refresh credentials, access sessions |
| `MCRefreshSessions` | its instance, with the symmetry sets |
| `RefreshSessions_proofs` | theorems about `RefreshSessions` |
| `Login`, `MCLogin` | password stage, login transactions, TOTP challenge and enrollment |
| `Login_proofs` | theorems about `Login` |
| `Administration`, `MCAdministration` | accounts, roles, step-up grants and the audit of roles |
| `Administration_proofs` | theorems about `Administration` |
| `Passkeys`, `MCPasskeys` | ceremonies, credentials, and the authenticators behind them |
| `Passkeys_proofs` | theorems about `Passkeys` |
| `FederationIngress`, `MCFederationIngress` | deliveries between authorities, pinned keys, replay table |
| `FederationIngress_proofs` | theorems about `FederationIngress` |

Definitions named `X_Y` directly above a definition `X`, or introduced by a comment
`Mutant:`, are mutated forms of the definition that follows, each a plausible bug.
None is used by a specification; each is there to show that some property would notice it.

### FcpConnection

A connection is named by what `Connection::new` pins: federation, attempt, local and
remote endpoint. `phase`, `negotiation` and `seen` are the fields of `Connection`.
`signed` is the set of all envelopes the library signed; the carrier may deliver any
of them to any connection, any number of times and in any order, or never, so loss,
delay, duplication, reordering and misrouting need no action of their own. `applied`
is a history: the envelopes for which `receive` returned an action to the adapter.

Each operation of `Connection` is one action. An operation that returns `Err` changes
no field, so it is a stuttering step. `Receive` is `receive`: `ValidInbound` is
`validate_inbound` (routing, then signatures), `InWindow` the duplicate check,
`Accept` the trailing `note_seen` and the returned action. The signer is a parameter,
and `RequireLocalSigner` the check the code makes of it.

Endpoints in `Foreign` do not run this library. They sign any envelope at any time, in
their own name only. Properties about both ends of an attempt are restricted to
attempts whose ends both run the library (`Paired`).

Abstractions: an `EnvelopeId` digests the complete envelope, signatures included, and
both signature schemes are used deterministically, so an id is represented by the
contents; the digest is taken to be free of collisions and signatures to be
unforgeable. Descriptions, candidates and payloads are opaque values; the transport
binding inside a description and the diagnostic sequence of a candidate are part of
them. Sizes of bodies are validated before signing and after decoding and affect
nothing else.

### FederationClient

`ReplaceMembers` compares the new epoch with the one in memory, as `replace_members`
does, and `NewServer` sets that to zero: nothing is durable, and a control plane may hand
a restarted server any epoch again. `src/docs/operations.md` asks for a durable monotonic
epoch, but its lifecycle list persists it last, after publishing, so that a crash in
between leads to just that. `run` is a history of how often each server was started, and
each snapshot remembers the run that signed it; no guard looks at either.

`NewServer` (up to `MaxRun` times) and `NewClient` are restarts and always possible. `ApplyConfiguration` is
`apply_configuration` with its guards in the order of the code and both assignments at
the end. A connection in the directory is owned by it, and the client gives out no way
to drive it, so its federation, ends and phase are constant while it is there;
`Link` is what the application may insert. `RouteOutbound` is all or nothing, as
`route_outbound` is: the first error returns before any message is handed out.
`routed` records the latest success.

### WebRtcSession

The module extends `FcpConnection` and uses its actions for the core of one connection,
`Self`, so a step of the session that calls the core is that step of the core and
everything the session does around it. `queue` is the signal channel, `emitted` with
`drained` the event channel (all events ever sent, and how many of them were taken),
`staged`, `sequence`, `terminal` and `control` the fields of `Shared`. `taken` is a
history of the signals the application was given.

Three kinds of tasks run: the application, one call at a time (`app`); the engine's
driver, one callback at a time (`callback`); one pump per channel (`pump`). Each variable
holds where its task is between two awaits or two lock regions, and all others may run
there. Kept apart, because the code lets go in between: the engine's local description
from the core's signature (`DescribeOffer`, `SignOffer`), the core's acceptance of a
signal from the call that carries it out (`AcceptSignal`, `ApplyDescription` and the
other arms of `process_actions`), the check whether a candidate can be signed from its
staging (`OnIceCandidate`, `StageCandidate`), the taking of the staged list from its
emission (`Flush`, `FlushOne`), and the claim of the terminal flag from the event
(`FirstTerminal` in `ApplyClose`, `PumpClosed`, `OnConnectionFailed`; then `ReportClosed`,
`PumpReportsFailed`, `ReportFailed`), and the event from the engine's close, which comes
after it and may fail (`ShutEngine`, `CallFails`). A candidate that can be signed is signed and queued
in one step: no other task's step distinguishes the two.

`try_send` drops a candidate's signal when the queue is full (`TrySend`), and fails the
call when an offer or answer does not fit (`QueueSignal`, `CallFails`); `send` on the event
channel waits (`Emit`).

The engine is external. It may refuse any call (`CallFails`), gathers candidates once
it has a local description, and opens channels when it has both. The peer is foreign:
it signs what it likes and sends it by signaling or on a channel. `Inbound` bounds what
it sends, nothing else.

### RefreshSessions

Variables are the three tables, the wall clock, the state of accounts and the request
each worker is in. A token stands for the pair of refresh and access values one
issuance returns. Rotation takes its three row locks in one statement and then neither
waits nor releases, revocation locks the family first: each is one step. What is not
atomic with them is kept apart: the service's clock reading (`BeginRotate`,
`BeginIssue`), the store's (`q` in `Rotate`, any time between the service's reading and
the step), and the first statement of issuance, which tests the account without
locking it (`InsertFamily`), from its commit (`CommitIssue`). `Abandon` is every way a
request ends without effect: a failed check, a rollback, a crash. A lost answer needs
no action, since anybody may present any token again.

No code of the repository suspends or deactivates an account (an operator does, in the
database), so `SetActive` is external and may happen at any time.

`replayed` is a history: tokens whose presentation after consumption reached the end
of its transaction.

### Login, Administration, Passkeys, FederationIngress

The four modules of the authority's requests share a form. Variables are the tables a
request reads and writes, the wall clock, and `work`: for each worker the request it is
handling, as the record of what the handler carries from one statement to the next,
with `op` naming the statement it runs next. Every statement or transaction of the store
is one step, because it tests and updates its rows under their locks; between two of
them everything else may happen. Guards are the conditions of the code; what fails one
ends in `Abandon`, which also stands for a crash, a lost connection and a failed
database. Handlers are operators on jobs named after them (`BeginTotpEnrollment`,
`ChangeAccountRole`, `RegistrationJob`), and what a browser sends is chosen from
everything that was ever issued or shown, so cookies are replayed, mixed and raced
without any action for it. Clock readings that the code takes before a statement are
parameters (`q`, `since`) that lie between the previous reading and the clock. Digests
are collision free and random values do not repeat; CSRF cookies, optional services that
answer 404, audit wording and encryption are left out.

**Login.** The clock counts TOTP periods, so that `VerifyTotp` accepts the code of this
period and the last. `StartPasswordLogin` checks a password against the stored verifier
or the dummy; state and verifier come from one query, roles and factor from two more
(`ChooseStage`). `CreateLoginTransaction` and `ConsumeLoginTransaction` are the two
operations of the store; the latter goes on as one of four routes (`AfterConsume`). An
enrollment creates a pending factor, shows its seed to the browser (`shown_to`) and
issues a second transaction bound to it. Verification of a code (`ReadPendingFactor`,
`ReadActiveFactor`) and the update that spends it (`ActivateFactor`, `ConsumeTotpStep`)
are two steps. `ActivateFactor` also has the unique index that allows an account one
active factor (`001_authority_schema.sql:67`). An operator may set the state of an account
to anything at any time (`SetState`, external); `operated` is a history of which accounts
that happened to. `spent` is a history of accepted codes. A session is inserted by
`IssueBrowserSession`, where `RefreshSessions` takes over.

**Administration.** `AuthenticateAccess` and `AuthenticateAdmin` are the two queries that
establish who asks and with which roles; `CompleteTotp` spends a code and
`CreateStepUpGrant` stores the grant bought with it; `ConsumeStepUpGrant` and `ChangeRole`
are the two transactions of a role change. `audit` holds the events that report roles,
with the grant that paid for each as a history field. The table keeps no order (ids and
times are taken before the transaction begins), so positions in `audit` only tell rows
apart and no property depends on them. Enrollment, sign-in and revocation
are one step each here, since the other modules have their details. The model follows the
intent of `consume_step_up_grant`: as written its statement names the table
`step_up_grants AS grant`, and `GRANT` is a reserved word of PostgreSQL, so that the
server may refuse it and no role change would ever succeed.

**Passkeys.** `device` counts the signatures of each authenticator, `responses` holds
what they have answered. A login is verified against the counter its ceremony remembered
(`VerifyAssertion`), updates the counter it reads later (`ReadPasskeys`) and overwrites
the row later still (`UpdatePasskey`). Accounts are active or suspended:
`mfa_enrollment_required` differs here only in that the store would persist a ceremony
for it, which no route asks for, as begin needs a session or an active account.

**FederationIngress.** The owner's tables are written by no code of the repository, so
`SetPeer`, `AddKey` and `RetireKey` are external and may happen at any time. A request
reads the peer, then its current key documents (`ReadKeys`), then decides in memory
(`Admit`), then records (`RecordFederationReplay` or `Replay`). `approvals` is a history
of which key was pinned for an active peer when. Times are counted in ticks, `Ticks` to
the second. `transcript` truncates them (`Transcript`), so the signatures and the body
digest cover whole seconds; `validate` and `admit` compare whole seconds;
`record_federation_replay` and the key query compare in full. A signed delivery therefore
carries both what came and what was signed (`original`), which may differ in the
fractions. `Presented` are the deliveries the instance enumerates: sound ones and each
with at most one defect.

## 3. Properties

Connection attempts:

* `ReplayWindow`: an envelope acts twice only after at least `MaxSeen` others acted in
  between, for honest and foreign peers alike.
* `NegotiatedOnce`: offers, answers and closes act at most once in an attempt even when
  the window has forgotten them, and no connection applies both an offer and an answer.
* `CandidatesBelongHere`: every candidate ever applied belongs to the negotiation that
  is held now, and is bound to an offer or answer of this attempt.
* `Agreement`: when either end holds an answer, both hold the same offer, and never
  different answers.
* `CfrWithinAgreement`: a payload is delivered only between ends with the same complete
  negotiation.
* `GlareNeverResolves`: after crossing offers each end is in `OfferSent` or `Closed`.
* `NeverRewritten` (action property): nothing replaces a held offer or answer; a closed
  connection stays closed, silent and deaf.
* `ImplementsContract`: refinement of `AttemptContract`.

WebRTC session:

* `EngineMatchesNegotiation`: the engine's remote description is the one the core holds,
  although it is set after the core has been released and any call may fail.
* `NoSignalLost`: until more candidates are gathered than the queue has room for, every
  envelope the core signed for signaling is in the application's hands, queued or about
  to be; `begin_offer` and `answer` return whichever signal is first.
* `CandidateInOnePlace`: a gathered candidate is staged, in flight or signed, never two
  of these and never signed twice, and while the staging list has not overflowed always
  one of them.
* `CfrDeliveredOnce`: the application is sent each payload exactly as often as the core
  accepted it, counting the tasks that wait for room.
* `EventsSound`: at most one `Connected`, of a complete negotiation the engine has
  applied; exactly one end is claimed and told; `Closed` only of exactly one verified
  close. That the engine is shut by then is not part of it: the event comes first, and
  `peer.close()` may fail.

Federation:

* `ViewIsSnapshot`: bindings are the remote members of one published snapshot of the
  epoch the client reports, one that lists the client at its own endpoint.
* `SameEpochSameView`: clients with the same epoch agree, unless two runs of the server
  signed that epoch. Reuse after a restart is thus the only way to two views of an epoch;
  no order of calls and deliveries within a run leads there.
* `MonotoneViews` (action property): epoch and bindings move together and forward.
* `RoutedToMembers`: messages leave only to the endpoint the snapshot bound to their
  addressee, whatever lingers in the directory.
* `BroadcastComplete`: a broadcast that succeeds reaches all other members.

Sessions:

* `OneChain`: the credentials of a family are a chain with exactly one usable end.
* `AccessIsCurrent`: only the access token issued with that end authenticates.
* `ReuseRevokes`: a family is revoked for reuse if and only if a consumed credential
  of it was presented to the end of a transaction.
* `RotatedInTime`: successors are dated within the life of their predecessors although
  all clock readings are stale.
* `RevokedIsFinal` (action property): no row of a revoked family changes again, and
  none of its access sessions is live.

Login:

* `OneSessionPerTransaction`: however often and by how many requests its cookies are
  presented, one login transaction leads to one session at most.
* `SecondFactorAlways`: every session of the password route rests on an accepted code of
  a factor of that account, unless an operator has set the account's state and it had no
  active factor when the password was typed. The service itself makes an account active
  only together with a factor; an account reinstated without one takes the password-only
  branch of `authenticate`, which `src/docs/fabric/authentication.md` foresees. What must
  not happen is that an account with a factor gets there.
* `CodeAcceptedOnce`: a code is accepted once in its life, and never after a later one.
* `ActiveHasOneFactor`: whatever enrollments race and operators write, no account has two
  active factors; one that no operator touched is active exactly when it has one.
* `ConfirmedWhereShown`: a factor is confirmed by the browser its seed was shown to.

Administration:

* `OwnerKept`: one owner per tenant, for ever; roles come from the owner of the same
  tenant, or from an invitation to a role that is neither owner nor admin, although the
  actor's own roles were read several statements earlier.
* `OneProofOneChange`: each role change was paid for by a grant for exactly that change,
  bought by its actor with a code of its own; no grant and no code pays twice.
* `AuditExplainsRoles`: the trail balances to the role table in whatever order it is read:
  a role is held exactly when there is one grant of it more than revocations, and there
  are as many when it is not. Which of several changes came last the trail cannot say.

Passkeys:

* `AssertedSession`: a session belongs to the account of the passkey, whose authenticator
  signed the challenge of the session's own ceremony; one session per ceremony.
* `RegisteredBySelf`: a passkey belongs to the account that began and finished its
  registration, whoever else was signed in meanwhile. That a registration yields one at
  most rests on the proof: the run has one credential.
* `GenuineIsAccepted`: overlapping logins that write counters back in any order never
  store one ahead of the authenticator, so that its next signature is accepted.

Federation ingress:

* `AcceptedOnce`: a request identifier of a peer is accepted once, and audit trail and
  replay table agree on what its signer signed.
* `TrustedWhileHandled`: what is accepted is signed by a key that was pinned for an
  active peer, in a current document, at some time since the request came; and by what
  was signed, not by what came, it is from and to the right users, not issued beyond the
  skew, and not past its second of expiry. It is not a statement about trust at the time
  of recording, nor about fractions of a second: neither holds (section 7).

Each module also has one type invariant, which in `FederationClient` and
`RefreshSessions` contains the invariants of the data (`OneToOne`, the schema's
`CHECK (expires_at > issued_at)`).

## 4. Runs

| Run | Instance | Shows |
|---|---|---|
| `connection` | one attempt, two ends, two descriptions, one candidate, one payload, window 2, 4 actions per end | agreement, glare, replay window, contract |
| `connection_foreign` | one end runs the library, its peer signs anything; two attempts, window 1 | at-most-once negotiation and candidate binding against a peer that obeys no rule |
| `connection_replay` | as `connection`, one description | expected violation, section 7 |
| `webrtc_session` | one session and a foreign peer, two descriptions, two candidates, one channel, signal queue 2, event queue 1, staging list 1, 2 accepted envelopes | nothing lost or doubled within the capacities, one end told, the engine follows the negotiation |
| `webrtc_staged` | the same with one candidate, 1 accepted envelope, fair tasks | expected violation, section 7 |
| `webrtc_close` | the same with one candidate, 2 accepted envelopes | expected violation, section 7 |
| `federation` | one server with one restart, two clients of its federation and one that pins another, a foreign authority, member lists that join, leave, swap or are invalid, connections in the directory, epochs 0 to 2 | no mixture, no rollback, agreement per epoch, routing and broadcast |
| `refresh_sessions` | one account, two families, three tokens, two requests at a time, lifetimes 2 and 1, clock to 3 | chains, reuse, revocation |
| `login` | one account, enrolled or not, two factors, three tokens, two families, two requests at a time, an operator who sets any state, clock to 2 | transactions, codes and factors |
| `administration` | two tenants, two accounts, one session family, two grants, two requests at a time that ask to grant or revoke `admin` or to grant `owner`, an operator who sends accounts back to enrollment and activates them, clock to 2 | roles, grants, audit |
| `passkeys` | two accounts, one counting authenticator, three ceremonies, two requests at a time, two signatures | ceremonies and counters |
| `federation_ingress` | one pair of authorities, two keys, one request identifier, two requests at a time, two ticks to the second and a clock that enters the second second, deliveries with at most one defect | replay and trust |

Why these bounds reach the interesting cases. `connection`: with a window of 2 and four
actions the window overflows and a replay succeeds (which `connection_replay` exhibits
at the same bounds); two descriptions are needed for two ends to disagree; both ends may
offer, so glare happens. `MaxApplied` bounds the history only, in the guard of `Accept`.
`connection_foreign`: a window of 1 is forgotten after each envelope, so only the phase
guards remain to protect the negotiation; a second attempt is needed for candidates to
cross. `webrtc_session`: an offer or answer and two candidates overfill the signal queue,
two candidates the staging list, `Connected` and one payload the event queue; two
accepted envelopes are an answer and a payload, or either and a close. Two descriptions
let an offer the core refused differ from the one it holds.
`federation`: two accepted epochs suffice for rollback, mixture and
divergence; epoch zero and the largest epoch are both met, and the restart lets two runs
sign one epoch. `refresh_sessions`: three
tokens give a chain of two rotations or two families, two requests race, and the clock
passes both lifetimes of the first token while a request still waits; families, tokens
and workers are interchangeable, hence the symmetry. `login`: an enrollment takes two
transactions, so three let a login race with one, and two families let one transaction be
used twice; a code is good for two periods, which both occur. Two complete enrollments
that race need four and rest on the proof; that a second factor is refused is met all the
same, when an operator sends an enrolled account back to enrollment.
`administration`: two grants of one owner compete for one change or follow each other,
in requests that race; the other account is a target in the same tenant or the owner of
the other one. A second session family with one grant and one tenant was checked too
(2.5 million states); both at once exceed what TLC finishes in minutes. `passkeys`: a registration and two
logins that overlap need three ceremonies, and two signatures a counter that can be
written back. `federation_ingress`: two copies, or a sound and a defective delivery,
with one identifier meet between their statements while the key is rotated. One delivery
is acceptable at once and has an expiry later in its second than was signed, so that it is
accepted before and after the tick that was signed; the other is too early in the first
second and within the skew in the next.

The connection runs switch the deadlock check off because an attempt may end: both ends
closed is final by design. So do the WebRTC runs: a closed session is final, and an
application that accepts a payload while its event queue is full waits for itself
(`DeliverAccepted`, listed among the hazards). `Administration` switches it off because an
instance can use up its identifiers. In the other modules something is always enabled.

## 5. Fairness

Only `FairSessionSpec` assumes any, for `webrtc_staged`: the library guarantees no
progress by itself (no timers, no retransmission), so everything else is a safety
property. Weak fairness of `Proceed`, `CallbackProceeds` and `PumpProceeds` says that the
runtime runs a task that can go on. Strong fairness of `TakeSignal` and `TryTakeEvent`
says that the application keeps draining, as `src/docs/integration.md` asks ("Each side
regularly drains `try_take_signal()`", "Drain `try_take_event()` regularly"); strong,
because it makes other calls in between. Nothing is assumed of the peer, the network or
the engine.

## 6. Proofs

Every invariant and action property that a passing run checks, the type invariants
included, and the refinement of `AttemptContract` are proved in TLAPS for every value of
the constants under the named assumptions of the modules: all set sizes, all window,
queue and event capacities of at least one, all lifetimes of at least one, all
behaviours of foreign peers, any number of concurrent requests. The assumptions are
about constants only: bounds are natural numbers, the absent value is no row, id,
description or member, foreign endpoints are endpoints, directory entries join different
ends, the session's peer is foreign, candidates are numbered from zero, what an instance
enumerates (member lists, deliveries, inbound envelopes) is of its type.

None of the properties is inductive. The strengthenings, which TLC checked first:

* **FcpConnection.** `WindowIsSuffix`: the window is the tail of `applied`, all of it
  until it is full. `ReplayWindow` follows by counting positions from the end: an
  envelope whose earlier occurrence is fewer than `MaxSeen` actions back is still in
  the window. `NegotiationShape`: what the phase says about the ids held (`Idle` exactly
  when there is no offer, an answer always to the held offer, who signed which).
  `SignedIsHeld` and `HeldIsSigned`: an end still holds every offer and answer it ever
  signed, and holds nothing that nobody signed. Together they carry a fact from one
  machine to the other: I hold an answer, so my peer signed it, so my peer holds it, and
  it names the offer we both hold. `AppliedIsHeld` ties the history to the negotiation.
  `ContractSafe`, the refinement, needs nothing more than these: `Propose`, `Reply`, `Say`,
  `Connect` and `Stop` are local, and the guards of `Consider`, `Conclude` and `Hear`, which
  speak of the other side, are what `ReceivedFromPeer` says of an envelope that verified.
  Candidates are invisible. The mapped variables are functions of the state without
  history, so each action needs only what it does to one connection (`StageChanges`,
  `TermsChange`, `SaidChanges`, `HeardChanges` and their counterparts that change nothing).
* **FederationClient.** `OneSnapshotPerEpoch`, one member set for each run and epoch, needs
  `PublishedSound`: no run has signed before it started or ahead of the epoch in memory,
  and what the current run has signed at that epoch is the configuration in memory.
  Clients that report an epoch which only one run signed then hold the same snapshot.
  `DirectorySound` is for routing.
* **WebRtcSession.** `SessionDrivesCore`: a session's behaviours are behaviours of the
  core (`SessionSpec => Spec`), step by step, so that the theorems above hold of a
  session; `SessionReplay` and `SessionKeepsContract` draw three of them. `EngineSafe` needs
  `ApplyingFits`: between the core's acceptance and the engine's call the envelope being
  applied is still the one held, which follows from `NeverRewritten` and from who may
  answer whom. The other four count. `NoSignalLost` rests on `Conserved`: a session
  describes itself once, so queue, call and candidates still to be signed never amount to
  more than the candidates gathered and one, and a queue with room for that many is never
  full. `CandidateInOnePlace` needs `NotGatheredYet` (a candidate to come is nowhere) and
  `Finite`, without which a cardinality says nothing. `CfrDeliveredOnce` is inductive with
  `Finite` and the types. `EventsSound` rests on `TerminalTold` (the flag is claimed once,
  and whoever claimed it has told or still has to), `ConnectedSound` and `ClosedSound`
  (each event stands for one transition of the core). Lemmas about `Count` say what an
  append, a take and a flush do to a number of positions, and the steps are sorted by what
  they can disturb: most of them neither queue, deliver nor report anything.
* **RefreshSessions.** `RowsSound` (credential and access rows come in pairs of an
  existing family, not from the future), `LiveIsCurrent` (a live access row belongs to an
  unconsumed token of an unrevoked family), `ReplayedSound`, and `JobsSound` (what a
  request carries is not newer than the clock, and the token it presents was issued
  before it read the clock: the fact that puts a successor after its predecessor).
* **Login.** No step takes anything back from a factor, a transaction or the accepted
  codes (`Grows`), so `JobsSound`, what a request has read, stays true until it writes.
  `OneHolder`: a consumed transaction is held by one request or one session, never two;
  that is one session for each. `ActiveHasOneFactor` makes `TransactionsSound`
  inductive: an untouched account read as active has a factor by the time the factor is
  read, so a transaction for the password alone is begun only for an account an operator
  has touched and that has no factor then; a factor it gets later is younger than that
  login (`Exempt`). Any other request at `issue` is `Backed` by a code accepted for its
  transaction. `FactorsSound` and `SpentSound` (a pending
  factor has accepted no step and no code) give `CodeAcceptedOnce`. Which passwords are
  right plays no part: the proof does not use `DummyAssumption`.

* **Administration.** `Grows`: an account never enrolls twice, its last step never falls,
  a consumed grant stays so, and an owner remains owner. Therefore `JobsSound`, which says
  of a request that its account is the owner, stays true although the roles were read
  statements ago; this is all that keeps a stale read from being an escalation.
  `StepsOnce`: a step is behind one grant or one request about to create it, because
  `CompleteTotp` moves `last_step` past it. `OneHolder`: a consumed grant is in one request
  or one event. The trail is of any length; `AuditExplainsRoles` is proved by what one more
  event does to the two counts of its role, `AuditSound` by `Grows`.
* **Passkeys.** `OneHolder`: a consumed ceremony is in one request, one session or one
  passkey. `CountersBehind`: no counter in a row, a remembered ceremony, a response or a
  request is ahead of the authenticator; the row itself may go back when logins overlap,
  and the invariant does not forbid it.
* **FederationIngress.** `ApprovalsCurrent` (trust in force is recorded as an approval) and
  `JobsSound` (what a request has read was true at some time since it came) are kept because
  approvals are a history and documents can only be added or retired (`Grows`). A transcript
  that matches carries what was tested of the delivery that came over to what was signed,
  and a later tick is never in an earlier second (`LaterSecond`). That the
  replay record and the audit event are one transaction gives `AcceptedOnce`.

Only model-checked: `StagedIsOffered`, a liveness property (and one the code does not
have, section 7), and the other two expected violations. The prover does not handle
liveness under fairness, ENABLED, induction over data with operator parameters, or
modules with RECURSIVE operators; none of the modules uses the latter.

## 7. Divergences found

`connection_replay`: `src/docs/protocol.md` section 5 says "A duplicate accepted
envelope produces no second adapter action." The window is a FIFO of
`MAX_SEEN_ENVELOPES` ids and `note_seen` evicts the oldest, so a candidate or a payload
that is replayed after that many other envelopes acts again. `src/docs/security.md`
says the state machine rejects a "duplicate replay outside its fixed FIFO window", which
is where it does not. `ReplayWindow` and `NegotiatedOnce` are what does hold, and both
are proved.

`webrtc_staged`: `begin_offer` says "Further local candidates can be retrieved with
`Self::try_take_signal`". The candidate callback asks the core whether it can sign,
releases it, and locks the staging list afterwards. `begin_offer` can sign, flush the
still empty list and return in between. The candidate is then staged, and since
`try_take_signal` flushes only after a signal it has returned, an empty signal queue
keeps it there for good, however often the application drains.

`webrtc_close`: `src/docs/security.md` says "A verified remote close is surfaced as
`SessionEvent::Closed { reason }`". A close that arrives on the data channel is accepted
by the core, but the pump carries out only payload and send actions: the core is closed,
the application hears nothing and the engine stays open. The same close by signaling is
then a duplicate and changes nothing.

The authority's documents and its code also differ where no run asks the question:

* `src/docs/fabric/authentication.md` says that a password change and a role downgrade
  revoke session families. `store_password_verifier` and `change_role` revoke none.
* `src/docs/operations.md` (line 17) gives the lifecycle of a configuration as replace, publish,
  distribute, persist. A crash before the last step lets the restarted server sign the
  epoch again with other members, and clients of the two cannot tell. `replace_members`
  compares with the epoch in memory only; `SameEpochSameView` is what does hold.
* `src/docs/fabric/domain-model.md` (line 49) promises audit events a sequence within their tenant.
  The table has none, and `id` and `occurred_at` are taken before the transaction begins
  (`accounts.rs:152`): when a grant and a revocation of one role race, the one that
  committed last may carry the earlier time, and the trail read by time ends in the wrong
  role. `AuditExplainsRoles` is what does hold.
* `src/docs/fabric/domain-model.md` (line 133) says of federation that "`accept_once` must perform
  peer-state/key/expiry/replay persistence in a single database transaction, never as a
  read-then-write sequence". Peer, keys and replay record are three statements: the peer
  is read while active, then suspended, then its keys are read and the delivery recorded.
  TLC finds this in eight states when asked for trust at the time of recording.
  `TrustedWhileHandled` is what does hold, and it is weaker: trust that ended before the
  request came is noticed, trust that ends while it is handled is not.
* The signatures cover issue and expiry in whole seconds, and the expiry is tested in full.
  A carrier can replace the fraction, so a delivery may be accepted until the end of the
  second in which the signed expiry lies.
* `resolve` compares only the first document that parses with the pinned fingerprint.
  While an old document is current and comes first, a newly pinned key is not found and
  every delivery of the peer is rejected.
* `admit` tolerates 60 seconds of skew after the expiry, `record_federation_replay` none:
  a delivery within the tolerance fails as a store error (503).
* `begin_totp_enrollment` accepts the confirmation transaction of an enrollment, so one
  password can be followed by enrollments without end, each with a fresh lifetime.
* A grant is consumed before the change is tried. A change without effect, or a crash
  between the two, costs the grant.
* `consume_step_up_grant` uses a reserved word as an alias (section 2).

## 8. Not modelled

Byte encodings and their parsers, signature schemes, digests and password hashing
(functions, correct or not independently of any interleaving, and out of TLC's reach);
the key service, HTTP routing, environment and command line (pure I/O); the C,
WebAssembly and language wrappers (memory ownership and conversion). Recovery codes are
not modelled: the store can replace and consume them, but no route issues or takes one
(`src/docs/fabric/authentication.md` calls that flow "deliberately not implemented yet"),
so nothing else depends on them.

## 9. Plan

1. A session whose peer runs the library too: two copies of `WebRtcSession` around one
   core model, so that `Agreement` is shown of what the two engines were given. The proofs
   assume a foreign peer, which allows more envelopes and promises less.
2. Step refinements between the authority's modules: `Login` and `Passkeys` insert session
   families in one step that `RefreshSessions` divides.
