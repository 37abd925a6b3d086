# Silicon IAM: TLA+ verification project

Silicon IAM is the identity and access service of Team of Silicons: a Rust
modular monolith over one PostgreSQL database. Carbons (people) and silicons
(agents) belong to organizations; applications act for them through OAuth-like
short-lived tokens, consents and on-behalf-of proofs; everything that happens
is published to applications and silicons as signed, ordered webhooks. This
project models the parts of it in which several requests, worker instances,
external providers, crashes and clocks meet, checks them with TLC, and proves
the most important results with TLAPS.

Paths below are relative to the repository.

## 1. The system

Three processes share the database: `iam-api` (public HTTP API), `iam-scoped-api`
(the same service with narrower database roles) and `iam-worker` (background
jobs; any number of instances). One-shot programs migrate the schema, bootstrap
administrators and applications, activate keys and cut identities over. A second
database holds testing environments. There are no caches that outlive a request
and no message broker, so *all* shared state is rows, and all interaction is
transactions, row locks and leases. The only other actors are the providers of
email and SMS, the webhook endpoints, the identity provider of single sign-on,
Honeycomb (which instructs IAM about applications and testing environments), and
the command line with the sessions it stores.

| Component | State it keeps | Operations | Interacts with |
|---|---|---|---|
| Event publication and routing | `iam.outbox_events`, aggregate sequences, frozen audience | append in the transaction of the domain change | every writing feature |
| Outbox fan-out, webhook delivery (`src/worker/{outbox,webhook}.rs`) | status, owner, lease, attempts, ordering key | claim, expand, load material, POST, record, dead-letter | endpoints, replay |
| Silicon webhooks, manual replay | endpoints, keys, subscriptions, replay batches | configure, redirect, fan out, replay | delivery, routing |
| Application webhook projections | captured payloads, consents they rest on | capture, send, replay | consents, memberships |
| First-party sessions (`authentication/{tokens,refresh,sessions}.rs`) | sessions, refresh families, tokens | login, rotate, detect reuse, logout | step-up, OAuth, proofs |
| Login, signup, step-up | challenges, codes, attempts, reservations, assertions | send, confirm, verify, complete, consume | providers, sessions |
| OAuth, scopes, introspection, bundles (`applications/`) | short-lived tokens, consents, families, approvals, bundles | mint, exchange, refresh, revoke, approve, withdraw, report | sessions, application lifecycle |
| On-behalf-of proofs (`applications/obo.rs`) | proofs, endpoints | exchange, verify, revoke | the whole chain of authority |
| Application lifecycle, endpoints, review threads | review status, scopes, secrets, destinations | draft, review, publish, suspend, rotate | OAuth, deliveries, Honeycomb |
| Organizations (`organizations/`) | memberships, roles, grants, invitations, tags, trust rules, supervisors, policies, approvals | invite, join, promote, transfer, remove, approve, reparent | sessions, proofs, events |
| Silicon credentials | credentials, rotation requests | request, approve, complete, log in | sessions |
| Single sign-on (`features/sso/`) | configuration, connections, attempts | set up, disable, provider event, sign in | identity provider |
| Testing environments, Honeycomb | environments, generations, keys, operations, letters, imports | create, prepare, clean, restore, import, notify | two databases |
| Idempotency, key versions (`infrastructure/postgres/`) | records, digest keys, fleet keyrings | claim, complete, release, activate | every writing request |
| Guarded mutations | versions, audit, outbox, step-up proofs | admit, claim, compare, write, record | all of the above |
| Rate limits, listing, directory reads, logout requests | counters, cursors | consume, page, read | every request |
| Notification jobs (`src/worker/notification.rs`) | jobs with leases | claim, send, finish | invitations, providers |
| Command line (`crates/cli`) | stored session, locks | renew, log out, recover | sessions |

### What is hard

* **Two transactions around a side effect.** Codes, notifications and webhooks are
  sent between a transaction that reserves and one that records. Each can fail
  alone, the process can die in between, the answer can be ambiguous, and a retry
  or a replacement may have happened meanwhile. Testing environments commit in two
  databases, one after the other.
* **Leases.** A worker may outlive its lease, return late and meet a row another
  instance owns, finished, dead-lettered or an operator replayed.
* **Ordering across stages.** Deliveries of a lane must be sent in order although
  the events behind them are expanded concurrently, retried and replayed.
* **Isolation levels.** Authentication runs SERIALIZABLE, most features READ
  COMMITTED with selected locks: what a logout does not see, what a request read
  before it locked, several statements of one answer.
* **Chains of authority.** A token or proof depends on a session, a consent, an
  application, a membership, an endpoint: each may be withdrawn, and restored,
  at any moment and by somebody else.
* **Counters that must survive replacement.** Failed attempts and cooldowns are
  carried from one code to the next along superseded, expired and rejected rows.
* **Generations.** Digest keys, testing environments, signing secrets and identities
  are replaced while requests admitted under the old one are under way.

`PROJECT.json` lists these hazards one by one with the line where each bites and
the properties that watch it.

## 2. Modules

The models fall into four groups. Each module's header names its sources and what
it leaves out.

**Events**

| Module | Models |
|---|---|
| `WebhookPipeline` | publication, claims, leases, fan-out, delivery, retries, dead letters, replay, suspension |
| `SiliconWebhook` | endpoint, key and subscription of a silicon against the fan-out to it |
| `EventRouting` | topics, tags and audience frozen with an event |
| `WebhookProjection` | what is captured of members under which consent |
| `ReplayDisclosure` | what the replay of an old dead letter may still show |
| `ApplicationEndpoint` | destinations of an application, their approval and signing secrets |
| `HoneycombOperations` | repeated and late operations on a bundle, and the letters back |

**Identity**

| Module | Models |
|---|---|
| `SessionAuthority` | sessions, families, tokens, codes, consents under snapshot isolation |
| `OtpAttempts` | attempt counter, delivery classification (shared by the next three, `Invitation` and `Notification`) |
| `LoginChallenge`, `SignupSession`, `StepUpChallenge` | the three flows with one-time codes |
| `OboProof` | on-behalf-of proofs against a changing chain of authority |
| `SiliconRotation` | the credential of a silicon: creation, rotation, login, removal |
| `CliSession` | the stored sessions of the command line, used by several processes |
| `SingleSignOn` | entitlement, setup, provider events, admission |
| `RateLimit` | burst and fixed-window counters with delayed transactions and erasure |

**Organization and applications**

| Module | Models |
|---|---|
| `Membership` | roles, grants, ownership transfer and removal by concurrent requests |
| `Invitation`, `Notification` | joining by a code, and its announcement |
| `SensitiveAction` | policies, approvals and the writes that consume them |
| `Directory`, `DirectoryReads` | tags and trust rules under row locks; what reads answer |
| `Hierarchy` | supervisors of silicons |
| `ApplicationScopes`, `ScopedTokens` | approvals of scopes and publication; the tokens and consents that rest on them |
| `Introspection` | what a report on a token says while its rows end |
| `TestingEnvironment`, `TestApplication`, `TestingCreation` | lifecycle with generations, imports, creation across two databases |

**Requests**

| Module | Models |
|---|---|
| `GuardedMutation` | admission, key, version, step-up, audit and event of a mutation |
| `Idempotency` | the record behind a key while peppers rotate |
| `OnceOnly` | what a key promises: the abstract specification of `Idempotency` |
| `Listing` | cursor pagination |
| `LogoutRequest` | who may end which sessions, and late retries |
| `BundleLogin` | one handoff to all applications of a bundle |
| `ReplayCutover` | retries across the cutover of identities |

`MCIdentity`, `MCOrganization`, `MCApplications`, `MCRequests` and `MCEvents`
instantiate them for TLC. The proofs are in four modules, each of which extends the
components it is about, and after the specification in three components that are short:

| Proofs | About |
|---|---|
| `WebhookPipelineProofs` | `WebhookPipeline`, `ApplicationEndpoint`, `HoneycombOperations`, `SiliconWebhook`, `WebhookProjection`, `ReplayDisclosure`, `EventRouting` |
| `SessionAuthorityProofs` | `SessionAuthority`, `LoginChallenge`, `StepUpChallenge`, `SignupSession`, `CliSession`, `RateLimit` |
| `AccessProofs` | `OboProof`, `SiliconRotation`, `Membership`, `SingleSignOn`, `TestingEnvironment`, `TestingCreation`, `TestApplication`, `SensitiveAction`, `Hierarchy`, `Invitation`, `Notification`, `Directory` |
| `RequestProofs` | `Idempotency` with `OnceOnly`, `GuardedMutation`, `BundleLogin`, `Listing`, `LogoutRequest`, `ReplayCutover`, `DirectoryReads` |
| in the module | `ApplicationScopes`, `ScopedTokens`, `Introspection` |

Conventions. A table is a function from row identities to records. An action is
one transaction, or one call to the outside between two transactions; where READ
COMMITTED lets others in between the statements of a transaction, the statements
are actions, and what the handler carries between them is a variable of its own.
Times are countdowns in ticks: a lease, a delay, a lifetime of *n* has passed after
*n* ticks. History variables (`posted`, `acknowledged`, `settled`, `wrong`, `acts`,
`uses`, `withdrawn`, ...) record what the outside observed; no guard reads them. A
definition whose comment begins with *Mutant of* is not part of any
specification: it is a plausible mistake in the definition that follows, kept to
show that the properties notice it.

### WebhookPipeline

`event` and `delivery` are the two tables, with status, lease owner, remaining
lease, remaining retry delay and attempts; a delivery also has its `lane`, the
ordering key: destination endpoint and aggregate, or endpoint and replay batch.
`expansion` and `attempt` are what each worker instance is doing. `ClaimEvents`,
`ExpandEvent`, `ExpandError`, `MarkFailure` are `claim_events`, `expand_event`
and the failure path of `outbox.rs`; `ClaimDeliveries`, `LoadMaterial`,
`BeginAttempt`, `Post`, `FinishSuccess`, `FinishFailure` those of `webhook.rs`;
`ReplayDeadLetters` is the replay endpoint; `ActivateEndpoint`,
`SuspendApplication`, `ReactivateApplication` are what management does to the
worker's rows. `AbandonEvent` and `AbandonDelivery` are the paths on which a task
ends without recording anything (a failed transaction, a serialization error);
`Crash` loses all tasks of an instance. Claims are the single `UPDATE ... FOR
UPDATE SKIP LOCKED` statements of the code, atomic under READ COMMITTED because a
row that changed is rechecked or skipped. Outcomes are fenced by status and
owner, not by the lease, as in the code.

Decisions: an instance id is a fresh UUID per process, so a restarted instance is
a new one; each stage may start a batch when its own tasks are idle, which allows
more than the code's single cycle; attempts saturate at `MaxAttempts` because the
claim has no attempt bound; events of one aggregate become visible in sequence
order, because the aggregate's row lock is held to commit. The ordinary ordering
key does not contain the organization while the check for unexpanded events does,
so ordering is promised within one organization. Dead letters and cancelled
deliveries do not block what follows them.

### SessionAuthority

Rotation of first-party tokens, session revocation and logout run SERIALIZABLE.
They are a `Begin` step that fixes the snapshot, and a `Finish` or `Rollback`:
the rows inserted since are invisible to a sweep, and writing a row that was
updated since fails (first updater wins). Aborts that PostgreSQL adds for
read-write dependencies are left out, which only allows more. Application
transactions hold the locks that decide them and are one action each:
`MintCode`, `ExchangeCode`, `ExchangeRefresh`, `RefreshReuse`,
`RevokeAccessToken`, `RevokeRefreshFamily`, `SuspendApplication`. `Usable` is
what `authenticate` demands of a presented token. A mint and an exchange that
commit inside the window of a logout do leave an active family and consent under
the revoked session; the properties say that nothing can be done with them.
`EraseRecord` is the worker's maintenance: an idempotency record goes a day after it was
made (`idempotency.rs:20`, `migrations/0009`), while its family lives for up to 900
(`config.rs:30`), and the same request is then a new one. It is the one expiry that enables a step, so it is an
action; the expiry of sessions, tokens and stored answers, scopes, step-up and the review
status at mint only refuse and are left out.

### LoginChallenge, SignupSession, StepUpChallenge

All transactions of these flows are SERIALIZABLE and one action each. A request inserts
the code row and reserves its idempotency key (`CreateChallenge`, `StartContact`,
`CreateStepUp`); `SendAllRequired`/`SendRequired` calls the providers, each of which
answers ok, definitive rejection or unavailable; `Confirm*Delivery` and `Fail*Delivery`
are the second transaction; `Abandon`, `AbandonSignup` and `AbandonStepUp` are a crash
or a failed transaction on either side of the provider call. `VerifyRight`,
`VerifyWrong` check a code. `OtpAttempts` holds `inherited_attempt_state`, the counter
with its cooldown and the classification of a batch (*only* an all-rejected batch is
definitive). The flows differ where the code does: a login inherits only from unexpired
rows of pending challenges, step-up also from expired ones, signup from every unexpired
row of the session and kind, superseded and rejected ones included. The channel rows of
a login challenge are written together and are one record; a signup candidate and its
code are one entry. A verification under a key that was used replays its answer:
`LoginChallenge` keeps those records, the others leave the stutter out. Rate limits and
taken handles only refuse. A session revocation does not touch step-up rows; the
authority checks in every later step are what stops them. In the instance of
`StepUpChallenge` two requests are of one session for one act, so their codes replace each
other, and a third is of another session for another act.

### OboProof, SiliconRotation, Membership

`OboProof`: `party` holds the live flag and the epoch (or version) of subject,
membership, issuer, audience and endpoint; `session` and `token` the parent;
`proof` the proofs with the epochs they were issued at. `verify` runs at READ
COMMITTED in three statements, `VerifyLookup`, `VerifyContext` and
`VerifyConsume`, of which only the last locks. An exchange locks its whole chain
FOR SHARE and is one action after the client's epoch was read; a retry is
`ReplayExchange`. `withdrawn` collects the unused proofs whose chain changed.

`SiliconRotation`: `credential` holds the status of the first credential and of
each request's replacement, `rotation` the approval request together with its
payload row, `silicon` the live flag and `auth_epoch`. A request reads its target,
looks for open ones and inserts without any lock (`FetchTarget`, `CheckPending`,
`InsertRequest`); approval, completion and removal hold the silicon's row. The
unique index on active credentials is `SlotFree`. A login is SERIALIZABLE and
needs the rows it locks to be unchanged (`SnapshotHolds`).

`Membership`: a request resolves the caller's access, reads its target and writes
under row locks; access is not read again, so each write is guarded by what the
statement itself checks: version, row policy, the capability check inside a
function, the unique index on owners.

### Directory

An edit is the sequence of its statements (`Follows`). `BeginStatement` takes the snapshot
in which a statement selects its rows (`wanted`); `LockRow` locks one of them when no other
transaction holds it, and `PassOver` is a row that no longer matches when it is obtained.
After a wait PostgreSQL reads again the row it locks and nothing else, so `StillMatches`
asks for the status of a membership but, for a trust rule, not for the tag by which the
`EXISTS` of `lock_selected_memberships` selected it; the statements of `0054` lock the
assignment too and read it again. `found` and `earlier` are what the current pass and the
one before it have found. Rows are obtained in any order, which allows more than the order
of identifiers; deadlocks end with `Rollback`.

### Idempotency, OnceOnly and GuardedMutation

`Idempotency` has one row per pepper version, the keyring of every running process
and the lifecycle of a call on the three kinds of routes: *transactional* (claim,
mutation and completion commit together), *reserving* (the claim commits first, a
provider is called, the record is completed or released) and *kept* (Honeycomb's
operations, plain digests without expiry). `acts` remembers what was done while
the record lives. `OnceOnly` knows only the act that is remembered and the answers
given; `Idempotency!Once` maps one to the other. `GuardedMutation` is the envelope
around a record: admission, the scope a key is claimed in, the comparison of the
version, step-up, audit and event; its `Lock` and `Finish` hold the row between
them, everything else interleaves.

## 3. Runs

| Run | Instance | Shows |
|---|---|---|
| `pipeline_ordering` | 2 instances, 2 events of one aggregate, batches of 1, 2 attempts, lease 1, stalls and database errors | `LaneOrder`, `ExpansionAtomic` while claims, expansions, lost leases and crashes interleave |
| `pipeline_recover` | 1 instance, 1 event, 2 endpoint generations, 1 replay batch, suspensions, lease 2, deadline 1, database errors, `RecoveringSpec` | the lease policy suffices (`AttemptHoldsLease`) and everything ends (`EverythingSettles`) |
| `authority_first_party` | 1 session, 2 keys, 3 tokens per family, 3 erased records, 2 transactions in flight | `FamilySound`: one presentable token, none in an ended family, honest retries are safe while their record lives |
| `authority_application` | 1 session, 1 application, 2 codes, 2 tokens, 1 key, 2 erased records, 1 suspension, 1 transaction in flight | `AuthoritySound`: reuse stays contained, nothing is issued under a revoked session, nothing works again |
| `identity` | 8 components, see below | `LoginSound`, `SignupSound`, `StepUpSound`, `CliSound`, `OboSound`, `RotationSound`, `SsoSound`, `LimitSound` |
| `organization` | 7 components | `InvitationSound`, `NotificationSound`, `MembershipSound`, `SensitiveActionSound`, `DirectorySound`, `HierarchySound`, `ReadsSound` |
| `applications` | 6 components | `TokensSound`, `PublicationReviewed`, `IntrospectionSound`, `EnvironmentSound`, `ImportSound`, `CreationSound` |
| `requests` | 6 components | `MutationSound`, `IdempotencySound` (with the refinement of `OnceOnly`), `ListedOnce`, `BundleSound`, `LogoutSound`, `CutoverSound` |
| `events` | 7 components | `OutcomesSound`, `EndpointSound`, `SiliconWebhookSound`, `HoneycombSound`, `ProjectionSound`, `DisclosureSound`, `RoutingSound` |
| `login_duplicate` | 2 email requests | **violated**: `NoDuplicateSend` (section 6) |
| `invitation_resend` | 1 carbon, 1 invitation, 3 codes | **violated**: `CodeWindowCarried` (section 6) |
| `creation_compensation` | 2 keys, 3 calls | **violated**: `CompensationErases` (section 6) |

What each property says is the comment above it, in its module.

**Runs of several components.** Components that share no state are checked in one
run: the first state chooses a component (`focus`), whose actions then are the only
ones, so the reachable states are the disjoint union of the components' own and
nothing is multiplied. An MC module extends its components, which keep their own
variables; those that are not chosen stay as they begin. The properties are the
components' own, the same definitions that the theorems are about. These five runs, and
the two violation runs of `Invitation` and `TestingCreation`, say `CHECK_DEADLOCK
FALSE`: keys, requests, generations and clocks run out.

**Bounds.** Two instances and two events of a lane are the least on which order can
be broken; one row with two instances is the least on which a stale writer meets a
fresh one (the `delivery` component of `events`: 1 event, 1 attempt, lease 1, stalls,
suspensions, 2 endpoints, 1 batch). Two attempts tell a retry from the last attempt;
a lease of one tick expires in the middle of every task. Two concurrent transactions
are the least on which a snapshot matters, and three tokens per family allow the
reuse of a token that is not the last; a second session could only be ended by a logout of
all, which the theorem covers. Three erased records are one more than the two that one
rotation and one reuse leave. Three codes are needed for a window carried
over *two* replacements; a life longer than the cooldown lets each run out before the
other. A chain of authority needs two changes to be withdrawn and restored. Two
pepper versions are one rotation; a replay window of one and a record life of three
ticks separate a record that answers, one that only refuses and one that is erased.
Three silicons close a cycle through two concurrent moves; three connections or
calls let one be old, one current and one late. Each named bound (`MaxTokens`,
`MaxCodes`, `MaxEndpoints`, `MaxBatches`, `MaxEpoch`, `MaxGeneration`, `MaxKey`,
`MaxClock`, `LastTick`, `MaxVersions`, `MaxProofs`, `MaxWrites`, `MaxOrgVersion`, `MaxRevision`,
`MaxConfig`, `MaxPosts`, ...) caps a counter or a number of requests the code leaves
unbounded. In `Membership` four writes besides transfers and three versions of the
organization are enough for two transfers with a promotion, a reduction and a grant
between; in `BundleLogin` `MaxAround` bounds what changes around two handoffs. Sign-ups
are checked twice: two sessions that rival for the same contacts, one message on its way
at a time (`RivalsBound`), and one session that asks again and again with every failure
(`RetriesBound`). Setup links of single sign-on are made before the first sign-in
(`SsoBound`). Revisions up to four leave room for two requests that reserve a testing
environment, each of which advances it, and for other writes of its row between them.
Two edits between the statements of a directory read are the least that make its trust
a mixture. In `Directory` two edits, one tag, a carbon and a silicon let an edit wait for
another in each of its statements; one writer of trust rules at a time (`RulesBound`) meets
every other edit, among them the changes of section 6 that leave a name too many in its
audience, and two such writers are left to the theorem.

What these instances cannot show. In `GuardedMutation` one session, disjoint scopes and one
resource for each route leave the cases of `ReplayConfined` with two sessions or two scope
sets to the theorem `MutationSoundHolds`. In `TestingCreation` no record is erased and no
quota is met: a retry a day later is a new creation. In `ScopedTokens` the conjunct
`ConsentInformed` compares a page with the answer to it and concerns one request only. In
`RateLimit` one constant, `Grace`, stands for the hour a row outlives its use and for the
longest a transaction may wait for a row: the code's statement timeout is far shorter, so
the bound of `SpanBounded` on a burst is looser than it need be.

Replay lanes that mix aggregates, and lanes cut by a suspension while another event
follows, are no instance of their own: `LaneOrderHolds` (section 5) covers them.

**Symmetry** permutes only interchangeable model values (instances, clients,
requests), and never in the run with a liveness property.

## 4. Fairness

Only `EverythingSettles` needs it. `FairSpec` assumes that time passes, that an idle
instance with due rows claims some (the poll loop), that a started task ends
(statement, provider and request timeouts) and, as strong fairness, that an instance
is not slower than its lease *every* time. `RecoveringSpec` adds that a due row is
not passed over forever (the claims take the oldest first) and that the same
transaction does not fail every time (outages end). Nothing is assumed about
endpoints (they may refuse every request), about crashes, or about operators. The
behaviour graph with two instances is too large for the liveness check, so that run
has one worker whose transactions may fail; what two workers do to each other is
checked by the safety runs, and proved.

## 5. What is proved

TLAPS checks the following for every number of instances, events, keys, tokens,
requests and every bound that the named assumptions admit. The assumptions only give
the constants their types and the lease policy its inequality (`src/config.rs`
refuses to start otherwise); TLC evaluates each of them.

**`WebhookPipelineProofs`** (`PipelineAssumption`). `TypeCorrect`;
`LaneOrderHolds`: that a posted pass has every earlier pass settled is not inductive,
for nothing in it speaks of the earlier event that is not yet expanded. `OrderInv`
adds `SentCleared` and `TasksCleared` (a posted pass, and the pass of every claimed
task, is *cleared*: every ordered earlier pass is settled and no earlier event of its
aggregate and organization is unsettled), `PassesOpen` (an unsettled pass is the
current lane of an unsettled row) and `RowsKnown` (a row exists only for a completed
event and never in a batch that has not been opened). No assumption about stalls or
leases is used: ordering survives lost leases. `OutcomesSoundHolds`: `FenceInv`, an
owner's task is about the row's present lane, since whoever takes or replays the row
changes its owner. `ExpansionAtomicHolds`: rows of an event appear in the step that
completes it. `AttemptHoldsLeaseHolds`: `LeaseInv`, the lease left exceeds the time
the attempt may still take.

`EndpointSoundHolds`: a reviewed version that still stands answers for the key as well
(`ReviewStands`), because whoever changes a key bumps it. `HoneycombSoundHolds`: what a
call read under the row's lock still stands when it writes, unless it read that there was
no bundle (`CallsStand`); so accepted operations rest on distinct revisions.
`SiliconWebhookSoundHolds`: what an expansion chose is the silicon as it is now
(`ChosenNow`), since it holds the delivery scope until it ends. `ProjectionSoundHolds`:
`TxSound` says that what a change captured rests on rows it has locked and found active,
`Excluded` that no other writer holds one of them, and `Reported` that a committed removal
is still recognizable in the rows. `DisclosureSoundHolds` is a comparison of the two tables
of scopes, kind by kind and field by field (`LetterFits`); `RoutingSoundHolds` needs only
that active members alone carry tags, and active ones (`RoutingInv`).

**`SessionAuthorityProofs`** (`AuthorityAssumption` and types). `FamilySoundHolds` and
`AuthoritySoundHolds` rest on one invariant of four parts: types; `LedgerInv`, how the
rows relate (which family exists, which token is last, what a consumed token's records
say); `FlightInv`, what a transaction in flight may still believe when it writes; and
`DeadInv`, what the properties say of tokens. The heart is `SnapshotSound`: a token
that a logout's snapshot misses was issued from a token that it sees, whose row was
updated since, so the logout's own write of that row conflicts and it fails. Mints and
exchanges escape the sweep, but under a session that is revoked they are dead.

`LoginSoundHolds`, `StepUpSoundHolds` and `SignupSoundHolds` share a difficulty: the budget
of wrong guesses is a fact about a chain of codes of which all but one are superseded.
`LoginInv` says in which order rows are inserted and replaced, what their two statuses say
of what the providers did, which requests still hold their keys, and that the latest row
carries the counter and the cooldown of all before it. `StepUpInv` says what a row's status
proves of its message, its assertion and the acts it admitted, and that a session has one
verifiable row per target. In `SignupInv` the codes of all sessions are one sequence, every
code but the last of its session and kind is superseded, and the last one counts for all.
`CliSoundHolds`: `CliInv` reads the file, the network and the service's memory as one set of
claims (which generation of which family is presented under which key); a key stands for one
claim, no claim is ahead of the file, and a claim behind the service was answered.
`CooldownHoldsAlways` (`RateAssumption`): `LimitInv` says that the row of a burst stands for
every cooldown that has not ended and outlives it, and that no request waits longer than the
grace; so a row that is erased had nothing to refuse.

**`AccessProofs`** (the assumption each of its components names).
`OboSoundHolds`: `UseInv` says that a proof's epochs are never in the future and that a
withdrawn proof is *dead*: not issued any more, or its parent is revoked, or one of its
epochs lies in the past. Authority only falls, so a dead proof stays dead whatever is
restored, and the locking read refuses it. `RotationSoundHolds`: a snapshot is never
from the future and, while current, names an active credential; a replacement exists
only for an applied request and the credential of an approved one is retired for good;
so a completion finds nothing active although several requests may be approved.
`MembershipSoundHolds`: what a transfer of ownership may assume about the target it
read some time ago. It is refused when the organization has another version, every
transfer bumps that version, and nothing else makes an owner; so the target is still no
owner, the unique index leaves only the caller to step down, and the step moves the
epoch of both.

`SsoSoundHolds`: a configuration is active only while entitled, mapped and backed by an
active connection, of which there is one; and an attempt that was voided has left the
states from which it can complete, so what the provider answers later finds nothing.
`EnvironmentSoundHolds`: `Fence` says what the testing database serves and holds in each
state of the environment, and needs to know whose the state is: what is under way
belongs to the operation that holds the environment (`PendingHolds`, `ErasingPending`),
one call has its claim (`OneClaim`), a call that repeats an unfinished instruction carries
the generation of the environment and switches no erasing one on (`CallsKnown`), and once
a cleaning has switched, nothing of the old generation comes back (`NothingReturns`).
`CreationSoundHolds`: a handler whose transaction is open works for a key without an
answer, is the only one for it (`OneWriterPerKey`), and what it may commit was imported
or knowingly cleaned. Environments are counted by an injection from the drawn ids to the
answered keys. `SensitiveActionSoundHolds`: a consumed approval still matches its request,
so only the idempotency record keeps it from admitting a second write; `SpentRemembered`
says that the record outlives the row, from `ApprovalLife < RecordLife`, which the code
states in two places: 12 hours in `migrations/0112`, 24 in `idempotency.rs:20`.

`HierarchySoundHolds`: that nobody is below himself is defined with the least set closed
under supervision (`Below`), which needs no recursion. `Acyclic` keeps for every silicon a
closed set that holds its supervisor and not itself; a line that changes keeps one too, the
union with the set of the new supervisor or an intersection with one without the silicon
that moved. `InvitationSoundHolds`: an invitation is bound to nobody or to its address, and
whatever happens to it except an acceptance only eases `InvitationInv`.
`NotificationSoundHolds`: revoking what a job announces has ended the job, so no lease check
passes afterwards (`NoticeOrder`). `DirectorySoundHolds`: whoever is locked keeps status and
tags, and a tag locked FOR UPDATE is given to nobody (`LocksExclude`, `Eases`). So from the
moment the second pass takes its snapshot, everybody its condition selects is among those it
has found or still wants (`Knows`), and a change of a tag, which reads the assignment again,
has found exactly its holders. For a rule the converse is false, and the theorem claims it only
of members that the first pass had locked (section 6). `ImportSoundHolds`: at most one
delivery works under the reservation of the environment and it is of the operation that
holds it (`DeliveriesFit`), so what an interrupted import has written is there when it is
taken up (`SecretsHeld`, `ErasuresHeld`), and until an application is erased its
configuration revision only grows (`LifeKept`).

**`ApplicationScopes`** (`ScopesAssumption`). `PublicationReviewedHolds`: `ReuseStands`, an
approval that a plan reuses is the provider's own until the plan lapses, kept because
every operation that ends an approval lapses the plans that rest on it.

**`ScopedTokens`**. `TokensSoundHolds`: an exchange holds the application's row from its read
to its commit, so a withdrawal comes before the read or after the insert, where it finds the
token; and a consent is given only for scopes its page showed.

**`Introspection`**. `IntrospectionSoundHolds`: the client locked for the disclosure is the one
that authenticated (`ClientHeld`); scopes carried over from the second transaction belong to
a token that does not outlive their approval (`ScopesOfToken`); and what the disclosing
statement checked it has locked (`LoadedStands`).

**`RequestProofs`** (`PepperAssumption`, `ReplayAssumption`, `MutationAssumption`,
`ListingAssumption`, `PlaneAssumption`, `KeptAssumption`, `ReadsAssumption`).
`IdempotencySoundHolds` has two parts. That a key acts once is not inductive, for it
says nothing of where a second claim looks. `RingInv` says that every version a row may
lie under is in every keyring, so a claim meets the row or the lock whatever its process
was deployed with; `CallInv`, that at most one call is open, and what its row then says;
`RowInv`, that an act has a row until it is forgotten and a completed row its act. The
second part is the refinement: the initial state maps to `OnceInit`, and each of the
twelve actions to a step of `OnceOnly` or to none. `MutationSoundHolds`: an answer is
confined because only admitted requests are stored and one name stands for one actor,
resource and (for an application's token) session and scope set; the history of a
resource is complete because the row stays locked from the comparison to the commit; a
proof is spent once because the count of sanctioned changes and the proof still fresh
never exceed the proofs ever given. `BundleSoundHolds`: an open handoff has issued for
the least of its applications, each on rows that still hold and that its locks keep
(`Sound`), and two open handoffs have different keys and disjoint consents (`Apart`);
each takes its applications in order, so no two wait for one another.

`ListedOnceHolds`: a row that stayed has been given exactly when the cursor has passed it
(`Given`), and a page keeps all that comes before a row it keeps; the order of a statement
is strict and total, so a page has a last row. `CutoverSoundHolds` (`CutoverInv`): the old
image serves no prepared plane and the new one only converted planes (`StagesFit`), the map
of a prepared plane translates every record it may still meet (`MapCovers`), a new process
works with it until its deadline (`BridgeLoaded`), and what was carried out has a record for
as long as it must be remembered (`ActsKept`). `LogoutSoundHolds` follows from types and the
guards of the transaction. `ReadsSoundHolds` (`ReadsInv`): at every statement of a read the
answer is within the terms it was admitted on (`ReadTerms`), no older than its first
statement (`ReadCurrent`), and its trust is one that a configuration it lived through gives
(`ReadCredible`); that the most specific rule wins needs a maximum of the matching ones,
which is well-founded induction on their rank.

Not proved, and left to TLC: liveness (`EverythingSettles`; the prover has no rule for
fairness or ENABLED) and the other two conjuncts of `LimitSound`, `SpanBounded` and
`RefusedForCause`, which compare sums over stretches of time: a fact about a sum over a set
of any size needs induction over data, which is out of the prover's reach. Every other
property that a passing run checks is a theorem.

## 6. Findings and observations

### Findings with a run

* `login_duplicate`: `confirm_login_delivery` (`src/features/authentication/login.rs:388`)
  releases the idempotency key when the challenge was superseded or has expired,
  although the provider has already delivered its message; a retry under the same
  key sends another one. `idempotency.rs:343` and `delivery.rs:14` say that only a
  definitive rejection before any side effect releases a key. The consequence is a
  second message, not a second login. Signup and step-up do the same.
* `invitation_resend`: a code whose delivery the provider rejected is superseded by
  `fail_invitation_otp_delivery`; the next request then finds no current code to inherit
  from (`organizations/invitations.rs:651`) and starts with no failed attempts and no
  cooldown. `crates/cli/src/manual_assets/api-authentication.md:96` promises that both
  carry into a replacement code.
* `creation_compensation`: the compensation of a failed creation erases on the pool
  without selecting the testing environment
  (`testing_environments/application_layer.rs:265`), so the row policy of
  `migrations/testing/9003` shows it no rows and the imported data stays. Selecting the
  environment alone would not do: the commit that was given up may still take effect, and
  `LinkedHoldsImports` would then fail.

### Observations without a run

Met while translating; each is behaviour of the code that some reader might not
expect. They are not asserted as violations because no text of the repository promises
otherwise precisely enough, or because they only cost availability.

* *Rotation*: two requests for one credential can both be inserted
  (`governance.rs:1149`) and both approved before either is completed. The second can
  then never be completed, stays `approved`, and every later request is refused as
  `rotation_already_pending` until the silicon is removed.
* *Applications*: an exemption of a private application may be recorded while it
  becomes public (`migrations/0121_approvals_persist_until_revoked.sql:108`). A scope
  that becomes critical while a public application adds it is approved as
  "noncritical". `admin_decide`'s branches for `approve` and `approve_pending_changes`
  are unreachable. Honeycomb's configuration of a private application sets
  `review_status` to verified even after a platform suspension, and reviewers of a
  publication may differ from the ones `honeycomb.md:178` describes. Replacing a webhook
  by a known address with a new secret always ends in `webhook_url_conflict`. A bundle
  that was deleted can never be created again under its id, and the retry of a committed
  handoff is refused with `bundle_members_changed` once its members changed
  (`bundles.rs:542`).
* *Sessions*: the record of a rotation is erased after 24 hours (`idempotency.rs:20`), and
  its answer is replayed for ten minutes only; a client whose refresh was answered into the
  void and which retries with the same key after the erasure takes the branch for reuse and
  loses its family (and, with a first-party token, its session). `docs/client/README.md:288`
  and `docs/cli/README.md:403` tell the client of an application to retry with the same key
  and name no limit. `HonestRetryStep` claims only what holds while the record lives.
* *Directory*: `lock_trust_rule_memberships` promises "the exact, stable active membership
  set" (`organizations/trust.rs:698`). One change gives a member the tag of a rule and
  commits; a second holds the member and takes the tag away again, for which it does not lock
  the tag; the rule locks the tag, its second pass selects the member and waits for it; the
  second change commits, and the member stays in the audience although it no longer
  carries the tag. The event then names one member too many; the rule itself is right.
  `DirectorySound` claims what does hold. Archiving a tag (`migrations/0054`) and assigning it
  (`invitations.rs:912`, `silicons.rs:1007`) can commit side by side and leave an
  assignment of an archived tag; the lock order the comment of `0054` relies on is not
  kept by every writer, so the two can deadlock. `update_carbon_directory` assigns a first
  silicon that a concurrent removal just ended. Two concurrent membership updates can
  deadlock on each other's FOR SHARE locks, as can three changes of trust rules.
  `details` of a directory read come from earlier statements than its version
  (`directory_views.rs:405`), trust values may mix two configurations
  (`trust.rs:594`), `get_member_authorization` does not ask for the actor kind's scope,
  and a requester removed in mid-read gets an internal error.
* *Membership*: replacing grants with a stale `admins.manage` revokes nothing but
  inserts. A transfer reads the organization's version after its access check; ownership
  may change in between, and the unique index refuses it.
* *Invitations*: the job of an invitation whose lease was lost is rejected and becomes
  permanently failed.
* *Single sign-on*: a late deactivation of an old connection sets the configuration to
  pending while another connection is active; `update_organization` may write
  `join_method = 'sso'` after `disable` committed (`handlers.rs:342`); withdrawing the
  entitlement does not look at the join method.
* *Testing environments*: a pending lifecycle operation may have become impossible to
  complete (`honeycomb.rs:424`), although `honeycomb.md:279` tells the caller to retry
  it; restoring can exceed the quota; the legacy routes act on managed environments
  without looking at the managed state; a direct restore may activate a prepared,
  cleaning or purged environment; requests admitted before an adoption carry no version
  and are not fenced; a direct rotation moves the key generation but not the runtime
  state.
* *Testing applications*: a refused rotation is never carried out on the application it
  named, as long as that one has not been erased since. A delivery that was orphaned before
  an erasure can still rotate the secret of the application that was registered anew under
  the same id, which takes four requests; `ImportSound` says so in its guard. Every update
  of an environment's row advances its version (the trigger of `migrations/0053`), a
  reservation included, so a request that read the version before must read it again.
* *Events*: an application's `epoch` is not among the fields `required_member_scopes`
  knows; `DisclosureSound` holds because it is never captured without `status`. With profile
  projections, replay is refused on the empty set of fields
  only in one branch (`webhooks.rs:1240`), so an envelope without fields may be replayed
  to an application that lost its permissions. Profile changes read the memberships of
  directory consents without a lock. An event captured before a withdrawal that began
  earlier but committed later is never delivered. A subscriber that filters by a tag
  never hears that the tag was archived when it matched only as an extra; the branch for
  `organization_tag` targets and the `MemberUpdates` branch of removal topics are dead.
  The cursor of a silicon's dead letters carries only the id. Replaying a management
  event clears `delivered_at` without a new attempt count (`migrations/0097:167`).
* *Introspection*: the report on one organization neither locks nor intersects the
  consent's scopes, while the list of organizations does both.
* *Rate limits and pools*: signup, login, step-up and the limiter take a second
  connection while they hold one (`signup.rs:220`, `login.rs:92`, `step_up.rs:176`,
  `rate_limit.rs:183`). A fixed window's block does not carry into the next window's row,
  and the budget of a request that fails later is not returned.
* *Command line*: a logout that was recorded as pending and never reached the service
  can neither be renewed nor confirmed once the access token has expired; only
  `--local-only` ends it.
* *Cutover*: nothing stops an old process from resuming between `prepare` and the
  migration; a repeated `prepare` keeps the first deadline and map; a plane that was not
  prepared does not keep the service from starting.

## 7. Not modelled

The list with reasons is in `PROJECT.json` under `components`. In short: wire
formats, cryptography, rendering and the shapes of payloads are data; the connection
pool is a resource whose exhaustion ends with a timeout; the commands of the CLI, the
client crates, the frontend and the deployment hold no server state;
`webhook_delivery_attempts` is a log; retention of rows that ended long ago cannot be
noticed. The provider's protocol, the database's locks and clocks, and the delivery of
requests are modelled from how the code uses them.

## 8. What is left

Every component under *Modules* is checked, and every safety property of a passing run is
proved but for two conjuncts about rate limits (section 5). The most useful next steps: a
proof of `SpanBounded` for the policies in use, whose sums are finite and small; a model of
the connection pool, should its timeout stop being acceptable; and
the testing plane's own copy of the outbox, which today differs from the production one only
in who may see its rows.
