# AXIGNAL: a TLA+ verification project

AXIGNAL turns institutional sources (World Bank series, TED procurement notices,
documents) into *canonical claims*: facts in an append-only ledger that only
deterministic code may write. Around that core are durable job processing, human
review, entitlements, billing, retention, seats and identity. The state lives in
PostgreSQL (`infra/postgres/*.sql`, much of it in PL/pgSQL functions and triggers);
jobs travel through transactional outboxes to Valkey lists; Python processes
(`apps/api/src/axignal_api`) consume them. The properties that matter are those of
several processes, queues that lose and repeat messages, and transactions that read
something another transaction is about to change.

## 1. Inventory

| Component | State | Operations | What is hard | Correct means |
|---|---|---|---|---|
| F2 scheduler | `scheduled_jobs`, `scheduler_outbox_events`, `scheduler_events`; a Valkey list and its dedupe keys | schedule, pending_outbox, mark, claim, complete, fail, recover; the `run_forever` loop | leases that lapse under a running handler, several publishers, crashes, Valkey without persistence | outbox and job agree; the audit adds up; at most `max_attempts` tries; every job ends |
| Research spine | `research_runs`, `dossiers`, `outbox_events`, candidate and canonical claims; a Valkey list and stream | create, publish, dequeue, transition, complete, fail | unlocked selects, duplicate jobs, decisions on a state read earlier | a fact is admitted once; a run's output is whole; a completed run stays completed |
| Document proposal worker | `research_runs`, `admission_handoffs`, `proposal_outbox_events` | create, publish, the staged worker, `persist_result`, `record_failure` | replays after admission, unlocked read before the writes | one handoff per run; a provisional run waits for a pending handoff |
| Admission runtime | `admission_decisions`, `canonical_claims`, `claim_state_events`, `admission_outbox_events` | publish, decide, replay, `record_failure` | two runtimes on overlapping packages, superseded handoffs | every canonical fact comes from one decision; handoffs are decided whole |
| Human review | `human_review_cases`, `human_review_events`, `dossiers.human_review_context` | open (trigger), request evidence, resolve | concurrent reviewers, replays, gates re-read later | one reviewer, one resolution, no repeated context |
| Entitlements and token ledger | `organisation_entitlements`, `ai_token_reservations`, trial cost account | start a trial, reserve, reconcile, release, expire | an authorization is four transactions; an operation is looked up before the row lock; a trigger keeps a second set of books | counters are the sums of the operations, within budget; a settlement is final |
| Trial governor | triggers of 123/125 on runs and reservations | count active runs, reserve cost | states it does not count | at most one active run |
| Stripe lifecycle | `billing_plan_selections`, receipts, ledger | select, checkout, provider events, upgrade, cancel, roll back | events in any order, repeated, with equal stamps; calls to Stripe that fail after the transaction | one active entitlement; paid access follows its selection; an old event does not revive a subscription |
| Retention | `workspace_lifecycle`, deletions, tombstones | suspend, request deletion, claim, purge, reapply | purge leases, new work during a deletion | a deletion ends only in a purge, after the retention period |
| Seat governance | `organisation_memberships`, `seat_invitations`, `seat_allocations`, the seat row | reserve, deliver, accept, compensate, expire, revoke, change role, sync a plan change | a count of seats before the lock, two owners who revoke each other, lost deliveries | seats, members and invitations agree; an organisation keeps an owner |
| Passwordless identity | users, tickets, challenges, credentials, recovery codes, sessions | sign up, exchange, register, begin and finish a login, recover, log out, start the trial | challenges answered twice, a login overtaken by a recovery, counters out of order | a challenge opens one session; a recovery leaves nothing of before it |
| Request authority | nothing of its own: signed assertions and capability tokens | resolve, sign, verify, ask the seat, authorize, settle, release | credentials that cannot be revoked; two skews; requests in flight while the seat changes | authority ends shortly after the session; a token settles only its reservation |
| Alerts and discovery | alert rows with token digests, contacts; pages, evaluations, snapshots | request, deliver, compensate, confirm, unsubscribe; evaluate, publish, expire, serve | an old delivery that fails after a new request; a page that outlives its evaluation | double opt-in; served pages passed the gate |
| Axent | conversations, messages, holds, exports; the C4 client's own state | create, message, hold, export, delete, purge | the purge selects first and deletes one by one; retried calls | acknowledged messages survive; a purge takes only what is due |
| F1 study | sessions, events, responses | start, append, answer, export, analyse | an event inserted after the completion it did not see | the export holds what was accepted; the analysis is by intention to treat |
| Object store | a data and a metadata file per hash | put, get, verify, delete; readiness and health probes | two puts of the same bytes, kills between two files | an answered put can be read |
| Sources and parsers | source objects, evidence, candidates, claims, dossiers by hash keys | one WDI or TED run; two eForms parsers | revised payloads, a register that changes, keys that forget a field | every published line stands on its source |
| Procurement rehearsals | an in-memory store of batches | admit a notice; check the lineage of a sequence and assemble a dossier | replays by key, order of the inputs, partial batches | whole batches; no claim the notices do not make |
| Proposal gateway | a worker built once from settings and fixtures | parse, scan, ask, bind evidence, identify, hash | answers about another document; restarts with another gateway | proposals are traceable |
| O01 approval renewal | issue comments, evidence artifacts | recover, extract decisions, observe terms, classify, upload | decisions in any order, a package recovered of another head | a quiet run had both approvals |
| Contact policy | none: frozen objects and their validators | build a channel, a fact, a clarification, a workspace, an audit event | three fields that may contradict each other; rule order | personal data stays contained |
| Decision kernels P05-P24 | none: pure functions | 163 kernels from observed facts to a verdict | the order of early returns | worse evidence gives no better verdict, and the losses that do are named |
| Billing settings | the deployed settings | checkout, upgrade, webhook, test route | prices and secrets rotated under a checkout | activations are earned |
| Remote pilot | one environment file, password files, metadata, release record and link | create, rotate, retire; deploy, roll back | two writers of one file; kills between atomic writes | what accepts a password is on record |
| Navigator prototype | the client's investigation | text commands, a research answer | several commands in one message | focus, selection and trail agree |
| Verification scripts, web and landing apps, telemetry | none | | | not modelled (section 6) |

How they meet: the API writes a run and its outbox row in one transaction and then
calls the same `publish_pending` that the worker loops call; workers pop a Valkey list
and write through repository methods that are one transaction each; the proposal
worker's handoff row fires a trigger that fills the admission outbox; an admission
decision fires the trigger that opens a review case; entitlements, billing and
retention share `organisation_entitlements` and guard the inserts of runs and
reservations by trigger. The identity runtime writes the owner's membership, which the
seats govern; the seat registry is asked by the middleware on most paths. The other
components of the table share no row with these: they meet them only through what
they are given (a document, an answer of a source, a setting).

`PROJECT.json` lists all components (those left out too, with the reason) and the
hazards, each at its line.

## 2. Modules

| Module | Models | Uses |
|---|---|---|
| `JobLifecycle` | what the scheduler promises about a job: the abstract specification | |
| `Scheduler` | `050-f2-runtime-spine.sql`, `scheduler.py`, `scheduler_service.py` | refines `JobLifecycle` |
| `SchedulerProofs` | theorems about `Scheduler` | `Scheduler`, TLAPS |
| `OutboxRelay` | the `publish_pending` loop, shared by three outboxes | |
| `ResearchSpine` | `repository.py`, `ted_repository.py`, `queue.py`, `worker.py` | `OutboxRelay` |
| `ResearchSpineProofs` | theorems about `ResearchSpine` | `ResearchSpine`, TLAPS |
| `HumanReview` | `040`/`042` SQL | |
| `DocumentAdmission` | `proposal_*.py`, `document_proposals.py`, `admission_*.py`, `030`/`035` SQL | two `OutboxRelay`s, `HumanReview` |
| `DocumentAdmissionProofs` | theorems about `DocumentAdmission` and its reviews | `DocumentAdmission`, TLAPS |
| `TokenBudget` | what the ledger promises of a trial's tokens: the abstract specification | |
| `TokenLedger` | `080`-`082`, `123`, `125` SQL, the triggers of `090`, `entitlement_repository.py`, `entitlements.py`, `identity_entitlement_routes.py`, `capability_tokens.py` | refines `TokenBudget` |
| `TokenLedgerProofs` | theorems about `TokenLedger` | `TokenLedger`, TLAPS |
| `Billing` | `100` SQL, `billing_routes.py`, `billing_provider.py`; Stripe as an external actor | extends `TokenLedger` |
| `Retention` | `090`, `132` SQL, `retention_worker.py` | extends `Billing`: the whole tenant |
| `TenantProofs` | theorems about `Billing` and the whole tenant | `Retention`, `TokenLedgerProofs` |
| `Seats` | `110` SQL, `seat_routes.py` | |
| `Identity` | `120`-`122`, `124` SQL, `identity_routes.py` | |
| `Accounts` | one owner's identity and one organisation's seats | `Identity`, `Seats` |
| `AccountsProofs` | theorems about `Accounts`, its seats and its identity | `Accounts`, TLAPS |
| `RequestAuthority` | `identity.py`, `entitlements.py`, `capability_tokens.py`, `founder_identity.py`, `identity_entitlement_routes.py` | |
| `TenderAlerts`, `Discovery` | `131` SQL and its routes; `130` SQL, the founder and public routes | |
| `Axent` | conversations of `140` SQL, the store of the subscriber authority, `c4_axent_e2e.py` | |
| `ControlledStudy` | `060` SQL, the validation routes, the frozen analysis script | |
| `ObjectStore` | `object_store.py` and the two probes | |
| `SourceArtifacts` | `repository.py`, `ted_repository.py`, `admission.py`, the connectors | |
| `TedNotices` | the two eForms parsers | |
| `Procurement` | the admission rehearsal and the lifecycle assembler | `TedNotices` |
| `ContactPolicy` | the validators of the procurement domain and the O01 policy | |
| `ApprovalRenewal` | the O01 renewal workflow and its four scripts | |
| `ProposalGateway` | `proposal_worker.py`, `document_proposals.py`, the gateways, from within | |
| `BillingRuntime` | the settings, providers and test route of billing | |
| `RemotePilot` | `prepare_env.py`, `remote_state.py`, the deploy and rollback scripts | |
| `PrototypeInvestigation` | the commands of `main.py`, `research.py` | |
| `FoundationKernels` | ladders of facts and the order of verdicts; `scripts/p05..p07_*_reference.py` | |
| `BidKernels`, `StrategyKernels`, `IntelligenceKernels`, `LaunchKernels` | `scripts/p08..p24_*_reference.py` | `FoundationKernels` |
| `Kernels` | what happens to a verdict as evidence is lost | the five |
| `MCPlatform` | the ledger and fifteen components without shared state, one in focus per behaviour | `TokenLedger`, an instance of each |
| `PlatformProofs` | theorems about those components, but for `Procurement` and `Kernels` | `MCPlatform`, TLAPS |
| `DecisionProofs` | theorems about `Procurement` | `MCPlatform`, TLAPS |
| `MCScheduler`, `MCResearchSpine`, `MCDocumentAdmission` | what the small instances of TLC take as constants | |

**A step is a transaction**, or a call to Valkey, or the code between two of them; a
process can be overtaken or die between any two steps. Where a transaction reads
without a lock what it relies on later, it is split: `persist_result`
(`BeginPersist`, `PersistResult`) and `decide` (`Validate`, `Decide`, with the row
locks it holds in between as guards `HandoffFree` and `RunFree` of everyone else).
The other SQL functions take their row lock first, or guard their update by the state
they replace, and are one step. `recover_expired_scheduler_leases` works on many rows
and is split into its three statements.

**Scheduler.** `state`, `attempts`, `owner`, `policy` are columns of a job; the clock
appears as `due` (`run_at` has come) and `lapsed` (`lease_expires_at` has passed).
`events[k][e]` counts the rows of each audit type. `pc[s]` walks through
`run_forever`: RECOVER, SELECT, PUSH/MARK for each row, RECEIVE, CLAIM, HANDLE,
FINISH. A delivery is `<<key, publish_attempts>>`, as in the dedupe key. A
`LEASE_MISMATCH` is not caught by the code, so it restarts the process. A recovery
locks its rows (`RecoverUpdates`, `locked[s]`), reopens outbox rows (`RecoverReopens`)
and writes the audit and commits (`RecoverCommits`). Its second and third statement
find "its" jobs by `last_error_code` (`flagged`) and `updated_at`: `since[s]` is the set
of rows last written by a transaction that began no earlier than s's recovery, for which
`later[s]` orders the recoveries under way. So a job that another recovery gave up
meanwhile, or that was marked or claimed since, gets a second audit row, as in the code;
and since PostgreSQL re-reads only the outbox row after waiting for a publisher's lock,
and not the job it is joined with, the second statement can set a row PENDING whose job
has just become QUEUED. A transaction that waits for a row is taken to begin when it
gets it. Every process claims under the same worker id, as `scheduler_service.py:69`
has it.

**OutboxRelay and ResearchSpine.** A publisher selects the pending rows and then
sends and marks them one by one; API request handlers and worker loops are both
publishers. `wpc[w]` walks through `process`; `Transition` is an UPDATE with no
condition, as in the code. `CompleteRun` is the whole completing transaction. The
index `dossiers_one_per_research_run_idx` is the guard `DossierSlotFree`, and the
uncaught UniqueViolation is `SecondDossier`. The source registry's several gates are
one switch.

**DocumentAdmission and HumanReview.** A handoff is `<<run, n>>`, the n-th package of
a run: the package hash covers the completion time of the pipeline, so no two
executions collide. The parser, the injection scanner and the language model are a
choice between a set of candidates, an unsafe document and a failure. Hash and schema
comparisons of `decide` are one `integrity` bit. `Evaluate` keeps the policy:
not in the profile, not equal to the rederived value, contradicted by another
candidate, admitted. A review case is a `<<handoff, candidate>>` pair with its event
list.

**TokenLedger, Billing, Retention.** One tenant, because the tables are isolated by
tenant; the three modules share `organisation_entitlements` and so build on each other
(`Spec`, `BillingSpec`, `TenantSpec`). An entitlement is named by its kind: a tenant
has one trial ever, and the paid row is updated in place. `call[c]` walks through
`/ai/authorize`: `start` (the prepared trial's INSERT, not yet committed), `sweep`
(`expire_due_trial`, in its own transaction, with the time the whole request then
uses), `lookup` and `lock` (the two looks of `reserve_ai_tokens`, without and with the
entitlement's row lock), `read`. `Settle` and `ReleaseRows` contain the trigger that
settles a reservation's cost, and `Synced` the one that copies an entitlement's state
to the workspace. `request_workspace_deletion` is two steps; in between it holds the
workspace row (`deleting`) and the reservations it has released (`locked`), and
everyone else's guards wait for what it holds. Stripe has a session and a subscription
per selection; a change there is reported in events of which any may be lost, with
stamps in whole seconds. A call to Stripe and the change it makes are one step, since a
late change looks like a late event; the call may also fail. `Receive` is the receipt
that every accepted event leaves, and an event that raises leaves none and can come
again.

Simplifications of the ledger: the identity runtime is enabled, so direct trial activation (refused
then) is left out; a trial's owner membership (`bootstrap_organisation_owner`) belongs
to the seats; `invoice.paid` and unhandled subscription statuses only leave receipts
and are left out; a request's terms are its token count; and a `reserve` that waits for
the lock of a row that stops being active gets, in the model, to draw on the row that
is active afterwards, where PostgreSQL may report none.

**Seats, Identity, Accounts.** A seat function is one step when all it decides on is
under a lock it holds; the plan-change trigger, the revocation of a member and the
change of a role are two, because they count rows they have not locked. In `Identity`
only the login is two: it reads the user's row without a lock. Branches that mark a row
EXPIRED raise in the same transaction, so the mark is rolled back: a lapsed ticket only
stops being usable. The two modules meet in the owner's membership alone; a behaviour
of `Accounts` follows one of them.

**RequestAuthority.** What was signed is an assertion with its expiry; `gone` counts
the time since the session last resolved. A request that passed the middleware is
`incoming` while others run, the clock moves and the seat changes. Its trial is started
and committed before the settings of the ledger are looked at, so a refusal after that
leaves a trial behind (`AuthorizationRefused`). Tokens are signed
for one reservation. Signatures are intact or not. The signer's clock may be ahead of the
API's by a constant (`lead`): only then does the check of `iat` decide anything, and all it
does is to make an assertion wait. The lead adds itself to the bound, so that with a signer
within the skew authority outlives its session by up to `MaxAssertionTTL + 2 * AssertionSkew`.

**TenderAlerts, Discovery.** Tokens are numbered in the order they are drawn and a
digest is its token. A request writes its row, then sends; the compensation of a failed
send is a transaction of its own, and so is the delivery that fails; either of them, and an
unsubscription, ends the alert in one statement and the contact in another that looks for
other alerts without locking them. A page is an evaluation, a snapshot and a state;
data changes and grows old underneath.

**Axent, ControlledStudy, ObjectStore.** An Axent call is a function of the store to a
status and a store; the purge is a selection and then one step per conversation. The
study's `append` reads the session in one step and inserts in another. A put is the
write of the data, the rename and the write of the metadata, and a process may be
killed before each; the probes put the same bytes as everyone else's probe.

**SourceArtifacts, ProposalGateway.** They open what `ResearchSpine` and
`DocumentAdmission` take as one choice: which rows a payload leaves under which hash
keys, and how an answer of a model becomes candidates. A hash is the value it is taken
of, so equal hashes are equal values and a field a key leaves out is left out here too.

**Procurement, ContactPolicy, Kernels.** Pure code. The parsers accept or refuse a
record of the elements they read. Contact objects are frozen, so a behaviour builds
one. A kernel is an operator over a record of facts, and `Kernels` loses evidence one
fact and one rung of its ladder at a time. A ladder runs from the best evidence to the
worst: what is unknown ranks above what denies, and what nobody looked at or no list of
the code contains ranks last. Limits, clocks and required lists are parameters, fixed or
tightened; kernels that answer with states of their own (`Closed`) are only asked whether
they let a case through. ZERO in `preserve_value_state` is an entry of its own, because
it demands the very value that UNKNOWN forbids. Three sets name what the code does not
keep: 22 kernels look at some reason to review before some reason to deny, so that a loss
softens a denial (`Masking`); 12 are handed a bare list and cannot miss an entry left out
of it (`BareLists`); 8 take an unknown or unlisted value for a harmless one
(`OpenEnded`). In the last two such a loss may let a case through: the property says that
these are all, not that they are harmless.

**ApprovalRenewal, RemotePilot, BillingRuntime, PrototypeInvestigation.** A renewal run
is one step: its concurrency group lets no two of a branch overlap; offline it evaluates
the authority at a day of its own (`FrozenDay`). On the pilot's host
each atomic file write is a step, because credential commands and deployments take no
common lock; sourcing the environment is one too, because Compose is given what was
sourced and not what the file says when it starts the service. A deployment whose link or
record fails runs its ERR trap, like one whose verification fails. In `BillingRuntime` an operator deploys other settings between any two
requests: prices rotated, lost, or one for both plans, modes and keys changed. A refused
event (no plan for its price, or another plan than the row waits for) stays with Stripe, and
`PaidPlanStaysWithinReach` says that it is not lost: with the prices it was sold at back in
force it activates the plan. How long Stripe retries, and whether the prices come back, is
outside. What the model shows beside that: a live key outside sandbox-only mode sells a
subscription whose events the database refuses for good (`ModeTaken`), and two plans at one
price are read as the first, so that TEAM is never activated; the property is about the
sandbox and about two prices. A subscription event without a price is a PROFESSIONAL one
while that price is unset (`PlanUnder`). A prototype command is the set of the words that matter in it.

**MCPlatform.** `focus` says which component a behaviour is about. The components
share no state, so a property of one that held for all its own behaviours holds
whatever the others do, and interleaving them would only multiply the states.

## 3. Runs

| Run | Instance | Checks | Result |
|---|---|---|---|
| `SchedulerSafety` | 2 jobs, 2 processes, 1 crash, 1 Valkey restart | `ScheduledIsPending`, `AuditTellsTheEnd`, `OneMessagePerDelivery`, `ImplementsJobLifecycle` | holds |
| `SchedulerProgress` | 2 jobs, 1 process, no fault, weak fairness | `EventuallySettled` | holds |
| `ResearchSafety` | a World Bank and a TED run with one fact in common, 2 workers, 1 publisher, 2 refused sends, 2 crashes | `LedgerOnce`, `OutputIsWhole`, `QueuedIsAccountedFor`, `CompletionPublishedOnce` | holds |
| `DocumentSafety` | 1 run, 2 candidates, up to 2 handoffs, 2 workers, 2 runtimes, 2 reviewers, 1 outage, 1 crash | `DecidedWhole`, `RunAgreesWithHandoff`, `ReviewIsAccounted` | holds |
| `DocumentLedger` | 2 runs that share one of 3 candidates, 2 runtimes | `LedgerTraced` | holds |
| `BillingSafety` | 2 selections, 3 events, 1 request and operation, no clock | `AccessFollowsTheSelection`, `LateEventsSpareTheNewPlan` | holds |
| `TenantSafety` | 1 selection, 2 events, 1 request and operation, 2 purge workers, 2 ticks | `BooksAgree`, `DeletionIsSticky`, `RetentionIsKept` | holds |
| `AccountSafety` | identity: 2 requests, 1 sign-up, 1 recovery code, 2 tickets, credentials and challenges, 3 sessions, counters to 2; seats: 3 people, 2 invitations, 2 calls, 2 owner subjects, plans of 1 and 3 seats | `SessionsAreEarned`, `CloneSignalNeedsOverlap`; `SeatBooksAgree`, `OversoldOnlyByRaces` | holds |
| `PlatformSafety` | the ledger and fifteen components, see below | the 18 properties below | holds |
| `BillingStale` | 1 selection, 4 events | `OlderEventsNeverReactivate` | **violated** |
| `SeatLastOwner` | as `AccountSafety` with 1 owner subject, plans of 2 and 3 seats, and without symmetry | `OwnerRemains` | **violated** |
| `AxentHold` | 2 conversations, 1 message, 2 days | `HeldConversationSurvives` | **violated** |

Several properties are conjunctions of what their component promises:
`ReviewIsAccounted` of the case's history and the dossier's context,
`AccessFollowsTheSelection` of three about entitlements, `SessionsAreEarned` of
recovery and one session per challenge, and so on; the comment on each says what its
parts are.

`PlatformSafety`, by component in focus:

| Component | Instance | Properties |
|---|---|---|
| token ledger | 2 operations, 2 requests, 1 or 2 tokens each, budgets of 3 tokens and 5 microunits at rate 2, 1 tick | `WithinBudget`, `AnswerMatchesReservation`, `SettlementIsFinal`, `ImplementsBudget` |
| decision kernels | every kernel of P05-P24, every combination of the rungs of its ladders | `VerdictNeverImproves` |
| procurement | the notices of the tests, whole and damaged, sequences up to 3 in every order, 2 batches | `ProcurementHolds` |
| contacts; approval renewal | every object the enumerated fields make; 2 heads, 2 comments, expiries of 1 and 5 days around windows of 1, 2 and 5, offline runs at day 0 | `ContactPolicyHolds` |
| alerts; discovery | 2 markets, 3 tokens; 4 candidate pages, 3 days | `OrganicSurfaceIsEarned` |
| study | 3 participants, 1 task, 2 conditions, thresholds of 2, 2 and 1 | `StudyIsHonest` |
| Axent | 2 people, 2 conversations, 2 messages, 2 days | `AxentKeepsItsWord` |
| object store | 3 putters, 2 probes, 3 backends | `StoredObjectsCanBeRead` |
| source artifacts | 2 workers, 3 payloads per source, 1 review | `OutputStandsOnItsSource` |
| remote pilot | 2 releases, 2 password files, 2 passwords | `PilotStateAgrees` |
| proposal gateway | 2 jobs on 2 opportunities, 5 documents, 12 answers | `ProposalsAreTraceable` |
| billing settings | 7 deployments, 3 prices, stamps to 3 | `PaidPlanStaysWithinReach` |
| prototype | 3 versions | `InvestigationHoldsTogether` |
| request authority | 4 deployments, one with a signer 2 ahead, 2 reservations, lifetimes 1 and 2 against a limit of 1 and a skew of 1, tokens of 1, a session that idles after 2 and ends at 3, a clock to 4 | `AuthorityIsBounded` |

Bounds. Two jobs and two processes let one process act on a stale view of the other's
job; a job kind with two attempts and one with a single attempt reach a retry, the
last attempt and the dead letter. In `ResearchSafety` a publisher that dies after a
send makes the duplicate (so one publisher is enough), `PublishLimit = 2` with two
outages reaches the FAILED row, and two crashes let a duplicate and a lost job meet.
In `DocumentSafety` two handoffs are what a superseded one needs; a rederivable fact
and a limitation adverse to it are admitted, contested or left to people depending on
which of them a package holds. `DocumentLedger` adds a wrong value of the same fact,
which is rejected, and two runs that both propose the fact, so that one of them ends as
a `DUPLICATE` or finds its candidate decided already.
For the token ledger the cost budget of 5 at rate 2 refuses a third token that the token
budgets of 3 admit: with one rate the smallest of the three limits always refuses first, so
that in this instance the token limits never decide alone (`BudgetHolds` is about all
values); a term of one tick lets a
trial end between any two steps of a request, and a second request with the same
operation and other terms overtake it. In `BillingSafety` two selections and three
events are what an event of the first subscription that arrives in the life of the
second needs; a tick changes nothing there that `TenantSafety` does not have. In
`TenantSafety` two ticks let the retention period and then a purge lease lapse, with a
second worker to claim; the whole tenant is there so that provider events, expiry and
reservations meet the deletion. `Offered` holds one plan, from which `UpgradeSubscription`
reaches the other.
In `AccountSafety` two requests are an old login that overtakes a recovery, or a later
assertion that commits before an earlier one; plans of 1 and 3 seats
let one be upgraded and downgraded around a reservation, down to a pending invitation.
The assertion's lifetimes lie on both
sides of the API's limit, and one signer's clock beyond the skew, so that the limit and not the signer decides one of them.
Two alert tokens are a request and the newer one that supersedes it; the third is the
other market's. Three putters are one that died, one that overtakes it and a later one.
The renewal's expiries lie on both sides of its window, and the third artifact of a
row of runs is the first that holds another one.

Symmetry permutes workers, runtimes, reviewers, keys and processes, requests,
invitations and owner subjects, which no definition distinguishes; it is not used where a
liveness property is checked, and the runs of `Billing` and of the whole tenant do without. Deadlock is checked except in the runs of `Accounts`,
`MCPlatform` and `Axent`: those components do stop, because an object is built
once, a rehearsal ends, a clock or a number of tickets reaches its bound. The
scheduler's loops never stop, an operator can always switch a source, and a settled
tenant can still be read, rolled back or asked again.

Fairness (`SchedulerProgress`): weak fairness of each process's loop (`run_forever`
has no exit, the container restarts), of `run_at` passing and of a lease lapsing (the
clock). Nothing is assumed about handlers: one may raise every time. No other
component has a loop whose progress the code itself guarantees: requests come from
people, purges and renewals from a scheduler outside the repository.

What the violations show:

- `BillingStale`: `apply_stripe_billing_event` recognises an old event in its first IF
  chain, and the second chain cancels or suspends whatever the first found. An old
  `invoice.payment_failed` after a deletion makes a CANCELLED selection SUSPENDED and
  moves `last_provider_event_created_at` back, and an old `updated` with status active
  is then neither old nor about a cancelled subscription: the entitlement is ACTIVE
  again. What holds is that such events never touch the entitlement of a later selection
  (`LateEventsSpareTheNewPlan`).
- `SeatLastOwner`: `revoke_organisation_membership` locks the membership it revokes and
  counts the other owners without locking them. Two owners who revoke each other at
  the same time both count two. The race has a second consequence, which the proof of
  `OversoldOnlyByRaces` brought up: `bootstrap_organisation_owner` may then seat a new
  owner, and it does not count the seats, so a plan that shrank to its pending
  invitations in the meantime is oversold. `AccountSafety` has the owners and plans for
  it, and the property names it.
- `AxentHold`: the purge looks for holds in the snapshot of its SELECT. A hold that is
  placed, committed and answered before the loop reaches its conversation protects
  nothing. What holds is that a purge takes only conversations that were due, and not
  held, when it began (`AxentKeepsItsWord`).

### Counterexamples outside the listed runs

The modules state eight more properties that the code's docs or the shape of the code
suggest and that TLC refutes. Each takes a small change of a configuration above:

| Property | Instance | What TLC finds |
|---|---|---|
| `EventuallySettled` | `SchedulerProgress` with one key and `MaxCrashes = 1` | `BRPOP` removes the message before `claim` leases the job: a crash in between leaves the job QUEUED with its outbox row PUBLISHED, and recovery looks only at LEASED jobs. With two processes it fails without a crash: one pops a message the other has pushed and not yet marked, its claim is refused because the job is still SCHEDULED, and the late mark leaves a QUEUED job without a message |
| `CompletedIsFinal` | `ResearchSafety` with the TED run only, 2 publishers, `PublishLimit = 5` and no fault | `transition_run` and `fail_run` do not look at the state they replace: the slower of two workers with copies of one job moves a COMPLETED run back. The ledger and the dossier are unharmed |
| `OneHandoffPerRun` | `DocumentSafety` with 2 publishers, 1 of each other process and no fault | the proposal worker takes only COMPLETED_PROVISIONAL for done: a duplicate job that arrives after the admission decision makes a second handoff and empties the run's claims; that handoff is quarantined, because its candidates are no longer ADMISSION_QUEUED |
| `SessionNeedsReplacement` | `AccountSafety` with `SignupLimit = 2`, `MaxTickets = 3` and no symmetry | `complete_passkey_registration` does not look at the user's status: a sign-up link used while the account is in recovery binds a passkey and opens a session |
| `ModelClaimsStayProposals` | `Procurement`, `ProcurementSpec`, with the notices of `MCPlatform` | the batch key covers the document and the policy and not the producer: a model that resubmits claims the parser had admitted is answered with the stored, admissible results |
| `EvidenceIsRecovered` | `ApprovalRenewal`, `RenewalSpec`, constants as in `PlatformSafety` | the artifact a run uploads contains the one it recovered: the third run in a row finds two packages and no later run is quiet |
| `FailedDeployRollsBack` | `RemotePilot`, `PilotSpec`, 2 releases and 1 password | `deploy` writes the candidate's build into the environment before its ERR trap is set: a failed check leaves the environment with the refused release |
| `WebRunsTheRecord` | `RemotePilot`, `PilotSpec`, constants as in `PlatformSafety` | a rotation that sourced the environment before a deployment wrote it recreates the web service after: the record, the link and the environment name the new release, the service runs the old one, with no torn write. `PilotStateAgrees` excepts just this (`late`) |

What the passing runs of the tenant do not claim: that nothing is reserved under a
deletion. In `TenantSafety`'s instance TLC reaches a reservation that commits between
the deletion's release and its commit and stays RESERVED, and a trial that was being
started when the workspace was purged and commits after the tombstone. Both are in the
hazards.

What other properties leave out. `OutputStandsOnItsSource` looks at the gates of a source
when it was read, not at a gate closed before the run completes.
`OrganicSurfaceIsEarned` binds a served page to its last evaluation, which the data may have
left behind when the page is published. `StudyIsHonest` does not compare the time of an event
with the completion of its session, and the code takes events after it. `PilotStateAgrees`
excepts a torn environment file and a service that a late rotation restarted.
`InvestigationHoldsTogether` is about clients that send the state they were last given;
the server runs whatever state it is sent.

Each property of a passing run has a mutant: an operator marked `[mutant]` next to the
definition it replaces, which breaks it as a plausible bug would.

## 4. Proofs

`SchedulerProofs` proves, for every set of keys and processes, every set of policies
with positive budgets, and any number of crashes and Valkey restarts:

- `TypeCorrect`: the types;
- `OutboxNeverForgets` (`ScheduledIsPending`), `AuditNeverMisleads` (`AuditTellsTheEnd`)
  and `DeliveriesAreDeduped` (`OneMessagePerDelivery`), invariants of `SchedulerSafety`;
- `Refinement`: `Scheduler` implements `JobLifecycle`.

Assumptions: `PoliciesAssumption` (the table's CHECK on `max_attempts`) and
`NoOneAssumption` (NULL is no key and no worker id).

The argument. The checked invariants are not inductive by themselves: a mark needs to
know that the process holds a key, `AuditTellsTheEnd` needs that a job can be dead-lettered
only from a lease or a lapsed lease, and the refinement needs that a waiting job has
attempts left. `IInv` adds `HandsFull`, `WaitingHasBudget`, `SubmittedHasPolicy`,
`MessagesDeduped` and `LocksAreHeld` (what a recovery has locked is leased, and no other
one's: its commit gives up exactly that). One lemma per SQL function shows that it keeps the tables in
agreement (`ScheduleTables` ... `RecoverTables`), and each action is then a use of one
of them; the processes and the list have a lemma each (`ProcStep`, `QueueStep`).
`LocksStep` shows that a write to a row that is free takes no lock away. In the refinement
the commit of a recovery maps to `GiveUp` of the set it has locked, claims to `Try`, and
everything in Valkey and the first two statements of a recovery to stuttering.

`TokenLedgerProofs` proves, for every finite set of operations, any requests in flight,
every budget, ceiling, price and term:

- `TypeCorrect`, `BudgetHolds` (`WithinBudget`) and `AnswersMatch`
  (`AnswerMatchesReservation`);
- `BooksBalance` (`BooksAgree`): the counters are the sums of the operations;
- `SettledForGood` (`SettlementIsFinal`), an action property;
- `Refinement` (`ImplementsBudget`): the ledger implements `TokenBudget`.

Assumption: `LedgerAssumption` (amounts are positive, as `reserve_ai_tokens` and the
table's CHECK demand; the other parameters are natural numbers; operation ids are texts
of 8 to 200 characters, so there are finitely many).

The argument. `WithinBudget` needs that a row whose cost is open has tokens
(`RowsHaveTokens`): the settling trigger divides by them, and `ShareOfCost` shows that a
part of a cost, rounded down, is at most the cost. `BooksStep` reduces the steps to the
four that change the books (nothing, opening the account, a checked draw, a
settlement of an open row), so the invariants about rows and budgets are each proved
once per kind of change. `AnswersMatch` rests on `RowsKeepTerms` (nothing changes the
terms of a row that exists) and `ReadStep` (how a request gets to its answer).
The books add that a cost is open exactly while its row is, that nothing is drawn on a
trial before there is one, and that at most one request is starting it (`Beginning`),
because its commit opens the account anew. Their sums are folds, and what a fold
computes is a matter of induction: the library's induction theorems cannot be used, but
"a set of subsets of a finite set has a minimal one" (`MinimalSet`) needs no operator, and
`SumExists`, `SumUnique`, `SumRemove` and `SumParts` follow from it by looking at a
smallest set for which they would fail.

`TenantProofs` carries this to the steps of Stripe, the operator and the retention, for
every set of selections and workers and every bound on events:

- `TenantBooksBalance` (`BooksAgree`, as `TenantSafety` checks it), `TenantBudgetHolds`
  (`WithinBudget`), `TenantSettlesForGood` (`SettlementIsFinal`) of the whole tenant;
- `DeletionsStick` (`DeletionIsSticky`) and `RetentionPeriodsAreKept`
  (`RetentionIsKept`);
- `AccessFollowsSelections` (`AccessFollowsTheSelection`) and `LateEventsAreHarmless`
  (`LateEventsSpareTheNewPlan`) of `BillingSpec`, and
  `TenantAccessFollowsSelections` of the whole tenant.

Assumptions: `BillingAssumption` (NULL is no selection, what is offered for sale is a
paid plan, the bound on events is a number) and `RetentionAssumption` (the retention
period and the purge lease are positive, as `retention_config.py:57` and `:64` demand;
NULL is no worker).

The argument. The ledger's invariant survives a step of the others because each of them
moves no tokens (`StandKeeps`), releases whole rows while the entitlement gives up what
they held (`ReleaseKeeps`), or erases everything (`WipeKeeps`). A deletion request holds
rows it has released over two steps; `Locks` says that they are still open and that the
workspace is not being deleted yet. `Retained` says that a workspace being deleted has a
deadline, and that one queued for its purge or in it has passed it. Access needs what the
property does not state (`Paying`): Stripe has a subscription only for a session that was
paid, and reports a session as complete or as expired, never both, so no payment
arrives for a selection that a report of expiry has ended.

`ResearchSpineProofs` proves, for every set of runs, facts, publishers and workers, every
publish limit, and any number of outages and crashes, all that `ResearchSafety` checks:

- `TypeCorrect`;
- `FactsAreAdmittedOnce` (`LedgerOnce`) and `OutputAppearsWhole` (`OutputIsWhole`);
- `QueuedRunsAreAccountedFor` (`QueuedIsAccountedFor`);
- `CompletionsAreFinal` (`CompletionPublishedOnce`), an action property.

Assumption: `SpineAssumption` (a run's facts are facts, the publish limit is positive).

The argument. A completion is announced only for a row that a publisher selected, so
`BatchesExist` ties the announcement to the dossier that was written with the row. With
that, `OutputIsWhole` is inductive, and it is also why a second completion cannot open a
published row again. Where a queued run is needs three more: a worker that asked the
source has moved its run on (`StartedRuns`, which is why the uncaught UniqueViolation of a
second dossier loses nothing), a run has a request row and the row is given up only at the
limit (`RowsAgree`), and a request that is sent but not yet marked is already on its way
(`SentIsOnItsWay`, the publisher that dies between the two). `StaysOnItsWay` then shows,
action by action, that a job leaves the list and the hands only for progress or with a
worker that died.

`DocumentAdmissionProofs` proves, for every set of runs, candidates, facts, workers,
publishers, runtimes and reviewers, and any number of deliveries, deaths and refused
sends, all that `DocumentSafety` and `DocumentLedger` check:

- `TypeCorrect`;
- `DecisionsAreWhole` (`DecidedWhole`), `RunsFollowTheirHandoff`
  (`RunAgreesWithHandoff`), `LedgerIsTraced` (`LedgerTraced`);
- `ReviewsAreAccounted` (`ReviewIsAccounted`).

Assumption: `AdmissionAssumption` (a run's package is a set of candidates, every
candidate states a fact, the limits are numbers, NULL is no run, handoff or reviewer).

The argument. Candidates and runs are written by one transaction each, but `decide` and
`persist_result` stand between a read and a write, so the invariant says what the reads
still mean at the write (`GatesStillHold`): a runtime that passed the gates has its
handoff pending, its run pointing to that handoff, and no other runtime deciding about
the run (`HandoffFree`, `RunFree` keep the others out). `LinksOwn` and `Numbered` add
that a run points to handoffs of its own, numbered without a gap. The ledger needs more
than the property says of it: a fact in it was inserted by exactly one decision
(`LedgerInv`), which is what makes the count of insertions one. The reviews are about
sequences of events: `Story` says of each event by its number what `CaseHistory` says of
the whole, and a step appends to it.

`AccountsProofs` proves, for every set of people, credentials, sessions, invitations and
requests in flight, and every plan, all that `AccountSafety` checks:

- `SeatsBalance` (`SeatBooksAgree`): members, invitations and seats agree;
- `OversellingNeedsARace` (`OversoldOnlyByRaces`), an action property: a plan becomes
  oversold only by the two races the property names;
- `SessionsStayEarned` (`SessionsAreEarned`): no passkey or session in use is older than
  the last completed recovery, and a challenge opened one session at most;
- `CloneSignalsNeedOverlaps` (`CloneSignalNeedsOverlap`), an action property.

Assumptions: `SeatsAssumption` (finitely many people and invitations, seats keyed by one
or the other, every plan has a seat, as the CHECK on `seat_capacity` says) and
`IdentityAssumption` (a number of recovery codes).

The argument. The books need that a request in flight names an invitation and a member
that exist (`SeatRequests`). Everything that ends invitations is one operator, so
`EndKeepsBooks` stands for the plan trigger, the revocation and the compensation, and
`ReserveKeepsBooks` for a reservation that first writes the lapsed ones off. The second
theorem counts: `Occupied` is the cardinality of `Holders`, and a step either seats
nobody (`FewerSeats`), moves a seat (`AcceptanceMovesASeat`), takes one under the seat
row's lock (`ReservationFits`), or is one of the two that `PlanChangeOversells` and
`NewOwnerOversells` describe. `SeatCounts` adds what the last two need: the trigger's
count was within its plan when it was taken, and an organisation nobody ever joined has
no invitations. On the identity side `LocksHold` says of a login that has its locks that
the challenge is still pending, the credential still active and nobody else has either,
so a recovery comes before the locks, and the login finds its credential revoked, or
after the session, and revokes it. `ChallengesSpent` (a session's challenge is consumed)
makes a challenge open one session; `UncountedAreZero` tells an authenticator without a
counter from a cloned one.

`PlatformProofs` proves eleven theorems about the components that stand side by side in
`MCPlatform`, each named after its property: `StoredObjectsStay`,
`OrganicSurfaceStaysEarned`, `PaidPlanStays`, `StudyStaysHonest`,
`PilotStateStaysAgreed`, `ContactPolicyStaysHeld`, `OutputStaysOnItsSource`,
`InvestigationStaysTogether`, `AxentStaysTrue`, `ProposalsStayTraceable` and
`AuthorityStaysBounded`. They hold for every value of the constants: any number of
markets, pages, participants, conversations, putters, heads and comments, payloads,
releases, password files, documents and batches, deployments and stamps.

The argument. A step of the platform is a step of the component in focus and leaves the
others alone (`ComponentSteps`), so each proof is one about its component: an invariant of
its state, whichever component is in focus, and the property from it. What the invariants
add to the properties is who is where: that once a put was answered those under way are
the overtaken ones, and only they take the metadata away (`PutsAgree`), which file holds the password that a rotation has not yet written
everywhere, which conversations a purge has selected and not reached, that the payload's
rows are whole once its key is there. `ProposalsStayTraceable` needs what
`evidence_by_fragment` holds in the end (`EvidenceAccounts`): a fold over sequences, shown
with the smallest set of positions for which it would be wrong, and that claims with the
same keys have the same references, because a bound reference quotes what it cites
(`SameKeysSameReferences`); equal reproducibility hashes then mean equal evidence.
`AuthorityStaysBounded` counts: `gone` is 0 while the session resolves, only such a session
is asserted, and one that is gone does not come back, so an assertion's `iat` plus `gone` is
at most the clock and the signer's lead (`AuthorityInv`). The API's own limit on the
lifetime then bounds `gone` at the moment of verification (`VerifiedIsRecent`). A settlement
needs a token whose reservation is its own. `PaidPlanStays` counts too: the row is ahead of
Stripe's clock by one event of the test route at most until TEAM was activated (`NotAhead`),
and the event that waits is not earlier than a completed checkout (`Waits`).

Assumptions, each next to the constants it is about: `CohortAssumption`,
`ConversationsAssumption` (finite sets, natural numbers),
`RenewalAssumption` (windows expiries and the frozen day are numbers of days), `PagesAssumption` (what a
TED page consists of), `BatchesAssumption` (what the schema of a proposal consists of),
`DeploymentsAssumption` (a plan has a price or none, a key is of the sandbox, of the live
mode or missing) and `TimesAssumption` (times are integers).

`DecisionProofs` proves `ProcurementStaysSound` (`ProcurementHolds`): for every set of
documents, any number of notices of one lifecycle and of batches, in whatever order the
notices are handed over, and however commits fail, are replayed, or fall between changes of
the source's readiness. It is about sequences of unbounded length, in five parts:

- `OrderIsImmaterial` (`OrderDoesNotMatter`). The place of a notice is the number of notices
  before it. Where the order is total, these places are a bijection (`PlacesAreTakenOnce`),
  so swapping two arguments changes what is computed nowhere; where two notices carry the
  same reference, lineage refuses both orders alike (`RepeatedIsRefused`).
- `StoreIsWhole`: a batch is in the store with all its events or with none of them, by
  induction over commits, replays and the failpoint.
- `DossierIsSound`: a competition notice follows the newest competition notice before it,
  which is no cancellation (`LineageIsAChain`, `ChainIsSound`), and an award names its
  winners (`AwardsAreNamed`). The claims of a timeline, their evidence and
  their decisions are concatenations that stay aligned position by position (`Flattening`
  says which element of which part stands where).
- `BatchesTell`: a stored batch of a lifecycle is about the claims of the notices in its key,
  which is what a replayed answer rests on.
- `AdmissionNeedsReadiness`: whatever is answered to be admissible comes from a source that is
  ready now, unless it repeats a decision on single notices.

The invariant is the conjunction of these with the notices' type (`NoticesInv`). Assumption:
`NoticesAssumption` (in a document the elements that may be repeated are sequences; the
notices' identifiers are distinct and have an order, as texts do).

Only model-checked:

- `EventuallySettled`: liveness, and the fairness it rests on, are outside the prover's
  reach.
- `VerdictNeverImproves`: it is about the ladders of `Kernels` and nothing else, and these
  have no constants, so TLC's enumeration of every kernel and every combination of the rungs
  is exhaustive for them.

## 5. Plan

In this order:

1. The trial concurrency governor (`123`) over the stages of `DocumentAdmission`: a run
   that leaves the counted states and returns to them.
2. Axent: the rotation of keys; the authority tables of `140` other than conversations.
3. `Billing` with events that only leave receipts, and the payment ledger as a history
   against which the selections are checked.

## 6. Not modelled

- The trial governor's count of active runs, Axent's key
  rotation and terminal purge, receipts without effect: see the plan.
- Verification of signatures and attestations (a credential is intact or not), the
  score of `identity_risk.py`, rate limits, the delivery of mails (an outcome).
- The gate and campaign scripts (`scripts/verify_*`): each reads a fixed set of files or
  drives one scripted sequence of calls and compares; they keep no state of their own.
- Telemetry, HTTP wiring and the settings classes' reading of the environment, except
  where a decision depends on it (`BillingRuntime`, `RequestAuthority`,
  `ProposalGateway`).
- The web and landing applications, the installation of the pilot's host, the content
  of backups, workflows other than the approval renewal: no state this code keeps.
- Row-level security and database roles are taken as given.
