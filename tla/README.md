# Specifications of the Stem Cogent platform

TLA+ models of the platform's back end, TLC configurations that check them on
small instances, and machine-checked proofs (TLAPS) of what holds for every
instance. The reference is the code; paths below are relative to the
repository, `app/` stands for `backend/app/`.

The platform turns public documents into advice. A scheduler creates
collection jobs, collectors archive what they fetch, a chain of queue-driven
tasks turns raw bytes into scored, embedded and synthesized *signals*, a
decision engine turns these into per-tenant briefs, and delivery tells users.
Around this sit accounts, billing, compliance and a product API.

## 1. Inventory

| Component (`PROJECT.json` name) | State it keeps | Operations | Hard behaviour | What makes it correct |
|---|---|---|---|---|
| Source scheduling (`app/workers/scheduler*.py`) | `pipeline.collection_jobs`, Redis keys per source and minute | per-minute tick: recovery loop, due loop, acquire, select, insert, publish, mark, release | two schedulers during a deployment, leases that lapse, crashes between insert, send and mark | one job per slot; no due slot passed over; no unsent job unrecoverable |
| Collection (`app/workers/tasks/collection.py`, `app/ingestion/`) | job status, S3 objects, `pipeline.raw_signals` | load, fetch, archive, persist, announce, mark failed | redelivery, two workers on one job, changing content, failure after commit | a completed job has archived evidence; no work dropped; persisted implies announced |
| Event transport (`celery_app.py`, `events.py`, SQS) | messages, receive counts, dead letters | send, receive, acknowledge late, retry, redrive | at-least-once delivery, no order | nothing acknowledged before it is done; nothing goes round for ever |
| Source discovery rotation (`app/ingestion/discovery.py`) | none (function of the time) | slices of registry and taxonomy for a scheduled time, terms within a length limit | off-by-one, lists shorter than the slice, terms that do not fit | every term and every entity comes up |
| HTTP fetcher (`app/ingestion/http.py`) | none | fetch | network failures | every failure is one of the classes collection handles |
| Validation (`tasks/validation.py`) | `validation_status` | check archived bytes, write status, announce | redelivery | every raw signal gets a verdict that somebody sees |
| Normalization (`tasks/normalization.py`) | `pipeline.signals`, entity links | advisory lock, find or insert each document, announce all | two deliveries at once; failure half-way through the events | one row per document; every document announced |
| Classification (`tasks/classification.py`) | stage, classification, review flag | classify, flag, announce | late redelivery sets the stage back; taxonomy changes | unmatched stops at review, the rest goes on |
| Scoring (`tasks/scoring.py`, `app/intelligence/scoring/`) | scores, stage | score, band, announce | crash between commit and send; rounding, steps of age, one score inside the other | idempotent consumption; scores within their columns and monotone in their components |
| Embedding and clusters (`tasks/embedding.py`) | embeddings, duplicates, clusters | embed, find duplicates, join or open a cluster, announce | lock on the signal's own id only, stale cluster counts | acyclic canonical links, counts that match members |
| Synthesis (`tasks/synthesis.py`) | `intelligence.global_outputs` | call the model, store output or fallback, announce | model failure, overwrite on redelivery | an output for every signal that gets there |
| Decision engine (`app/decision/`) | per-process rule cache | assess relevance, match rules, personal priority | rounding, band edges, two rule versions at once | monotone in the company's context; a required decision ranks HIGH |
| Decision briefs (`tasks/decision.py`) | assessments, briefs | per-tenant loop, commit each, announce at the end | one tenant fails; context version changes in between; what the session's role sees before a tenant is set | every company and lens an output is meant for is briefed |
| Delivery (`tasks/delivery.py`) | alerts, digests, delivery log | upsert, merge digest, commit, notify | two deliveries for one user and day; rows locked in no order | no brief lost from a digest; what is announced is delivered |
| Product API (`api/v1/product.py`) | brief status, alerts, feedback, the guided pilot | read, act, start a pilot, count events, complete checkpoints | two starts at once, the pilot script beside the endpoint | nothing a reader did is undone; one engagement dates all checkpoints |
| Company context and lenses (`api/v1/context.py`, `app/context/`) | profile, objects, lenses, focus areas, their copies in Redis | edit, read aside, delete the copies | a reader that fills the cache after an edit; a lost deletion; consent that changes under way | an edit rests on consent; a stale copy has a cause |
| Search and realtime | none / Redis pub-sub | query, relay | lossy relay | database remains the truth |
| Conversational intelligence (`app/cil/`) | conversation rows | retrieve, answer | provider failure | answers cite what was retrieved |
| Accounts, sessions, SSO (`api/v1/auth_sessions.py`, `sso.py`, `app/authn/`) | users, identities, sessions, limiter keys | register, log in, refresh, log out, SSO callback, provision a pilot | registration, callback and script race on one e-mail; a refresh in flight when its session ends | an e-mail and a provider's subject lead to one user; what is over stays over |
| Checkout and subscriptions (`api/v1/billing.py`) | intents, subscriptions, webhook ledger | initialize, verify, webhook, activate | two quotes for one key, payment learned of twice, events repeated and out of order, lost requests | the first quote binds; a checkout is granted once while its quote is good, and its payment invoiced; access ends with what was paid |
| Entitlement gates (`app/billing/gates.py`) | none | read subscription | stale read | no access without entitlement |
| Compliance (`api/v1/compliance.py`) | consent ledger, the user's consent columns, audit trail | accept a release, under an idempotency key | keys repeated with other versions; two releases served during a rollout | columns state what their entry does; each entry audited once |
| Review cases (`api/v1/reviews.py`) | case status, resolver, audit trail | submit, take into review, resolve, reject | two reviewers | one final decision |
| Core runtime, operations scripts, frontend, infrastructure, migrations and seeds | configuration, schema | wiring | – | – |

Interactions: the scheduler and the collectors share `collection_jobs` and
the ingestion queue; every later task is started by one SQS message, works on
rows of Postgres in one transaction and sends the next message *after* the
commit. There is no outbox: a crash between commit and send leaves the data
ahead of the events, and redelivery of the old message is what heals it (or,
for scoring, does not: see Findings). Delivery, search and the product API only
meet the pipeline in tables. The endpoints of a workspace meet one another in
tables, too: a request is authorized by what `get_request_context` read when
it began, and commits on what the rows are by then.

`PROJECT.json` lists every component with its status, and under `hazards` the
lines where the code is hard to test, with the properties that watch them.

## 2. Modules

| Module | Models | Extends / instantiates |
|---|---|---|
| `IngestionStore` | what schedulers and collectors share: jobs, active sources, the ingestion queue, the fault budget | |
| `SourceScheduler` | `SourceScheduler.run_once` and the per-minute service loop, one action per round trip | `IngestionStore` |
| `Collector` | `collect_source` on a pool of workers, and the queue's side of it | `IngestionStore` |
| `CollectionLedger` | abstract: five ledgers that only grow, each backed by the one before | |
| `Ingestion` | composition, fairness, properties, inductive invariant, refinement of `CollectionLedger` | `SourceScheduler`, `Collector` |
| `IngestionProofs` | theorems about `Ingestion` | `Ingestion`, `TLAPS` |
| `EventQueue` | one task worker and the queue, whatever the task: receive, load, commit, publish, settle; retries, redelivery, redrive | |
| `SignalPipeline` | the six tasks from validation to synthesis over their tables | instantiates `EventQueue` |
| `SignalJourney` | abstract: a signal's data are completed one milestone after another, events follow data | |
| `Checkout` | `billing.py`: checkout request, browser return, webhook, activation, subscription events; the part of `provision_pilot.py` and `auth.py` that touches subscriptions | |
| `Sale` | abstract: one price, asked of the provider as quoted, invoiced when charged as asked | |
| `CheckoutProofs` | theorems about `Checkout` | `Checkout`, `TLAPS` |
| `DecisionBriefs` | `create_decision_briefs`, `handle_decision_brief_ready`, and what companies and users do meanwhile | instantiates `EventQueue` |
| `Briefing` | abstract: what is stored is announced, what is announced is delivered, in alerts and digest at once; nothing is undone | |
| `SignalPipelineProofs` | theorems about `SignalPipeline` | `SignalPipeline`, `TLAPS` |
| `DecisionBriefsProofs` | theorems about `DecisionBriefs` | `DecisionBriefs`, `TLAPS` |
| `WorkspaceApi` | what a workspace's endpoints share: requests in progress, sessions, access tokens, faults | |
| `Accounts` | `register`, `login`, `refresh`, `logout`, the SSO callback, and the user `provision_pilot` upserts | `WorkspaceApi` |
| `Consent` | `accept_compliance_documents`, the gate on edits, the rollout of a release | `WorkspaceApi` |
| `CompanyContext` | edits and cached reads of profile, objects, lens and focus areas | `Consent` |
| `Desk` | review cases; the pilot with its checkpoints and events | `WorkspaceApi` |
| `Workspace` | composition, properties | `Accounts`, `CompanyContext`, `Desk` |
| `WorkspaceProofs` | theorems about `Workspace` | `Workspace`, `TLAPS` |
| `Scoring`, `ScoringProofs` | the arithmetic of `run_scoring`; theorems | |
| `DecisionEngine`, `DecisionEngineProofs` | `assess_relevance`, the matching of rules, `calculate_personal_priority`; theorems | |
| `DiscoveryRotation`, `RotationProofs` | the terms a discovery query asks for; theorems | |
| `MCIngestion`, `MCSignalPipeline`, `MCDecisionBriefs`, `MCWorkspace` | constants and symmetry for TLC; the examples of the unit tests | |

### State and actions against the code

*Ingestion.* A **slot** is a source and a minute (`collection_job_id` and the
Redis key are functions of both). `jobs` holds the status of up to `MaxRows`
rows per slot: the table has no unique key on the slot, so that a second row
is possible is part of the model and that there is none is a property. A row's
number is the order of `created_at`, which is the start of the inserting
transaction: a later insert may be the older row, and `SelectFinds` takes
the newest. `Acquire`/`SkipHeld` is `SET NX EX 55`, `Release` the
compare-and-delete script, `Orphan` a key whose holder is gone, `Expire` its
time to live. `CallFails`/`Unwind` is an exception inside the lock,
`UnlockedCallFails` one outside it or in the release itself,
`CrashScheduler` the loss of the process (also what `serve` does after five
failed ticks). In the last minute of an instance ticks go on: it stands for
all later minutes.

`Receive`, `Settle` and `DeadLetter` are Celery on SQS with `task_acks_late`,
`task_acks_on_failure_or_timeout = False` and `autoretry_for = (ConnectionError,
TimeoutError)`; a message being processed may reappear (`VisibilityMayLapse`).
`LoadJob` writes RUNNING whatever the status was, `Archive` is
`put_object(IfNoneMatch="*")`, `LookupRaw` and `Persist` are the SELECT and the
committed INSERT plus COMPLETED of `persist_archived`, `Announce` the event,
`MarkFailed` and `MarkFailedLost` the two outcomes of `mark_failed`, and `SetupFails`
an exception before `collect`, which never reaches it. The five collectors differ in
the request they send; a fetch is a choice of content or of a failure.

*Signal pipeline.* Every task is `Load` or `Refused` (the first `.one()`),
a transaction, `Announce` for each event and `Settle`. Normalization is two
steps, because its SELECTs run under an advisory lock and others may commit in
between: `LockRaw` (lock and reads) and `Normalize` (inserts, commit, which
ends the transaction and frees the lock). The order in which one task's
events leave is kept where the code fixes it (`ComesFirst`). A validator's or
synthesizer's result is a choice; `Verdicts` gives the results a
classification may have, more than one when the taxonomy changes between
deliveries. Review queues and the decision engine are outside: their events
leave the module.

*Checkout.* One workspace; a key is an idempotency key and so a provider
reference. `handler` holds what each request is about to do: `Request` is the
SELECT of `initialize_checkout` with the early returns (those that change
nothing are no steps), `Expire`, `Reopen`, `Insert`, `Fail`, `Initialize` its
statements each with its commit, `Ask` the call to Paystack; `Return` and
`Verify` are `verify_checkout`; `Deliver` is the webhook up to its
`INSERT … ON CONFLICT`, `Lock` the `SELECT … FOR UPDATE` of
`_activate_checkout`, and `Settled`, `Mismatch` and `Activate` what follows it
up to the commit. A row lock is held from `Lock` to that commit (`Free`), and an
event's uncommitted ledger row makes a second delivery wait. `Apply` is
`apply_provider_subscription_state`; where a unique index would be violated
(`CodeIsTaken`, `TwoLive`) the transaction is rolled back and Paystack
repeats the event. `Pay`, `EndSubscription` and the repetition of events are
Paystack's side, modelled from what the code expects of it: it takes a reference once,
and repeats an event until it gets an answer with success. `BillingStatus`
is the CASE of `get_request_context`; `Lapse` and `PeriodEnds` are the clock.

*Decision briefs.* A **brief** is its unique keys: output, tenant, version of the
profile, reader (or the company) and version of the reader's lens. `progress` is
what a task holds in memory. `BeginRun` is the query for the tenants, then
each tenant is one transaction in two steps, since others may commit between
its reads: `LoadPackage` (the profile's version, or no profile and on to the
next tenant) and `Assess` (lenses, upserts, commit). `EndRun` and `Announce` are
the events after the loop. `BeginDelivery` reads the recipients in an order
nothing fixes, `WriteRow` is the three upserts of one of them, under the row
locks `HoldsUp` describes, `CommitDelivery` the commit that shows them,
`Notify` the Redis messages, `BreakDeadlock` PostgreSQL's way out of a circle.
`EditProfile`, `EditLens`, `EditPreferences`, `Act` and `Read` are the requests of
`context.py` and `product.py`; with `Midnight` they draw on a budget of
**moves** as faults do on theirs. `Shielded` says whether the role that
`get_session` takes is subject to row-level security; it is with the repository's own
setting and migration (see Findings).

*Workspace.* `request` holds what each handler is doing: a record whose `at`
names the step that comes next, with what the request has read so far. `Begin…`
is the request up to its first statement that depends on others (the
principal, and for a registration the test for an identity); the action
named after the operation is its transaction, with `…Refused` for the
constraint or condition that fails by then. A request that changes nothing
(a wrong password, a cache hit) is no step. `Create` commits tenant, user,
identity and session at once, and `IsTaken` is the unique indexes the second
INSERT meets; `Link` is the conditional UPDATE of the callback. `Accept` is the
ledger's `INSERT … ON CONFLICT` with the columns and the audit event, which
follow it in one transaction. `ReadPart` is one SELECT of a cached read,
`StoreCopy` its `SET`, `CommitEdit` and `Invalidate` an edit and the deletion
after it, `CopyLapses` the time to live. `Submit`, `Resolve`, `Start`,
`RecordEvent` and `CompleteCheckpoint` are the statements of `reviews.py` and
of the pilot in `product.py`; `Provision` is `provision_pilot`, which crosses
accounts and desk. `visits` is a budget of requests for each part of the
API, so that each can race with itself to some depth, and all of them a little.

*Pure algorithms.* `Scoring` counts components in millionths and scores in
thousandths, as the code's decimals end up; `Quantized` is `ROUND_HALF_UP`.
`DecisionEngine` keeps of a text or tag whether it is there. `DiscoveryRotation`
knows terms by their lengths, and states the greedy selection as what is left
after each term (`IsSelection`). The MC modules evaluate the examples of the
unit tests on them (`ScoringExamples`, `AssessmentExamples`,
`DiscoveryExamples`), so that the definitions the theorems are about
agree with the code where its authors fixed a number.

All models have one counter of **faults** (crashes, exceptions, and in the
pipeline also early reappearance of a message and repeated collection events),
so every run states how much may go wrong; faults happen at any step.

### Assumptions of the models

- A validator comes to the same status at each delivery (a function of the archived
  bytes and the source's profile, which nothing reseeds meanwhile).
- The entity registry does not change (`Unresolved` is fixed). A document is
  `Unscorable`, if its date is ahead of the clock or its taxonomy entry retired:
  scoring may then refuse its event any number of times, or find that the clock has
  caught up.
- `Retire` is the only change of the source registry; reactivation by a reseed,
  recovery's `LIMIT 100`, the redrive by hand in the DLQ runbook, message retention
  and prefetching are left out.
- The versions of classifications and scores, duplicates and clusters of
  `embed_signal` are left out.
- Statements that follow the first commit of a session (`billing.py:270`, `281`,
  `322`) reach their row: `SET LOCAL ROLE` and the tenant setting end with that
  commit, and what row-level security then shows depends on a role configured outside
  the repository.
- No checkout is left from before the columns of the quote: `Reopen` does not quote
  anew for a row whose quote is NULL (`billing.py:178-191`).
- The pilot's user is one that nobody else's sign-up made: `provision_pilot` upserts
  on tenant and e-mail and writes `password_hash` (`app/authn/provision_pilot.py:94`),
  so run with a member's e-mail and workspace it would give that member a new
  password. A password is membership of a set in `Accounts`; which one it is, the
  model does not tell.
- A Paystack subscription code belongs to one checkout.
- The status of tenants and users does not change while an output is briefed, and the
  roles that own a brief's decision (`OwnerRoles`) are fixed by its key: its rules,
  profile and output. A user's own role is edited with the lens; company objects and
  focus areas, which bump no version, change a brief's wording only.
- The attempt limiter may refuse any attempt, and does no more. Hashes, tokens and
  signatures are right. `last_login_at`, invitations and the fields of an edit are
  left out; nothing deactivates a user or a tenant.
- A principal is judged as `get_request_context` read him: an edit in flight may
  commit under an acceptance that a rollout has made stale meanwhile.
- Copies of one message beyond `MaxCopies` are not told apart: they carry the same
  event id and do the same.

## 3. Runs

| Run (cfg) | Question | Instance |
|---|---|---|
| `IngestionDispatch` | does the Redis lock alone keep a slot to one job, is every unsent job recoverable, and does a faultless tick cover all due slots? | 2 schedulers, 1 worker, room for 2 rows, 2 faults; leases outlive their holders' work |
| `IngestionEvidence` | does COMPLETED imply evidence, is no work dropped, and is `CollectionLedger` implemented? | 1 scheduler, 2 workers, 2 contents, 2 receives, 1 retry, 1 fault; leases and visibility may lapse |
| `IngestionLive` | is recorded work dispatched, does the queue drain, is committed evidence announced? | 1 scheduler, 1 worker, 2 receives, 1 retry, 2 faults, fairness |
| `IngestionFailure` | (violated) does a recorded failure stay recorded? | 1 scheduler, 1 worker, no faults |
| `PipelineRaces` | is no document stored twice, nothing stranded, and `SignalJourney` implemented? | 1 unresolved document with any verdict at each delivery, 2 workers, 2 faults, 2 receives, 1 retry |
| `PipelineLive` | does every raw signal and every normalized signal come to an end somebody can see? | 2 documents, any verdict for the first, 1 worker, 1 fault, 2 receives, 1 retry, fairness |
| `PipelineRedelivery` | (violated) is finished work never dead-lettered? | 1 document, 1 worker, 1 fault, 3 receives |
| `CheckoutRaces` | does the first quote bind, is a checkout granted once while its quote is good, and its payment always invoiced? | 1 key, 2 plans, 2 amounts, 2 handlers, 2 faults, fairness |
| `CheckoutAccess` | (violated) does paid access end with the paid month? | 1 key, 1 handler, no faults |
| `DecisionBriefs` | are all companies and lenses an output is meant for briefed, is what readers did kept, is `Briefing` implemented, is what is announced delivered? | a public output and a private one, 2 tenants (one gets its profile by an edit), 2 users, 2 workers, 1 fault, 1 move, 2 receives, no row-level security, fairness |
| `BriefsPublic` | (violated) is a public output briefed under the configured role? | 1 output, 1 worker, no faults, no moves |
| `Workspace` | are accounts reachable and kept, does consent rest on evidence and edits on consent, is a stale copy explained, is a case decided once and a pilot dated once? | a user who is there, one to come and the pilot's, 2 handlers, 3 sessions, 2 subjects, 2 keys, 2 releases, 1 case, 2 instants, 1 fault, up to 6 requests |

What the properties say, and why they could fail:

- `OneJobPerSlot`: `SELECT … FOR UPDATE` locks nothing when there is no row;
  only the lock protects the insert. It is stated for leases that do not lapse
  (`LeaseMayLapse = FALSE`): nothing in the code renews the key.
- `UnsentIsRecoverable`: recovery looks for ENQUEUED only. A job may get any
  other status only after its event was sent.
- `TickCoversDue`: no due slot of the tick's own minute is lost when the tick
  runs late or another scheduler holds keys. Faulty ticks are excluded: an
  exception ends a tick by design.
- `CompletedHasEvidence`, `NoWorkDropped`, `KeepsLedger`: against two workers
  on one message, content that changes between fetches, failures after any step.
- `OneSignalPerDocument`, `NothingStranded`, `KeepsJourney`: the advisory
  lock, late acknowledgement, and the order "commit, then announce".
- `OneGrantPerQuote`: the webhook and the returning browser both pass the
  test for SUCCEEDED unless the row is locked when it is read; and no request for
  the key may take SUCCEEDED back before the other has seen it. It says of a good quote
  that a handler about to grant finds no invoice, and of any quote only that it finds the
  row unsettled. Once the quote's hour is over a payment may be granted twice (see
  Findings).
- `ImplementsSale`: two first requests quote two rates, a failed one is retried
  later, a payment may differ from what was asked; the invoice still states
  the first quote and is written only for a charge of it.
- `PlanIsPaidFor`: requests for another plan, endings that arrive late, and
  the upsert that reuses a row never leave a paid plan without its invoice.
- `PaidIsInvoiced`: no crash, lost answer or repeated event swallows a payment.
- `DueBriefed`: the last message of an output may go only when the company and every
  lens it is meant for were announced some version of a brief. A run may die
  after any tenant's commit, overlap with another, or find rows of an earlier one.
- `KeepsMemory`: both upserts meet rows that readers have changed meanwhile.
- `KeepsBriefing`: two deliveries for one user and day write one digest; alerts
  and digests stay in step, and nobody is told what is addressed to another.
- `AnnouncedIsDelivered`: deliveries overlap, deadlock on rows locked in
  opposite orders, and are repeated; unless users switch alerts off, all that is
  announced is in their alerts or its message in the dead letters.
- `AccountsAreReachable`, `KeepsAccounts`: registration and callback look for the
  e-mail first and insert later, the pilot script inserts on its own and lets an
  identity be; only the unique indexes and the condition on the link keep a
  racing sign-up from taking an account over or leaving one unreachable.
- `OverStaysOver`: a refresh answers from what it read without a lock, so that a
  token may be issued after the logout; the property says that this is all: when the
  last token and the last refresh in flight are gone, access never comes back.
- `ConsentIsEvidenced`: columns and ledger are two places for one fact; keys are
  repeated, with the same versions or, after a rollout, with others.
- `EditRestsOnConsent`: gate and commit are two steps, and the release that
  serves a request may be neither the newest nor the one accepted last.
- `StaleIsExplained`: without faults a copy lacks an edit only for as long as the edit
  has not deleted it yet, or because its reader was overtaken. The company's copy is made
  of two SELECTs with an edit possible between them. That every copy ends is
  Redis's time to live (`CopyLapses`), whatever readers and editors do: no property.
- `DecisionIsFinal`: two reviewers, an `IN_REVIEW` in between, and a submission
  that comes again; the audit trail has the one verdict that holds.
- `CheckpointsFitEngagement`: endpoint and script start the pilot at two
  instants; an engagement of one start must not get checkpoints of the other.
- `RecordedIsDispatched`, `QueueDrains`, `PersistedIsAnnounced`,
  `CollectedConcludes`, `NormalizedConcludes`: the same hazards, as promises
  that something happens. Their escape clauses are the ends the code really
  has: dead letters, review, a retired source, a job marked FAILED (or, with a
  second fault, whose FAILED was lost).

Each has a mutant (marked `Mutant` in the modules): the code's definition
with a plausible bug, which the run must refute.

**Bounds.** The races are between two processes, so two schedulers or workers show
them, and a third adds no new pair. One source and one due minute are enough, since
slots share only the registry's active flags; the second minute exists so that
recovery runs after the tick that failed. `MaxRows = 2` is what a duplicate needs, two
contents are what a changed document needs, two receives and one retry reach
redelivery, retry, their combination and the dead letters. Two faults reach a fault
and a second one in its recovery. `PipelineRaces` has one document, since documents
share only their raw signal's lock; the fan-out to two documents, and a fault in the
middle of it, is in `PipelineLive`. One key is enough in `Checkout`: keys share the
workspace's subscription only, and a second live subscription beside a cancelled one
also comes from `Provision`. Two handlers are a request or browser beside another or
beside the webhook. Two faults allow a failed call and then a crash. `DecisionBriefs`
has the users and workers a deadlock takes, and the tenants the loop takes; no role
owns a decision, since two company briefs must go to the same two users for deliveries
to block one another (an instance where the first profile's briefs belong to a role
that one user has and the other may take was explored once, with the same outcome; the
theorems assume nothing of owner roles); the fault is a lost worker between two
tenants, or the lapse that makes two deliveries overlap, and the move an edit between
two transactions. Its safety properties were also explored once with two faults on one
output. What two faults and an edit can do beyond that is a hazard in `PROJECT.json`:
of two overlapping runs the one with the newer versions is lost after its commit, and
its briefs are never announced. `Workspace` gives each part of the API five or six
requests (`MCAllotments`): a race of two requests, the edit or rollout that meets
them, and what shows the outcome. The parts share sessions, handlers and faults, hence
one allotment across accounts and desk, where the pilot script acts on both. The
theorems cover the same properties for every number of requests. Symmetry over
schedulers, workers and contents is used in safety runs only.

**Deadlock** is checked in ingestion, where ticks never end. The pipeline's
runs have a fixed number of raw signals and the system comes to rest when they
are done, so deadlock is not an error there; nor is it in the checkout and in decision
briefs, which rest when all is settled, and in the workspace, which rests when its
requests are spent.

**Fairness.** `FairSpec` of `Ingestion`: each scheduler's and worker's own steps are
weakly fair (a running process goes on; a lost one is replaced, as ECS does), a job's
visible message is received in the end (strong fairness: workers come and go, SQS
keeps offering it), orphaned keys expire, the minute passes. `FairSpec` of
`SignalPipeline` and of `DecisionBriefs`: tasks weakly fair, each queue strongly fair
(every queue is polled and a message in it may be hidden again and again), redrive
weakly fair. `FairSpec` of `Checkout`: a handler's steps are weakly fair (requests are
served to their end, PostgreSQL queues the waiters of a lock), and each event Paystack
still repeats finds a handler in the end (strong fairness: the server takes any number
of requests, the model's pool is small). `Workspace` states no fairness: it promises
nothing that must happen. Customers never have to pay or return, nobody has to ask for
anything. Faults, refusals, retirements and new raw signals are never fair.

## 4. Findings

1. `IngestionFailure`: `mark_dispatched` (line 233) tests nothing. A collector
   that refuses the source between the send and this update has its FAILED
   overwritten; the message is acknowledged and the job says DISPATCHED for
   good. `docs/runbooks/ingestion-dlq-recovery.md` says such failures
   are recorded as FAILED.
2. `PipelineRedelivery`: `score_signal` asks for stage CLASSIFIED and leaves
   SCORED. A crash after that commit and before the event makes each
   redelivery fail with `NoResultFound` until the message is dead-lettered, and
   the signal is never embedded. `SC-DOC-004` line 483 says consumers are
   idempotent.
3. `CheckoutAccess`: activation sets `auth.tenants.status` to ACTIVE and nothing
   takes it back. When the provider subscription is disabled, its row is
   CANCELLED and no longer joined, and `get_request_context` falls back to the tenant's
   ACTIVE (`app/api/auth.py:92`): access has no end, where the pilot runbook
   (line 33) says that paid access lasts one month.
4. `BriefsPublic`: for a public output `_applicable_tenants`
   (`app/workers/tasks/decision.py:119`) reads tenants and company profiles before
   a tenant is set. The session's role is `sc_app_runtime`
   (`app/core/database.py:95`, the Terraform settings), which migration 0017
   creates without BYPASSRLS while it forces row-level security on both
   tables: no row is visible, the task ends as `CREATED:0` and its message is acknowledged.
   `SC-DOC-002` line 222 asks for a brief for each eligible tenant. Private outputs,
   whose tenant comes with the event, are briefed. `DecisionBriefs` shows that the
   rest of the task does what it should once the tenants are found.

A payment granted twice: the UPDATE to EXPIRED (`app/api/v1/billing.py:139`) asks for
no status. A request reads a FAILED checkout; another reopens it, the customer pays,
and the browser's return settles it; the first request, which finds the quote's hour
over, writes EXPIRED over SUCCEEDED. The webhook of the same payment, or the next
return of the browser, then finds the checkout unsettled and grants another month for
it; the invoice stays one. The pilot runbook (line 33) says that each renewal
deliberately starts a new checkout. TLC finds this behaviour with two handlers and one
fault once `Key(h) \notin lapsed` is dropped from `OneGrantPerQuote`. It is kept as a
hazard, and has no run of its own.

Also seen, without a document that promises otherwise: a request lost in PENDING
blocks its key.
`should_publish` is `status != "DISPATCHED"` (`app/workers/scheduler.py:225`): a
fast collector moves the job on to RUNNING, COMPLETED or FAILED before a second
scheduler reads, which then publishes it again, though the comment at line 268 speaks
of a read under the lock that prevents this. A collector repeats nothing for
such an event, so no property suffers.
Kept as a hazard without a run: `provision`, run again after a cancellation,
starts another trial (`app/authn/provision_pilot.py:119`), where the pilot runbook
(line 29) says that re-running does not extend it. The module has the action
and could carry the run.

Smaller observations, all visible in the models:

- `UpperBandsUnreached` (proved) says that with the repository's own seed and
  workers no signal is of HIGH_CONFIDENCE and none of HIGH or CRITICAL
  urgency: `corroboration_count` is never written, no worker sets a flag
  of confirmation, `deadline_proximity` is always 0 (`tasks/scoring.py:50`).
  `SC-DOC-004` line 235 says that corroborating reports strengthen confidence, and
  `docs/intelligence/signal_taxonomy.md` §5.3 gives a rail outage an urgency of 0.96.
- `SC-DOC-005` lines 215-226 add a term for the presence of a focus area, which
  `assess_relevance` lacks.
- Delivery does not look at a user's urgency and minimum relevance
  (`SC-DOC-004` line 385), and the preferences know a band MEDIUM where stored
  bands are MODERATE or STANDARD.
- `GET /me` reports a legal acceptance as current when there is any ledger id
  (`api/v1/auth_sessions.py:345`); the gate on edits also compares the versions.
- A pilot's user whose e-mail leads to somebody already is not found by the e-mail alone,
  only with the workspace's identifier; `AccountsAreReachable` has the exception.
- A review submission that comes again is audited again; an edit of objects does not
  bump the company's version; a query's length limit may drop the terms that come last.

## 5. Proofs

`IngestionProofs` proves, for any number of sources, minutes, rows,
schedulers, workers, contents, receives, retries and faults, under
`StoreAssumption`, `SchedulerAssumption` and `CollectorAssumption` only:

| Theorem | Statement |
|---|---|
| `Invariance` | `Spec => []IInv` |
| `TypeCorrectness` | `Spec => []TypeOK` |
| `AtMostOneJob` | `Spec => []OneJobPerSlot` |
| `RecoveryMissesNothing` | `Spec => []UnsentIsRecoverable` |
| `EvidenceOfCompletion` | `Spec => []CompletedHasEvidence` |
| `ImplementsLedger` | `Spec => KeepsLedger` (refinement) |
| `NoWorkIsDropped` | `Spec => NoWorkDropped` |
| `TicksKnow` | `Spec => []TickKnows` |
| `DueIsCovered` | `Spec => TickCoversDue` |

None of the properties is inductive: each depends on what a process
remembers between two round trips. `IInv` adds exactly that. `SchedulerKnows`:
the job a scheduler is about to publish or mark exists, and one about to be
marked was published. `LockHeld`: whoever is in the critical section holds the key, so a
slot found empty is still empty at the insert. `MessagesBacked`: messages and
working workers belong to published jobs, and published jobs have rows.
`CollectorKnows`: a worker past the archive has its bytes in S3, one about to announce has
its row, one about to acknowledge has announced or gave up empty-handed.
`EvidenceBacked`: rows have their bytes, and announced rows exist. The proof has one
lemma per actor and conjunct, one step per action, and the temporal theorems
combine them by PTL. `ImplementsLedger` maps initial state to initial state
and each action to one ledger entry or a stutter. `NoWorkIsDropped` rests on
`CollectorKnows`: only an acknowledgement or a redrive removes a last message.

`TickCoversDue` speaks of all slots a tick has visited, which no variable
remembers. `TickKnows` stands for that history: without faults, a key that is held
stands for a slot recorded or about to be, and so whatever the due loop no
longer has before it is covered, visited or passed over. A lease that lapses under
its holder does no harm here, for its holder still inserts; so `DueIsCovered` needs no
assumption on leases. A fault does: a scheduler that crashes between lock and
insert leaves a key without a job, and the slot is lost to that minute.

`CheckoutProofs` proves, for any number of keys, plans, amounts, handlers and
faults, under `CheckoutAssumption` only:

| Theorem | Statement |
|---|---|
| `Invariance` | `Spec => []IInv` |
| `TypeCorrectness` | `Spec => []TypeOK`, the unique indexes' promises included |
| `GrantedOncePerQuote` | `Spec => []OneGrantPerQuote` |
| `PaidPlansRestOnInvoices` | `Spec => []PlanIsPaidFor` |
| `ImplementsTheSale` | `Spec => ImplementsSale` (refinement) |
| `PaymentsAreAccountedFor` | `Spec => []PaymentsAccountedFor` |

Here `IInv` adds what a handler may rely on after it gave up the row or its
transaction. `Knows`: the row it is to update is there, the amount it is to ask
for is the row's, the checkout it is to grant is unsettled and charged with the
row's amount. `LockExclusive`: no two handlers are past the `FOR UPDATE` of one row,
which is why an update by another leaves `Knows` alone. `RowsAgree`: what was
asked, charged and invoiced for a key is its row's amount. `PlanRests` extends
`PlanIsPaidFor` to cancelled rows, which a late event may bring back.
`FreshInv` is for `OneGrantPerQuote`: while a quote is good no request has reached the
UPDATE to EXPIRED, the row is not EXPIRED, one handler at most asks Paystack for it
and then it is PENDING, and a row with a URL or an invoice is past every request. So
nothing is left that could take SUCCEEDED back, and the invoice of a good quote means a
settled row, which a handler past the lock has not found.
`OthersKnow` is the heart of the proof: a step that takes nothing back (`Keeps`) and
no lock from its holder disturbs no other handler. The refinement maps `Insert`
to a quote, `Ask` to a collection, `Pay` to a charge, `Activate` to an invoice, or
to a stutter where the row, reference or invoice is there already.

`PaymentsAccountedFor` is the safety half of `PaidIsInvoiced`: money taken at the
amount asked is invoiced, or Paystack still repeats its event, since only an answer of
success ends the repetition. That is not inductive: the webhook answers several round
trips after it read the event's status or the row's. `BookInv` adds what it may rely
on then. `Booked`: an event recorded PROCESSED and a checkout SUCCEEDED have their
invoice, an event recorded FAILED was charged another amount. `Deals`: a handler about
to answer that the checkout is settled, or that the amounts differ, is right. A lemma
for each action of a handler carries it; `OthersDeal` covers the other handlers.

`SignalPipelineProofs` proves, for any number of raw signals, documents, verdicts,
workers, copies, receives, retries and faults, under `PipelineAssumption` only:

| Theorem | Statement |
|---|---|
| `Invariance` | `Spec => []IInv` |
| `TypeCorrectness` | `Spec => []TypeOK` |
| `OneRowPerDocument` | `Spec => []OneSignalPerDocument` |
| `NothingIsStranded` | `Spec => NothingStranded` |
| `SentAreAccountedFor` | `Spec => []SentIsAccountedFor` |
| `NothingIsForgotten` | `Spec => []NothingForgotten` |
| `JourneyIsKept` | `Spec => KeepsJourney` (refinement) |

Here `IInv` adds what tasks know between reading, committing and announcing.
`QueueInv`: messages and working workers belong to announced events.
`EventsBacked`: what is announced, or about to be, is at or past its milestone, and
milestones never fall, although a stage may; so a worker that starts on an event finds the
row it expects. `DataOrder`: no data without a row. `Locks`: the one holder of
an advisory lock has found all rows there are, which makes its inserts the only ones.
`Promised`: a task past its commit will have handled its event once it has announced what
it still has to; so only a handled event is acknowledged. Every transaction is shown
to be one step of the journey (`Advances`), every announcement to be
backed (`Speaks`), and no step to lose the last message of an unhandled event
(`Conserves`).

Two theorems say where work is while the liveness properties wait for it.
`SentIsAccountedFor`: an event sent is handled, or a message of it is queued or
dead-lettered. It rests on `StepRemembers` (no step undoes what handled an event or
takes back a dead letter) and on `Conserves`. `NothingForgotten` follows the events of
one signal from task to task: it has come to a conclusion, or some event about it is
still in hand.

`DecisionBriefsProofs` proves, for any number of outputs, tenants, workers, copies,
receives, retries, faults and edits and any finite set of users, under
`BriefsAssumption` only:

| Theorem | Statement |
|---|---|
| `Invariance` | `Spec => []IInv` |
| `TypeCorrectness` | `Spec => []TypeOK` |
| `MemoryIsKept` | `Spec => KeepsMemory` |
| `DueAreBriefed` | `Spec => DueBriefed`, assuming `~Shielded` |
| `OutputsAreAccountedFor` | `Spec => []OutputsAccountedFor`, assuming `~Shielded` |
| `ReadersAreServed` | `Spec => ([](u \in Recipients(b)) => []Served(b, u))`, for every brief `b` and user `u` |
| `ReadersAreInformed` | `Spec => ([](\A b \in BriefsFor(o, t, r) : u \in Recipients(b)) => []Informed(u, o, t, r))`, for every `u` and every reader `r` an output `o` is due to, assuming `~Shielded` |
| `BriefingIsKept` | `Spec => KeepsBriefing` (refinement) |

`IInv` relates a run of tenant visits to what it has stored so far. `Knows`:
the briefs a worker is to announce are stored, and a delivery's rows and written
pairs are of its brief's addressees. `Owes`: each tenant an output is due to is
still to be visited, or all its readers have a brief that is stored, or the
announcement is done or to come. That survives an edit because profiles and lenses
only gain versions (`SettingsInv`), and a crash because the task then starts
over with nothing acknowledged. Under row-level security `Owes` fails at the
first step, which is the finding of `BriefsPublic`; hence the assumption of
`DueAreBriefed`. For the refinement every step is shown to store briefs, tell one,
hand one out, or stutter.

The last three follow an output to the reader. `Served(b, u)`: if brief `b` was
announced, `u` has an alert of it, or its event is in hand. A worker writes alerts
from a list of users it made earlier, so the proof carries `Serves`: a worker on such a
brief has `u` among the rows still to write or the pairs written, and one past its commit
has stored `u`'s alert. The code looks at preferences and roles when it delivers: who
mutes alerts, or edits the owner role out of the lens, between announcement and delivery
gets nothing later. Hence the premise that `u` stays among the recipients, which for a
user's own brief, or one no role owns, is `[](u \notin muted)`; TLC finds the
counterexample (an edit of the lens) if that alone is assumed of a brief with owner
roles. `Informed(u, o, t, r)` joins the two events of the path: from an announced output,
by way of the brief for `r`, to `u`'s alerts. Its premise speaks of all versions, because
the brief that is made rests on the profile and lens of the moment.

`WorkspaceProofs` proves, for any users, sessions, handlers, keys, releases,
cases and allotments, under the assumptions of its modules: `TypeOK`,
`AccountsAreReachable`, `KeepsAccounts`, `OverStaysOver`, `ConsentIsEvidenced`,
`EditRestsOnConsent`, `StaleIsExplained`, `DecisionIsFinal` and
`CheckpointsFitEngagement`. The invariant `Safe` has one part for each module:
`AccountsSafe` (who exists is reachable, links and owners are of users who
exist, a request that creates or refreshes works on what is there),
`ConsentSafe` (columns and ledger agree, an edit in flight has its evidence),
`CacheSafe` (a copy, or a reader's part of one, that misses an edit was
overtaken or is about to be deleted), `DeskSafe` (status, resolver and
trail of a case agree, checkpoints and engagement). `StepKept` is what the action
properties say of one step; each part is preserved by its own module's
actions and untouched by the others', so the proof is one lemma per action.

The theorems about pure algorithms hold for all inputs: `ScoringProofs` that
scores fit their columns (`ScoresFit`), that better components are never scored
lower and time never raises a score (`BetterIsNeverLower`), that high confidence takes
a second source (`HighTakesTwo`), and `UpperBandsUnreached`;
`DecisionEngineProofs` that a relevance lies between zero and one
(`RelevanceFits`), that a required decision ranks HIGH (`DecisionsRankHigh`), that
without one HIGH rests on the company's own objects (`HighRestsOnContext`), that
entering more context never hides an output (`MoreContextNeverHides`), and that a
reader with more matches has no lower priority (`PriorityFollowsMatches`);
`RotationProofs` that each taxonomy term comes up in a round
(`EveryTermComesUp`), each entity twice (`EveryEntityTwice`), and within the length
limit (`EveryEntityIsAskedFor`), for lists of every length.

With these, every safety property of a passing run is a theorem. `TickKnows`,
`SentIsAccountedFor`, `NothingForgotten`, `OutputsAccountedFor`, `Served`,
`Informed`, `BookInv` and `PaymentsAccountedFor` are in no configuration: each was
checked by TLC on the instances of section 3 before it was
proved, and the theorem says more.

Model-checked only: the liveness properties `RecordedIsDispatched`, `QueueDrains`,
`PersistedIsAnnounced`, `CollectedConcludes`, `NormalizedConcludes`,
`PaidIsInvoiced` and `AnnouncedIsDelivered`. They need fairness
and ENABLED, which are outside the prover. `SentIsAccountedFor`, `Served` and
`PaymentsAccountedFor` are what remains true of them without fairness: until the
good thing has happened, what will bring it about is still there.

## 6. Where things stand

| # | Module | Status |
|---|---|---|
| 1 | `Ingestion` with `SourceScheduler`, `Collector`, `CollectionLedger` | done, proved |
| 2 | `SignalPipeline` with `EventQueue`, `SignalJourney` | done, proved |
| 3 | `Checkout` with `Sale` | done, proved |
| 4 | `DecisionBriefs` with `Briefing` | done, proved |
| 5 | `Workspace`: accounts, consent, context cache, review cases, pilot | done, proved |
| 6 | `Scoring`, `DecisionEngine`, `DiscoveryRotation` | done, proved |

Not modelled, and why:

- **Duplicates and clusters** of `embed_signal`. They hang on pairwise distances
  between vectors, and the code promises nothing a property could state
  without choosing those: the lock is on the signal's own id, links follow the
  order of arrival, counts are repaired at the next join. The weak points are
  among the hazards.
- **Parsers, resolver, validator rules, classifier, prompts, the formatter of a brief**:
  functions of text. The tasks around them are modelled with every result they may have.
- **Search, realtime and conversational intelligence**: reads and a lossy relay, or
  calls of a model whose answer is stored in one statement.
- **HTTP fetcher**: network input and output; what it may raise is `Collector`'s choice.
- **The rule cache of 30 seconds** and the attempt limiter's counters: bounds on
  time that no property here is about.
- **Frontend, operations scripts, infrastructure but for the queues, core
  runtime**: clients, deployment, wiring.
