# MetricOps backend: TLA+ models and proofs

MetricOps is a control plane: an HTTP API (`src/src/main.ts`, `src/src/http`)
and one or more worker processes (`src/src/worker.ts`) that share nothing but a
PostgreSQL database. Customers register connections to their systems, queue
jobs that validate or scan them, and receive Alertmanager webhooks that open
incidents. Operators run migrations, backups, restore drills and an audit
verifier beside it.

Nearly everything that can go wrong here goes wrong between two transactions:
a lease that runs out under a running job, a reply that is lost after a commit,
a row that becomes visible behind a reader, a record that expires between a
request and its repetition. The models take a PostgreSQL transaction, or a
statement where the isolation level READ COMMITTED shows, as one step, and let
the processes interleave, fail and crash between the steps.

Contents: [inventory](#inventory) · [modules](#modules-and-their-code) ·
[runs](#runs) · [fairness](#fairness) · [proofs](#proofs) ·
[findings](#findings) · [limits](#what-is-not-modelled) · [plan](#plan)

To check a run: `tlc -config JobQueue.cfg MCJobQueue.tla` (the module of
each run is in `PROJECT.json`). To check proofs: `tlapm JobQueueProofs.tla`.

## Inventory

| Component | State | Operations | Hard behaviour | What makes it correct |
|---|---|---|---|---|
| Job queue and worker (`jobs/job-service.ts`, `worker.ts`, migration 002) | `jobs` rows with status, attempts, lease owner and expiry; the batch each worker holds; its `stopping` flag | enqueue, claim, execute, finish, retry with back-off, prune, SIGTERM | no heartbeat: a lease may expire under its worker; claim and finish replies may be lost; workers die | a success did its work; an attempt has one worker; every job ends; a stopped worker drains |
| Audit chain (`audit/audit-service.ts`, migration 001) | `audit_events`, one HMAC chain per customer; advisory lock per customer | append, inside the transaction of every service | sequence numbers are drawn at the insert and become visible at the commit; rollbacks leave gaps | the committed events of a customer form one chain, as far as they spell it alike |
| Audit verifier (`operations/verify-audit.ts`) | cursor, head of each chain, anchors of the previous run | verify, page by page, each page a statement of its own | writers commit behind its cursor; a restore gives numbers out again | it passes if nothing was changed and fails if something was; an anchor covers the whole prefix of its chain |
| AWS discovery (`aws/*.ts`, migration 008) | `resources` rows with `discovery_state` and `last_discovery_job_id` | scan outside any transaction, then upsert, mark and finish in one | executions of one job or of several overlap; a scan grows old before it commits | nothing is invented, nothing is declared missing that was not looked for, what was not found is marked |
| Alerts and incidents (`alerts/alertmanager-service.ts`, `incidents/incident-service.ts`, migration 005) | `alert_instances`, `incidents` with versions, idempotency records | ingest, acknowledge, resolve | notices out of order; operators with stale versions; repeated requests | one active incident per alert; alert and incident agree; a version is won once |
| Webhook replay protection (`alerts/webhook-signature.ts`, migration 007) | `webhook_receipts` | check the timestamp, insert a receipt, prune | repeated, concurrent and late deliveries; clocks; pruning | a signed delivery is processed once |
| Resource inventory (`resources/resource-service.ts`, migration 004) | `resources` | create, list by cursor | rows become visible between pages; the cursor is coarser than the column | every row once, in order, to an end |
| Idempotent intake (`connections`, `resources`, `jobs`) | idempotency records, jobs as their own records | lookup and store | two requests both find nothing; a record expires, is pruned, is met by another body | a key creates once; a replay tells the truth |
| Backup and restore drill (`operations/backup.ts`, `restore-drill.ts`) | files and their partial names; the drill's database | dump, list, encrypt, rename, describe, rename; check, decrypt, createdb, restore, dropdb | any step fails or is the last one before a crash; two drills with one name | a manifest means a complete backup; a drill restores only authentic bytes and drops only its own database |
| Migrations (`database/migrate.ts`) | `schema_migrations`, a session lock | lock, look up, apply, record | a crash between apply and record; a lost session takes the lock along | the schema goes file by file |
| Retention (`operations/maintenance.ts`, migrations 007, 009) | the rows above | prune jobs, records, receipts, sessions | races with whatever still needs the row | what is pruned is not needed any more |
| Connections and connectors (`connections/*`, `aws/aws-role-provider.ts`) | `connections`; the sessions and clients a check has open | create, list, enqueue a check, check | a check that ends after the connection was disabled or checked again; targets that are slow, silent or talk without end | the status rests on a check that policy allowed; checks end and close what they opened |
| Egress policy (`security/egress-policy.ts`) | the allowed networks and names | resolve and decide | names that resolve to several addresses, or differently the next time; signed masks | only allowed addresses and listed names are reached |
| Sessions (`security/session-service.ts`, `authentication.ts`) | `revoked_sessions` | authenticate, check, revoke, prune | two clocks, the clock tolerance, pruning | a revoked token stays refused until it expires |
| Metrics queries (`metrics/metrics-service.ts`) | a counter of running queries per customer | run a template | the counter on failing paths and after restarts | at most four at a time, and never stuck |
| HTTP application (`http/application.ts`, `main.ts`) | requests in progress; the pool | route, authenticate, answer, shut down | clients that leave, answers that are lost, a pool that ends under a handler, a sudden end | an answer is never ahead of its effect; a repetition is recognised |
| Stateless parts: HTTP schemas, reports, customers, configuration, secrets, telemetry | none of their own | checks, input and output, reads | - | - |

How they meet: a webhook or a request appends to the audit chain inside its own
transaction. `JobService.enqueue*` inserts what the worker claims. The worker
calls `ConnectionService.validate` or `AwsDiscoveryService.discover`, whose
transactions the lease does not fence, and then `finish_metricops_job`. The
maintenance task runs inside every worker and deletes rows that the queue, the
idempotency records, the receipts and the discovery refer to. No callbacks
cross process boundaries; all messages are SQL statements and HTTP requests.

`PROJECT.json` lists every component with its status, and under `hazards` each
point of the code where one of these behaviours bites.

## Modules and their code

Each `X.tla` is the model, `MCX.tla` gives the instance for TLC, and
`XProofs.tla` has the theorems; the four components of `ApiServer` are checked and
proved in it, and the theorems about `Migrations` and `BackupRestore` are in
`OperationsProofs.tla`. `MCOperations` (`Migrations` and `BackupRestore`) and
`MCIncidentsAndPaging` (`AlertIncidents` and `ResourcePaging`) check two modules that
share no state in one run: the one that takes the first step is the one that goes on,
as no property speaks of both. Definitions keep the names of the source where
that is possible; `PROJECT.json` maps each of them to its lines. A definition
introduced as a *mutant* is a plausible mistake in the definition beside it. It
is used by no specification: each property is known to fail when its mutant
replaces the original.

**JobQueue**: rows (`status`, `attempts`, `ready`, `owner`, `lease`) and workers
(`mode`, `stopping`, `phase`, `token`). `Claimable`, `ClaimRows`, `FinishMatches`
and `FailRow` are the WHERE and SET clauses of the two SQL functions. `Claim`,
`ClaimNothing` and `ClaimReplyLost` are the outcomes of the claim statement;
`Execute`, `ExecuteThrows`, `FinishSucceeds`, `FinishReplyLost`, `FinishThrows`,
`FinishFails`, `FinishIgnored` and `FinishAborts` are those of `processJob`, whose
`catch` calls finish a second time. `token` is the `attempts` of the record a
worker holds, which finish does *not* compare. Time appears as `ready` (back-off)
and `lease` ("live", "expired"). `effects` is history: the attempts whose work
was committed.

**JobLifecycle** is the abstract specification of the queue, as a tenant sees it:
submit, begin, perform, succeed, retry, give up, forget. `JobQueue` implements
it under the mapping `state <- status, tries <- attempts, done <- effects`
(`ImplementsLifecycle`).

**AuditChain**: an append is `Lock` (advisory lock), `ReadHead`, `Insert` (draws
the sequence), then `Commit` or `Abort`. `Restore` returns to an older table and
sequence. The verifier is `StartVerify`, `VerifyPage` or `RejectPage`, then
`FinishVerify`. An event is named by its transaction and its digest is that
name, which takes HMAC to be collision free. A digest covers ids as they were
*spelled*, and the lock is on the customer id as spelled; the table compares uuids and
returns them in the canonical spelling (`Canonical`). Every transaction picks its
spelling: a token may have either case (`security/authentication.ts:62`), and so may the
URL of a webhook (`http/application.ts:124`).

**AwsDiscovery**: `Begin`, `ScanPair` (one region and type), `ScanExceeds`,
`Upsert`, `Mark`, `Commit` and `Throws`, for any number of executions; `Upsert`
locks rows and `Mark` fixes the snapshot of the UPDATE. `WorldChanges`,
`DisableConnection` and `PruneJob` happen around them. `gone` and `fresh`
are history that the properties speak of.

**AlertIncidents**: `Webhook` is the last transaction of `ingest`; an operator's
request is `Look` (read the idempotency record) and then its end, after the row
lock. `Expire` and `PruneRecord` age the records.

**ApiServer** composes `Sessions`, `MetricsAdmission`, `WebhookReplay` and
`IdempotentIntake` into the process of the API: a request `Arrive`s on one of its `Ways` (webhook, intake, revoke, metrics), goes
through the gate of `Sessions` unless it is a webhook, and its handler takes the
steps of the component behind its route. `TurnAway` is everything that ends a
request before its handler has done something (rate limit, schema, permission, an
ended pool), `Accept` the answer after the commit, `Decline` the error handler.
`Lose` is a client that goes away: its handler carries on, and its connection no
longer keeps the pool open. `Shutdown`, `EndPool` and `Exit` are `shutdown` in
`main.ts`, `Kill` its ten-second timer or a crash, `Restart` the supervisor.
`Maintain` prunes, in the worker. The constants' assumptions of the components are
operators that `ApiServer` assumes together.

**Sessions**: `now` is the clock of PostgreSQL and `skew` what the clock of the API
is ahead of it. `Verify` is `jwtVerify` with its tolerance and age limit,
`AssertActive` and `Revoke` are the two operations of `SessionService`, `Prune` is
the maintenance. `ever` is history: the tokens that were revoked.

**MetricsAdmission**: `Enter` and `Leave` around `execute`; `Left` is the `finally`.

**WebhookReplay**: one clock, requests that are checked, begun, processed, replayed
or refused, and `Prune`. The signature is left out: a request carries one that
verifies. The timestamp is checked by the clock of the API, `received_at` is of the clock
of PostgreSQL; `Stamp` is counted by the latter. Their difference moves the window and
does not widen it, as long as it is the same for every delivery; a drift adds to the 600
seconds of `2 * Window`, against the 24 hours of `Retention`. `MaxDelay` bounds the time from the check of the timestamp to the
commit. It is an assumption on the deployment (server and statement timeouts).

**ResourcePaging**: `Insert` covers the transactions that add rows with `now()` of
their beginning, `List` is one request. `Cut` is what a JavaScript `Date` does
to a `timestamptz`, with `Precision` instants to the millisecond.

**IdempotentIntake**: a request begins (its `now()`), looks the key up, and stores
row and record; unique indexes decide between two that found nothing. Of these,
the keys in `jobKeys` are kept by the job itself, the others by a record with a TTL.

**ConnectionChecks**: one connection of any kind, the jobs `Ask`ed for and
`Enqueue`d for it, and executions of `ConnectionService.validate`. `Start` reads
the row, `Resolve` asks the egress policy (`Permitted`, with the masks and signs of
`isAllowedIpv4` in words of `Width` bits), `Connect` goes to the `Pinned` address.
While it is "asking", the target acts: `AssumeRole`, `Answered`, `AnsweredBadly`,
`Breaks`, `Chunk`. `Silence` and `Timeout` are the deadline of each kind: any for
PostgreSQL (`query_timeout`), one that starts again with every byte for Prometheus,
none in this process for MySQL and AWS once connected. `OnError` is what an error
means for the kind: the connectors of databases and AWS catch it and report
unhealthy, that of Prometheus rejects. `Close` is the `finally`. A `pg` client that has
its answer says goodbye first and waits until the target closes the socket: that is
"parting", from `SettleAnswered` to `HangUp`, a step of the target; `Record` is
the second transaction, `Fail` the catch of `processJob`. A connection is only ever
disabled by an operator (`Disable`), as no operation does it.

**BackupRestore**: both commands step by step over files that are absent, cut,
whole or damaged; `Damage` is what storage may do. `createdb` may time out after it made
the database (`CreateOutrun`), and `dropdb` before the server is through: `LateDrop` is
that drop, or an operator's.

**Migrations**: `Lock`, `Skip`, `Apply`, `Record`, and the ways a runner throws,
crashes or loses the session that holds the lock.

The API is composed (`ApiServer`), the workers are not: their components share tables
with it, but each reads from the others only what its model has as an action of
the environment (`PruneJob`, `Restore`, `Execute`, `Disable`). Composition of the
queue with the discovery is in the plan.

## Runs

| Run | Shows | Bounds, and why they suffice |
|---|---|---|
| JobQueue | owner fence, one worker per attempt, success has effect, attempt budget, the refinement of `JobLifecycle`; every job ends, a stopped worker drains | 2 workers, of which one may be stopped or lost, 2 jobs in batches of 2, 2 attempts, 1 fault: a job is executed by two workers at once, the jobs of a batch go different ways, and a worker dies with both. The safety properties are proved for any number of faults |
| JobQueueRetries | attempts pass `max_attempts` (finding) | 2 faults |
| AuditChain | chains, anchors, explained alarms | 3 events of 2 customers, pages of 2, 2 verifications, 1 restore, customer and request ids in two spellings: a page boundary falls inside a chain, chains fork, an event of another spelling commits behind the cursor, and an anchor outlives a restore |
| AuditChainForks | a finding | 2 events of 1 customer in two spellings |
| AwsDiscovery | what reconciliation and the cap give | 3 items in 2 pairs, 3 executions, 2 of them of one job, cap 2, 2 changes in AWS: full, exceeded and exactly full inventories, and every overlap of two last transactions |
| AwsRetryKeepsAbsent | a finding | 2 executions of one job, 1 change |
| ApiServer | the promises of its four components in one process, and that what a client was told of stays in the tables as long as it counts | 3 requests: two may carry one delivery, repeat one intake or query metrics, the third uses the key with another body or revokes the token they share; window 1 and retention 2, delay 0, TTL 2, a token that expires at 2 and is at most 0 old, give or take a tolerance of 1, clock to 3, one query at a time. A delivery stamped a whole window ahead, an expired and a pruned record, receipt or revocation, and a token in its tolerance all occur. The bounds are small because every safety property of this run is also proved for all values |
| ConnectionChecks | what a status rests on, who brings back a disabled connection, where checks connect, that they end | 2 jobs, 2 executions, 4 kinds; addresses of 3 bits with the upper half allowed, written as 5/1 (not in normal form, and negative once masked); names that resolve to an allowed, a forbidden, a mixed, an IPv6 or no answer; responses of up to 2 chunks. What differs between words of 3 and 32 bits is the number of prefixes only |
| ConnectionChecksReserved | a finding | 1 job and execution; a reserved address outside the allowed half |
| IncidentsAndPaging | incidents and their versions; the order of pages, what may be missed, termination | Incidents: 2 alerts, 3 incidents, 3 deliveries, 3 requests with 2 keys: an alert fires, is dismissed, recovers and fires again. Paging: 5 rows, pages of 2, 2 instants to a millisecond, 2 transactions, clock to 4: three pages, rows of one and of several transactions in one millisecond |
| ResourcePagingSkips | a finding | 4 rows, clock to 3 |
| Operations | the order of the schema, and that it completes or sticks; publication order, authenticity, own database | 3 runners, 3 files of which one can be run again, 3 faults. 1 backup (each names its files by a fresh uuid, so runs do not meet), 3 drills, one of which keeps its database |

`CHECK_DEADLOCK FALSE` is set where the system may stop: all transactions are
over, all requests answered, the clock at its bound, all processes at their end.
The runs of the queue check deadlock: it never stops while a worker lives.
Symmetry is used for identities that the model only compares, in runs without
liveness, and in `IncidentsAndPaging` for alerts and incidents, which are untouched
on every behaviour that `ListingEnds` is about.

The counters that bound the state spaces are named bounds in the modules
(`MaxFaults`, `MaxRuns`, `MaxRestores`, `MaxChanges`, `MaxDeliveries`, `MaxClock`)
or the sizes of `Incidents`, `Txs`, `Executions`, `Requests`.

## Fairness

* Queue: weak fairness of each worker process, loop and tasks together: its event
  loop keeps turning, and what a task waits for answers or fails. The code bounds
  the checks of Prometheus targets, and those of PostgreSQL targets up to the answer. That
  a PostgreSQL target closes its socket after it, and that MySQL and AWS answer, is an
  assumption (`ConnectionChecks` shows these waits, which have no deadline in the
  process). Weak fairness also of the clock of each job, that is of back-off and lease expiry.
  Nothing is assumed of crashes, SIGTERM or lost replies. Only workers in `Stoppable` may be
  lost: that at least one worker survives is the deployment's part.
* Paging: a client that follows its cursors. Rows may go on being added.
* Checks of a connection: weak fairness, for each execution, of its own steps
  (`Own`: resolve, connect, time out, close, record) and of `Silence`, that is of
  its timers. Nothing is asked of the target, which may answer, trickle, hang, or keep a
  session open that it was asked to close (`HangUp` is not fair).
  `docs/guides/INTEGRATIONS.md:135` speaks of connection and statement deadlines for
  MySQL; the second is kept by the server, and `ChecksEnd` says what is left without it.
* API: none; its properties are safety properties.
* Migrations: a process that runs takes steps, a free advisory lock is granted,
  and the operator runs the job again. `MaxFaults` bounds the failures, so
  liveness says: once failures stop, the schema completes, or it is stuck
  between a file and its record.

## Proofs

The theorems hold for all values of the constants that satisfy the named
assumptions of the modules; the runs show the same formulas on an instance.

**JobQueueProofs**. `InvCorrect`: `IInv` is inductive. `OwnerFence` alone is not
inductive: it needs `RowShape` (a row has an owner and a lease exactly while it
is running) and `TaskShape` (a worker has tasks only in mode "working", with a
token that was given out). The central point is the claim: a worker claims only
when none of its tasks is left (`Promise.allSettled`), so a token it holds of a
row it owns is the current one. `SuccessHasEffect` needs `EffectOnce`, since a
finish is only sent from "reporting", after the commit. From these follow
`OwnerFenceCorrect`, `SuccessIsReal` and `AttemptsBoundedCorrect` (through
`AttemptBudget`, which sets the attempts against the leases that lapsed), and
`LifecycleImplemented`: each action maps to a step of `JobLifecycle` or a stutter.
Four more theorems say what a lease and the refinement are worth. `SoleWorkerCorrect`:
until a lease on a job runs out one worker at most has a record of it, so crashes,
lost replies and retries alone never give it to two. `WorkBoundedCorrect`: its work is
committed at most `max_attempts` times and once for each lapsed lease.
`EndedForGoodCorrect` and `GivenUpLateCorrect` are proved of `JobLifecycle` and carried
over by the refinement: an outcome is final, and "failed" is said only after
`max_attempts` attempts.

**AuditChainProofs**. All of it holds however customers and requests are spelled.
`SpellingInv` is an invariant per spelling: the lock admits one appender of a spelling,
sequence numbers in use are distinct, and the head a transaction read is not older than
any committed event of its spelling, because the lock is released by the commit itself.
`ChainUpToSpellingCorrect`: a previous hash is that of an earlier event of the customer
in the table, and what it passes over was spelled in another way. So a chain forks
only between two spellings (`ForksAreSpellingsCorrect`), and where the table has one
spelling of each customer, the documented chain is what it has (`OneSpellingChains`).

The verifier has an invariant of its own (`VerifierInv`). While it reads, its events
are rows up to the cursor, each head is the newest of them (`Reading`), and an
anchor it was given is met or still expected; without a restore the events behind
anchors stay in the table (`Anchored`). What carries the proofs is that a page has
no gap: `LIMIT` returns every row between the cursor and its last one (`PageClosed`),
and is empty only when no row is left (`PageEmpty`). Both are about cardinalities,
and need a finite table, which follows from distinct sequence numbers below the
next one (`UnreadFinite`). `AnchorsKeptCorrect` needs no more. For
`AnchorCoversPrefixCorrect` every event the verifier has passed is digested in the
canonical spelling (`CheckedCanonical`), as a page with another one is rejected; among those the
previous hash tells whether a row was passed over (`AlikeFollows`). That is why an anchor
speaks for the canonical events before it only: one of another spelling that commits behind
the cursor is in nobody's chain. `AlarmIsExplainedCorrect` names it among the causes.

**AwsDiscoveryProofs**. `FoundByItsJobCorrect`, `MissingWasLookedForCorrect` and
`ActiveAccountedCorrect`. The invariant relates, pair by pair, the items of the
world that a running execution has listed to `found` and `gone`, and the rows
that the marking statement saw to those that changed since.
`ReconcilesAloneCorrect` turns finding 2 around: an execution that is the first of its job
to commit, and that no commit overtook while it marked, leaves exactly what it found
active, as the documentation says. Two executions under one job and two overlapping last
transactions are thus the only exceptions. `CapEnforcedCorrect` needs `WithinCap`: what a
scan has found is within the cap, and none of it is of a pair it has still to list, so
nothing is counted twice. It is about cardinalities, for which `DiscoveryAssumption`
says that an account has finitely many resources.

**AlertIncidentsProofs**. All safety properties and `NeverReopened`. Versions only
grow, and a request that was carried out names a version below the current one,
so nobody wins it again, with or without its record.

**ApiServerProofs**. `ImplementsComponents`: the process implements the
specifications of `WebhookReplay`, `IdempotentIntake`, `Sessions` and
`MetricsAdmission`, action by action (each is a step of a component, or leaves it
alone; `Kill` and `Exit` are its `Die`). The theorems about the components are then
proved from their own inductive invariants and hold of the process:

* `ProcessedOnceCorrect` and `ReplayWasProcessedCorrect` assume
  `Retention >= 2 * Window + MaxDelay`. The factor 2 is real: a delivery may be
  stamped a whole window ahead of the clock. The code has 24 hours against 300
  seconds. The invariant says that a receipt is pruned only when every request that
  passed the check of the timestamp is over (`PrunedIsStale`).
* `CreatedOnceCorrect`, `ReplayIsTruthfulCorrect` and `RetryReplaysCorrect`: a record
  names a request that created its row until its time is over (`RecordShape`), and
  what a repetition could find when it began is there as long (`OwedShape`).
* `RevocationHoldsCorrect`: a revocation that is gone is of an expired token
  (`RevokedForGood`). Neither skew nor tolerance matters, because both the check and
  the pruning use the clock of the database.
* `QueriesCountedCorrect`, from finite cardinalities.
* `AcceptedIsStoredCorrect`, from all of them: a handler that was through has stored a
  receipt, a record, a job or a revocation, and the invariants above say until when it is
  there (`DoneIsStored`). It needs the same retention of receipts.

**ConnectionChecksProofs**. `StatusIsEvidenceCorrect` and
`RevivedByEarlierJobCorrect`. `JobShape` says that while a connection is disabled
every job there is was asked for before, `CheckShape` what a verdict rests on
at each point of an execution, `LastShape` that the last record is of an execution
that is over, so its evidence does not change any more.
`EgressDecidesCorrect` is about the arithmetic of `isAllowedIpv4` for words of any
width. Clearing the low bits of an address is rounding it down to a multiple of a power of
two (`ClearedBits`), reading a word as signed loses nothing (`SignedInjective`), so
the comparison of the two masked, signed words says that address and network agree
in the prefix (`AllowedIsSafe`). That powers of two are positive is all it needs of them;
induction being out of reach, `PowerPositive` gets it from the cardinality of a powerset.
`EgressShape` carries the decision from `Resolve` to the address that is connected to.
`ReservedUnlistedCorrect` says how far the documented denial of reserved addresses goes:
for every name that is not listed, if no allowed network holds one.

**ResourcePagingProofs**. `NewestFirstCorrect` and `SkippedShareCorrect`, for every
page size and precision, 1 included: there the second says that nothing is
missed. They rest on `MultiplesOrdered`, arithmetic about cutting to multiples.

**OperationsProofs**. Of the runner, `SchemaInOrderCorrect`. The invariant says that a runner stands
behind recorded files only. It does not mention the lock: the order of the schema
does not depend on it, which matters because the lock can be lost.

Of the backup command and the drill, `PublishedIsWholeCorrect`, `RestoresAuthenticCorrect`
and `HasItsDatabaseCorrect`, for any number of each.
`FilesShape` gives for each point of a backup which of its files exist and are whole: the
artifact is renamed only after it was written to the end, and the manifest after the
artifact, so a crash anywhere leaves nothing that looks complete and is not.
`DrillShape` gives what a drill has decrypted, created and reported; `createdb` fails on a
name that is taken, so a drill that created its database is the one whose database is there.
`Migrations` and `BackupRestore` are proved in one module, for which the latter
names its specification `RecoverySpec`.

Every safety property of the passing runs, invariant or action property, is stated by a
theorem. Only model-checked: liveness (`EveryJobEnds`, `StopDrains`, `ListingEnds`,
`ChecksEnd`, `CompletesOrSticks`), as fairness and ENABLED are out of the prover's reach.
The invariants of the proofs (`IInv`, `Inv`, `VerifierInv`, `SpellingInv`, `WithinCap`,
`EgressShape`, `RecoveryInv`, `SoleWorker`) were checked with TLC on the
instances of the runs before they were proved (`SpellingInv` with two spellings).

## Findings

Five runs end in a behaviour of the code that contradicts what the repository
says of it. `PROJECT.json` quotes the lines.

1. **Retries are not bounded** (JobQueueRetries): an expired lease is claimed
   without comparing `attempts` with `max_attempts`. `AttemptsBounded` says what
   is true instead.
2. **A repeated job leaves absent rows active** (AwsRetryKeepsAbsent): rows of
   its earlier execution carry the same job id and are passed over by the
   marking.
3. **Pages skip rows** (ResourcePagingSkips): the cursor has milliseconds, the
   column microseconds, and a discovery gives all its rows one `created_at`.
   `SkippedShareMillisecond` says which rows can be missed.
4. **The audit chain of a customer forks** (AuditChainForks): the lock is taken on the
   customer id as a token or a webhook's URL spells it, the rows are read by uuid. Two
   spellings take two locks and follow one event. `ChainUpToSpelling` says what is left
   of the chain.
5. **A listed name may lead to a reserved address** (ConnectionChecksReserved): what a name
   on the allow-list resolves to is not checked, while the guide says that metadata-service
   addresses and loopback are denied. `EgressDecides` says what is reached.

Other surprises of the code are inside the passing properties, which state what
is true of it:

* The verifier may fail on an intact table, when an event commits behind its
  cursor, or when a client spelled a customer id or `X-Request-Id` in upper case: such an id
  is digested as spelled and read back as a uuid. These are the causes that
  `AlarmIsExplained` lists besides a restore.
* Two jobs that reconcile one connection at the same time can leave an inventory
  that neither scan found: rows committed while the other is marking are not
  examined (`i \in fresh[e]` in `ActiveAccounted`). And an execution that
  scanned earlier may commit later, over a newer scan.
* A scan that has found exactly `maxResources` items is refused when a pair is left
  to list, even an empty one (the second half of `CapEnforced`).
* A migration that is applied and not recorded blocks the runner for good, unless
  its file can run again (`Stuck` in `CompletesOrSticks`).
* A check that was under way brings a disabled connection back
  (`RevivedByEarlierJob`): `validate` does not look at the status, while discovery
  does look at it (`AwsDiscovery.Begin`).
* A Prometheus target that cannot be reached fails the job and leaves the status as it
  was; it never becomes unhealthy for that. A database target does
  (`StatusIsEvidence`).
* Once connected, checks of MySQL and AWS targets have no deadline in the process:
  `MAX_EXECUTION_TIME` is the server's, and `requestTimeout` that of the SDK. Nor has the
  `client.end()` of a PostgreSQL check that was answered: it waits for the target to close
  (`Unbounded`, the exception in `ChecksEnd`). The queue then depends on the lease, and the
  shutdown of the worker on the target.
* Two checks of one connection may record their results in the opposite order of their
  requests; `last_validated_at` then goes back with the status.
* In the five seconds of tolerance after its expiry a revoked token is accepted again
  (the second half of `RevocationHolds`).

## What is not modelled

* Reads: the lists of connections, resources, alerts, incidents and audit events (the
  paged one of resources is modelled), jobs, reports, telemetry, range queries of
  Prometheus and the normalisation of their results.
* Creating a customer: one insert and one audit event, an appending transaction of
  `AuditChain`.
* Pure checks: HTTP schemas, signatures of tokens, webhooks and cursors, permissions,
  headers. In `ApiServer` each is a request that may be turned away.
* Configuration and secrets: read once, or on use; what cannot be read is a failed
  check or start. The file of the secret provider is not in the tree.
* What a Prometheus target may send before its response (interim responses).
* A statement that the server has not begun when its client is killed: it is taken not to
  run. (A `dropdb` whose client is stopped at that moment could otherwise drop a later
  database of the same name.)
* The power failing: the backup command does not sync its files, and a crash in
  `BackupRestore` is one of the process.
* A `statement_timeout` that a deployment sets for the migration runner: its wait for the
  lock could end with an error.
* Row-level security: one customer at a time, except in `AuditChain`, whose
  verifier reads all customers.
* The order of row locks *within* a webhook's transaction: a deadlock aborts one
  of two deliveries, which `AlertIncidents` and `WebhookReplay` have as a delivery that did not happen.
* The content of a resource, a report, an audit event or a migration.

## Plan

Done, in this order, the most important behaviour first: the queue with its
lifecycle; the audit chain and its verifier; discovery; alerts and incidents;
replay protection; paging; idempotent intake; backup and restore; migrations; then
sessions, the admission of metrics queries and their composition with replay
protection and intake in the process of the API; the checks of connections with
connectors and egress policy.

Next:

1. `QueueDiscovery`: `JobQueue` with the effect of a job replaced by an execution of
   `AwsDiscovery`, to show which of the findings remain when one worker runs.
2. `WebhookLocks`: the order in which one delivery locks the rows of its alerts.
3. An abstract specification of the inventory (`state` follows the scans in order)
   and the conditions under which `AwsDiscovery` implements it.
4. Audit events of retried jobs: what is appended once per attempt, not per job.
