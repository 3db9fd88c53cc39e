------------------------------- MODULE JobQueue -------------------------------
(***************************************************************************)
(* The durable PostgreSQL job queue and the worker processes that drain    *)
(* it: src/jobs/job-service.ts, the claim and finish functions of          *)
(* migrations/002_durable_jobs.sql, the loop of src/worker.ts and the      *)
(* pruning of migrations/009_operational_retention.sql.                    *)
(*                                                                         *)
(* A transaction is one step: PostgreSQL locks the rows it touches.  What  *)
(* the worker learns of it is another matter: a reply can be lost, and a   *)
(* worker can die between any two of its statements.                       *)
(***************************************************************************)
EXTENDS Naturals, FiniteSets

CONSTANTS
  Jobs,         \* identifiers of the jobs that may be queued
  Workers,      \* worker process incarnations: each start draws a fresh uuid
  Stoppable,    \* the workers the deployment may stop or lose
  NoWorker,     \* lease_owner IS NULL
  MaxAttempts,  \* jobs.max_attempts
  BatchSize,    \* the limit passed to claim (5 in worker.ts)
  MaxFaults     \* bound: crashes, lost or failed statements, outrun leases

ASSUME QueueAssumption ==
  /\ MaxAttempts \in Nat \ {0}
  /\ BatchSize \in Nat \ {0}
  /\ MaxFaults \in Nat
  /\ Stoppable \subseteq Workers
  /\ NoWorker \notin Workers

VARIABLES
  \* the jobs table
  status,    \* "absent" before the insert, "pruned" after the delete
  attempts,
  ready,     \* available_at <= clock_timestamp()
  owner,     \* lease_owner
  lease,     \* lease_expires_at against the clock: "none", "live", "expired"
  \* the worker processes
  mode,      \* where the loop of run() is
  stopping,  \* the flag set by SIGTERM
  phase,     \* phase[w][j]: where processJob(j) is in worker w
  token,     \* token[w][j]: job.attempts in the record w holds of j
  \* history and bounds
  effects,   \* effects[j]: the attempts whose work was committed
  lapsed,    \* lapsed[j]: how many leases on j have expired
  faults     \* faults injected so far

rowVars    == <<status, attempts, ready, owner, lease>>
workerVars == <<mode, stopping, phase, token>>
vars       == <<rowVars, workerVars, effects, lapsed, faults>>

Ended    == {"succeeded", "failed"}
Statuses == Ended \cup {"absent", "queued", "running", "pruned"}
Modes    == {"new", "head", "claiming", "working", "exited", "dead"}
Alive    == {"head", "claiming", "working"}
Phases   == {"none", "executing", "reporting", "failing"}

Init ==
  /\ status   = [j \in Jobs |-> "absent"]
  /\ attempts = [j \in Jobs |-> 0]
  /\ ready    = [j \in Jobs |-> FALSE]
  /\ owner    = [j \in Jobs |-> NoWorker]
  /\ lease    = [j \in Jobs |-> "none"]
  /\ mode     = [w \in Workers |-> "new"]
  /\ stopping = [w \in Workers |-> FALSE]
  /\ phase    = [w \in Workers |-> [j \in Jobs |-> "none"]]
  /\ token    = [w \in Workers |-> [j \in Jobs |-> 0]]
  /\ effects  = [j \in Jobs |-> {}]
  /\ lapsed   = [j \in Jobs |-> 0]
  /\ faults   = 0

Fault == faults < MaxFaults /\ faults' = faults + 1

-------------------------------------------------------------------------------
(* The table: what the two SQL functions do to the rows they match.        *)

\* Mutants of Claimable: a lease-only query, and one without recovery.
ClaimableByLease(j)    == ready[j] /\ lease[j] \in {"none", "expired"}
ClaimableQueuedOnly(j) == ready[j] /\ status[j] = "queued"

Claimable(j) ==
  /\ ready[j]
  /\ \/ status[j] = "queued"
     \/ status[j] = "running" /\ lease[j] = "expired"

\* Batches a claim may return.  SKIP LOCKED passes over rows another
\* transaction holds, so any choice of at most BatchSize claimable rows.
Batches == {S \in SUBSET {j \in Jobs : Claimable(j)} : Cardinality(S) <= BatchSize}

\* Mutant of ClaimRows: taking over an expired lease starts no new attempt.
ClaimRowsSameAttempt(w, S) ==
  /\ status'   = [j \in Jobs |-> IF j \in S THEN "running" ELSE status[j]]
  /\ attempts' = [j \in Jobs |-> IF j \in S /\ status[j] = "queued"
                                THEN attempts[j] + 1 ELSE attempts[j]]
  /\ owner'    = [j \in Jobs |-> IF j \in S THEN w ELSE owner[j]]
  /\ lease'    = [j \in Jobs |-> IF j \in S THEN "live" ELSE lease[j]]
  /\ UNCHANGED ready

ClaimRows(w, S) ==
  /\ status'   = [j \in Jobs |-> IF j \in S THEN "running" ELSE status[j]]
  /\ attempts' = [j \in Jobs |-> IF j \in S THEN attempts[j] + 1 ELSE attempts[j]]
  /\ owner'    = [j \in Jobs |-> IF j \in S THEN w ELSE owner[j]]
  /\ lease'    = [j \in Jobs |-> IF j \in S THEN "live" ELSE lease[j]]
  /\ UNCHANGED ready

\* Mutant of FinishMatches: the owner of the lease is not compared.
FinishMatchesUnfenced(w, j) == status[j] = "running"

\* The WHERE clause of finish_metricops_job: the owner is compared, the
\* expiry of its lease is not.
FinishMatches(w, j) == status[j] = "running" /\ owner[j] = w

ReleaseRow(j, newStatus) ==
  /\ status' = [status EXCEPT ![j] = newStatus]
  /\ owner'  = [owner EXCEPT ![j] = NoWorker]
  /\ lease'  = [lease EXCEPT ![j] = "none"]
  /\ UNCHANGED attempts

SucceedRow(j) == ReleaseRow(j, "succeeded") /\ UNCHANGED ready

\* Mutant of FailRow: the retry bound is off by one.
FailRowOneMore(j) ==
  IF attempts[j] > MaxAttempts
  THEN ReleaseRow(j, "failed") /\ UNCHANGED ready
  ELSE ReleaseRow(j, "queued") /\ ready' = [ready EXCEPT ![j] = FALSE]

FailRow(j) ==
  IF attempts[j] >= MaxAttempts
  THEN ReleaseRow(j, "failed") /\ UNCHANGED ready
  ELSE ReleaseRow(j, "queued") /\ ready' = [ready EXCEPT ![j] = FALSE]

-------------------------------------------------------------------------------
(* The control plane, the clock and the maintenance task.                  *)

\* The insert of enqueueConnectionValidation or enqueueAwsDiscovery.
Enqueue(j) ==
  /\ status[j] = "absent"
  /\ status' = [status EXCEPT ![j] = "queued"]
  /\ ready'  = [ready EXCEPT ![j] = TRUE]
  /\ UNCHANGED <<attempts, owner, lease, workerVars, effects, lapsed, faults>>

BackoffElapses(j) ==
  /\ status[j] = "queued" /\ ~ready[j]
  /\ ready' = [ready EXCEPT ![j] = TRUE]
  /\ UNCHANGED <<status, attempts, owner, lease, workerVars, effects, lapsed, faults>>

HeldByOwner(j) == owner[j] \in Workers /\ phase[owner[j]][j] # "none"

LeaseLapses(j) ==
  /\ lease[j] = "live"
  /\ lease'  = [lease EXCEPT ![j] = "expired"]
  /\ lapsed' = [lapsed EXCEPT ![j] = @ + 1]
  /\ UNCHANGED <<status, attempts, ready, owner, workerVars, effects>>

\* The lease of a job nobody works on any more runs out.
OrphanLeaseExpires(j) == ~HeldByOwner(j) /\ LeaseLapses(j) /\ UNCHANGED faults

\* The work takes longer than its lease: there is no heartbeat to extend it.
LeaseOutrun(j) == HeldByOwner(j) /\ LeaseLapses(j) /\ Fault

\* prune_metricops_operational_records deletes jobs that ended long ago.
Prune(j) ==
  /\ status[j] \in Ended
  /\ status' = [status EXCEPT ![j] = "pruned"]
  /\ UNCHANGED <<attempts, ready, owner, lease, workerVars, effects, lapsed, faults>>

-------------------------------------------------------------------------------
(* The loop of run() in worker.ts.                                         *)

Idle(w) == \A j \in Jobs : phase[w][j] = "none"

Goto(w, m) == mode' = [mode EXCEPT ![w] = m]

Start(w) ==
  /\ mode[w] = "new"
  /\ Goto(w, "head")
  /\ UNCHANGED <<rowVars, stopping, phase, token, effects, lapsed, faults>>

Sigterm(w) ==
  /\ w \in Stoppable /\ mode[w] \in Alive /\ ~stopping[w]
  /\ stopping' = [stopping EXCEPT ![w] = TRUE]
  /\ UNCHANGED <<rowVars, mode, phase, token, effects, lapsed, faults>>

\* Mutant of Poll: the loop does not look at the flag.
PollForever(w) ==
  /\ mode[w] = "head"
  /\ Goto(w, "claiming")
  /\ UNCHANGED <<rowVars, stopping, phase, token, effects, lapsed, faults>>

\* while (!stopping): the claim statement is sent.
Poll(w) ==
  /\ mode[w] = "head" /\ ~stopping[w]
  /\ Goto(w, "claiming")
  /\ UNCHANGED <<rowVars, stopping, phase, token, effects, lapsed, faults>>

Exit(w) ==
  /\ mode[w] = "head" /\ stopping[w]
  /\ Goto(w, "exited")
  /\ UNCHANGED <<rowVars, stopping, phase, token, effects, lapsed, faults>>

\* The claim commits and processJob starts on every job of the batch.
Claim(w, S) ==
  /\ mode[w] = "claiming" /\ S # {}
  /\ ClaimRows(w, S)
  /\ Goto(w, "working")
  /\ phase' = [phase EXCEPT ![w] = [j \in Jobs |-> IF j \in S THEN "executing" ELSE @[j]]]
  /\ token' = [token EXCEPT ![w] = [j \in Jobs |-> IF j \in S THEN attempts'[j] ELSE @[j]]]
  /\ UNCHANGED <<stopping, effects, lapsed, faults>>

\* No row matched: the worker sleeps for a second.
ClaimNothing(w) ==
  /\ mode[w] = "claiming" /\ \A j \in Jobs : ~Claimable(j)
  /\ Goto(w, "head")
  /\ UNCHANGED <<rowVars, stopping, phase, token, effects, lapsed, faults>>

\* The claim throws and counts as an empty batch, though the statement may
\* have committed (S is empty when it did not).
ClaimReplyLost(w, S) ==
  /\ mode[w] = "claiming"
  /\ Fault
  /\ ClaimRows(w, S)
  /\ Goto(w, "head")
  /\ UNCHANGED <<stopping, phase, token, effects, lapsed>>

\* Promise.allSettled: the next claim waits for the whole batch.
BatchSettles(w) ==
  /\ mode[w] = "working" /\ Idle(w)
  /\ Goto(w, "head")
  /\ UNCHANGED <<rowVars, stopping, phase, token, effects, lapsed, faults>>

\* The process is gone with all it held in memory.
Crash(w) ==
  /\ w \in Stoppable /\ mode[w] \in Alive
  /\ Fault
  /\ Goto(w, "dead")
  /\ phase' = [phase EXCEPT ![w] = [j \in Jobs |-> "none"]]
  /\ token' = [token EXCEPT ![w] = [j \in Jobs |-> 0]]
  /\ UNCHANGED <<rowVars, stopping, effects, lapsed>>

-------------------------------------------------------------------------------
(* processJob: the steps of one job of the batch, interleaved with those   *)
(* of the others.                                                          *)

Advance(w, j, p) == phase' = [phase EXCEPT ![w][j] = p]

Settle(w, j) ==
  /\ Advance(w, j, "none")
  /\ token' = [token EXCEPT ![w][j] = 0]

CommitEffect(w, j) == effects' = [effects EXCEPT ![j] = @ \cup {token[w][j]}]

\* connections.validate or awsDiscovery.discover returns.
Execute(w, j) ==
  /\ phase[w][j] = "executing"
  /\ CommitEffect(w, j)
  /\ Advance(w, j, "reporting")
  /\ UNCHANGED <<rowVars, mode, stopping, token, lapsed, faults>>

\* It throws: before its last transaction committed, or after, when only the
\* reply to the COMMIT was lost.
ExecuteThrows(w, j) ==
  /\ phase[w][j] = "executing"
  /\ Advance(w, j, "failing")
  /\ CommitEffect(w, j) \/ UNCHANGED effects
  /\ UNCHANGED <<rowVars, mode, stopping, token, lapsed, faults>>

\* jobs.finish(..., true, ...) commits and returns.
FinishSucceeds(w, j) ==
  /\ phase[w][j] = "reporting"
  /\ FinishMatches(w, j)
  /\ SucceedRow(j)
  /\ Settle(w, j)
  /\ UNCHANGED <<mode, stopping, effects, lapsed, faults>>

\* It commits, but its reply is lost: the catch clause reports a failure.
FinishReplyLost(w, j) ==
  /\ phase[w][j] = "reporting"
  /\ FinishMatches(w, j)
  /\ SucceedRow(j)
  /\ Advance(w, j, "failing")
  /\ UNCHANGED <<mode, stopping, token, effects, lapsed, faults>>

\* The lease was lost, or the transaction aborted: nothing is written.
FinishThrows(w, j) ==
  /\ phase[w][j] = "reporting"
  /\ Advance(w, j, "failing")
  /\ UNCHANGED <<rowVars, mode, stopping, token, effects, lapsed, faults>>

\* The catch clause: jobs.finish(..., false, ...) on a row it still owns.
FinishFails(w, j) ==
  /\ phase[w][j] = "failing"
  /\ FinishMatches(w, j)
  /\ FailRow(j)
  /\ Settle(w, j)
  /\ UNCHANGED <<mode, stopping, effects, lapsed, faults>>

\* The row is no longer the worker's: the error is swallowed.
FinishIgnored(w, j) ==
  /\ phase[w][j] = "failing"
  /\ ~FinishMatches(w, j)
  /\ Settle(w, j)
  /\ UNCHANGED <<rowVars, mode, stopping, effects, lapsed, faults>>

\* That transaction aborts too: the job stays leased to a worker that has
\* settled it.
FinishAborts(w, j) ==
  /\ phase[w][j] = "failing"
  /\ Fault
  /\ Settle(w, j)
  /\ UNCHANGED <<rowVars, mode, stopping, effects, lapsed>>

-------------------------------------------------------------------------------

Environment(j) ==
  \/ Enqueue(j) \/ BackoffElapses(j) \/ OrphanLeaseExpires(j)
  \/ LeaseOutrun(j) \/ Prune(j)

Loop(w) ==
  \/ Start(w) \/ Poll(w) \/ Exit(w) \/ ClaimNothing(w) \/ BatchSettles(w)
  \/ \E S \in Batches : Claim(w, S)

Task(w, j) ==
  \/ Execute(w, j) \/ ExecuteThrows(w, j)
  \/ FinishSucceeds(w, j) \/ FinishReplyLost(w, j) \/ FinishThrows(w, j)
  \/ FinishFails(w, j) \/ FinishIgnored(w, j)

Disturb(w) ==
  \/ Sigterm(w) \/ Crash(w)
  \/ \E S \in Batches : ClaimReplyLost(w, S)
  \/ \E j \in Jobs : FinishAborts(w, j)

Next ==
  \/ \E j \in Jobs : Environment(j)
  \/ \E w \in Workers : Loop(w) \/ Disturb(w) \/ \E j \in Jobs : Task(w, j)

Spec == Init /\ [][Next]_vars

\* Time passes, the event loop of a running process keeps turning, and what
\* processJob waits for answers or fails.  The code bounds the checks of
\* Prometheus targets, and those of PostgreSQL targets up to their answer; that
\* a PostgreSQL target closes its connection then, and that MySQL and AWS answer,
\* is assumed (ConnectionChecks has the waits without a deadline).
Fairness ==
  /\ \A j \in Jobs : WF_vars(BackoffElapses(j) \/ OrphanLeaseExpires(j))
  /\ \A w \in Workers : WF_vars(Loop(w) \/ \E j \in Jobs : Task(w, j))

FairSpec == Spec /\ Fairness

-------------------------------------------------------------------------------
(* Properties.                                                             *)

TypeOK ==
  /\ status   \in [Jobs -> Statuses]
  /\ attempts \in [Jobs -> Nat]
  /\ ready    \in [Jobs -> BOOLEAN]
  /\ owner    \in [Jobs -> Workers \cup {NoWorker}]
  /\ lease    \in [Jobs -> {"none", "live", "expired"}]
  /\ mode     \in [Workers -> Modes]
  /\ stopping \in [Workers -> BOOLEAN]
  /\ phase    \in [Workers -> [Jobs -> Phases]]
  /\ token    \in [Workers -> [Jobs -> Nat]]
  /\ effects  \in [Jobs -> SUBSET Nat]
  /\ lapsed   \in [Jobs -> Nat]
  /\ faults   \in Nat

\* finish_metricops_job fences on lease_owner alone: it compares neither the
\* attempt nor the expiry of the lease.  This is enough because a worker that
\* owns a running job never holds a stale record of it (worker.ts starts a
\* claim only after Promise.allSettled): the attempt it executes is the one
\* in the row, and no other worker executes that attempt, however often the
\* lease ran out and the reply of a claim was lost.
OwnerFence ==
  \A w \in Workers, j \in Jobs : phase[w][j] # "none" =>
    /\ FinishMatches(w, j) => token[w][j] = attempts[j]
    /\ \A v \in Workers : phase[v][j] # "none" /\ token[v][j] = token[w][j] => v = w

\* A job shown as succeeded did its work: the attempt on record committed the
\* validation or the discovery, although other attempts may have been lost,
\* outrun or reported late.
SuccessHasEffect ==
  \A j \in Jobs : status[j] = "succeeded" => attempts[j] \in effects[j]

\* The retry bound that the code gives: finish stops at max_attempts, but the
\* claim of an expired lease starts one more attempt without looking, so only
\* the attempts that ended with a report are bounded.
AttemptsBounded ==
  \A j \in Jobs : attempts[j] <= MaxAttempts + lapsed[j]

\* What SECURITY.md promises, "bounded retries": no job is started more than
\* max_attempts times.
RetriesBounded ==
  \A j \in Jobs : attempts[j] <= MaxAttempts

\* "A worker crash does not permanently strand a job": as long as one worker
\* keeps running, every job that was queued ends and the queue is empty again,
\* whatever crashes, lost replies and outrun leases happen on the way.
EveryJobEnds ==
  []<>(\A j \in Jobs : status[j] \notin {"queued", "running"})

\* SIGTERM drains: a worker told to stop finishes its batch and exits instead
\* of claiming for ever.
StopDrains ==
  \A w \in Stoppable : stopping[w] ~> mode[w] \in {"exited", "dead"}

-------------------------------------------------------------------------------
(* The inductive invariant behind these properties (JobQueueProofs).       *)

\* A row is leased exactly while it is running.
RowShape ==
  \A j \in Jobs :
    /\ status[j] = "running" => owner[j] \in Workers /\ lease[j] # "none"
    /\ status[j] # "running" => owner[j] = NoWorker /\ lease[j] = "none"

\* Work in flight belongs to a working process and to an attempt begun.
TaskShape ==
  \A w \in Workers, j \in Jobs :
    phase[w][j] # "none" => mode[w] = "working" /\ token[w][j] \in 1..attempts[j]

\* An attempt commits its work at most once, and before it is reported.
EffectOnce ==
  /\ \A j \in Jobs : effects[j] \subseteq 1..attempts[j]
  /\ \A w \in Workers, j \in Jobs :
       /\ phase[w][j] = "executing" => token[w][j] \notin effects[j]
       /\ phase[w][j] = "reporting" => token[w][j] \in effects[j]

\* Where attempts stand against the bound, state of the row by state.
AttemptBudget ==
  \A j \in Jobs :
    /\ attempts[j] <= MaxAttempts + lapsed[j]
    /\ status[j] \in {"absent", "queued"} => attempts[j] < MaxAttempts
    /\ lease[j] = "expired" => attempts[j] < MaxAttempts + lapsed[j]

IInv ==
  /\ TypeOK /\ RowShape /\ TaskShape /\ OwnerFence
  /\ EffectOnce /\ SuccessHasEffect /\ AttemptBudget

-------------------------------------------------------------------------------
\* The queue implements the lifecycle promised to the tenant.
Lifecycle == INSTANCE JobLifecycle WITH state <- status, tries <- attempts, done <- effects
ImplementsLifecycle == Lifecycle!Spec
===============================================================================
