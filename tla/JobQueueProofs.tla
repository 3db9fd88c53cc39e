---------------------------- MODULE JobQueueProofs ----------------------------
(***************************************************************************)
(* Proofs about JobQueue, for every set of jobs and workers, every batch   *)
(* size and retry bound, and any number of faults.                         *)
(***************************************************************************)
EXTENDS JobQueue, FiniteSetTheorems, TLAPS

USE QueueAssumption

\* The initial tables and processes are well typed.
LEMMA TypeInit == Init => TypeOK
  BY DEF Init, TypeOK, Statuses, Ended, Modes, Phases

\* Every step keeps the types of the table and of the processes.
LEMMA TypeNext == TypeOK /\ [Next]_vars => TypeOK'
  <1> USE DEF TypeOK, Statuses, Ended, Modes, Phases, rowVars, workerVars
  <1> SUFFICES ASSUME TypeOK, [Next]_vars PROVE TypeOK'
    OBVIOUS
  <1>1. ASSUME NEW j \in Jobs, Environment(j) PROVE TypeOK'
    <2>1. CASE Enqueue(j)            BY <2>1 DEF Enqueue
    <2>2. CASE BackoffElapses(j)     BY <2>2 DEF BackoffElapses
    <2>3. CASE OrphanLeaseExpires(j) BY <2>3 DEF OrphanLeaseExpires, LeaseLapses
    <2>4. CASE LeaseOutrun(j)        BY <2>4 DEF LeaseOutrun, LeaseLapses, Fault
    <2>5. CASE Prune(j)              BY <2>5 DEF Prune
    <2>6. QED BY <1>1, <2>1, <2>2, <2>3, <2>4, <2>5 DEF Environment
  <1>2. ASSUME NEW w \in Workers, Loop(w) PROVE TypeOK'
    <2>1. CASE Start(w)        BY <2>1 DEF Start, Goto
    <2>2. CASE Poll(w)         BY <2>2 DEF Poll, Goto
    <2>3. CASE Exit(w)         BY <2>3 DEF Exit, Goto
    <2>4. CASE ClaimNothing(w) BY <2>4 DEF ClaimNothing, Goto
    <2>5. CASE BatchSettles(w) BY <2>5 DEF BatchSettles, Goto
    <2>6. ASSUME NEW S \in Batches, Claim(w, S) PROVE TypeOK'
      BY <2>6 DEF Claim, ClaimRows, Goto
    <2>7. QED BY <1>2, <2>1, <2>2, <2>3, <2>4, <2>5, <2>6 DEF Loop
  <1>3. ASSUME NEW w \in Workers, Disturb(w) PROVE TypeOK'
    <2>1. CASE Sigterm(w) BY <2>1 DEF Sigterm
    <2>2. CASE Crash(w)   BY <2>2 DEF Crash, Goto, Fault
    <2>3. ASSUME NEW S \in Batches, ClaimReplyLost(w, S) PROVE TypeOK'
      BY <2>3 DEF ClaimReplyLost, ClaimRows, Goto, Fault
    <2>4. ASSUME NEW j \in Jobs, FinishAborts(w, j) PROVE TypeOK'
      BY <2>4 DEF FinishAborts, Settle, Advance, Fault
    <2>5. QED BY <1>3, <2>1, <2>2, <2>3, <2>4 DEF Disturb
  <1>4. ASSUME NEW w \in Workers, NEW j \in Jobs, Task(w, j) PROVE TypeOK'
    <2> USE DEF Advance, Settle
    <2>1. CASE Execute(w, j)         BY <2>1 DEF Execute, CommitEffect
    <2>2. CASE ExecuteThrows(w, j)
      <3>1. effects' \in [Jobs -> SUBSET Nat]
        <4>1. CASE CommitEffect(w, j)
          <5>1. token[w][j] \in Nat
            OBVIOUS
          <5>2. QED BY <4>1, <5>1 DEF CommitEffect
        <4>2. CASE UNCHANGED effects
          BY <4>2
        <4>3. QED BY <2>2, <4>1, <4>2 DEF ExecuteThrows
      <3>2. phase' \in [Workers -> [Jobs -> Phases]]
        BY <2>2 DEF ExecuteThrows
      <3>3. UNCHANGED <<rowVars, mode, stopping, token, lapsed, faults>>
        BY <2>2 DEF ExecuteThrows
      <3>4. QED BY <3>1, <3>2, <3>3
    <2>3. CASE FinishSucceeds(w, j)  BY <2>3 DEF FinishSucceeds, SucceedRow, ReleaseRow
    <2>4. CASE FinishReplyLost(w, j) BY <2>4 DEF FinishReplyLost, SucceedRow, ReleaseRow
    <2>5. CASE FinishThrows(w, j)    BY <2>5 DEF FinishThrows
    <2>6. CASE FinishFails(w, j)     BY <2>6 DEF FinishFails, FailRow, ReleaseRow
    <2>7. CASE FinishIgnored(w, j)   BY <2>7 DEF FinishIgnored
    <2>8. QED BY <1>4, <2>1, <2>2, <2>3, <2>4, <2>5, <2>6, <2>7 DEF Task
  <1>5. CASE UNCHANGED vars BY <1>5 DEF vars
  <1>6. QED BY <1>1, <1>2, <1>3, <1>4, <1>5 DEF Next

\* Type correctness of the queue: every row and process stays within the states
\* the schema and worker.ts know.
THEOREM TypeCorrect == Spec => []TypeOK
  BY TypeInit, TypeNext, PTL DEF Spec

\* An empty table and unstarted workers satisfy the inductive invariant.
LEMMA InvInit == Init => IInv
  BY TypeInit DEF Init, IInv, RowShape, TaskShape, OwnerFence, FinishMatches,
     EffectOnce, SuccessHasEffect, AttemptBudget

\* The control plane, the clock and pruning keep the invariant.
LEMMA InvEnvironment ==
  ASSUME IInv, TypeOK', NEW j \in Jobs, Environment(j)
  PROVE  IInv'
  <1> USE DEF IInv, TypeOK, RowShape, TaskShape, OwnerFence, FinishMatches,
        EffectOnce, SuccessHasEffect, AttemptBudget, workerVars, Ended
  <1>1. CASE Enqueue(j)            BY <1>1 DEF Enqueue
  <1>2. CASE BackoffElapses(j)     BY <1>2 DEF BackoffElapses
  <1>3. CASE OrphanLeaseExpires(j) BY <1>3 DEF OrphanLeaseExpires, LeaseLapses
  <1>4. CASE LeaseOutrun(j)        BY <1>4 DEF LeaseOutrun, LeaseLapses
  <1>5. CASE Prune(j)              BY <1>5 DEF Prune
  <1>6. QED BY <1>1, <1>2, <1>3, <1>4, <1>5 DEF Environment

\* The loop of a worker keeps the invariant; its claim is the only hard case.
LEMMA InvLoop ==
  ASSUME IInv, TypeOK', NEW w \in Workers, Loop(w)
  PROVE  IInv'
  <1> USE DEF IInv, TypeOK, RowShape, TaskShape, OwnerFence, FinishMatches,
        EffectOnce, SuccessHasEffect, AttemptBudget, rowVars, Goto
  <1>1. CASE Start(w)        BY <1>1 DEF Start
  <1>2. CASE Poll(w)         BY <1>2 DEF Poll
  <1>3. CASE Exit(w)         BY <1>3 DEF Exit
  <1>4. CASE ClaimNothing(w) BY <1>4 DEF ClaimNothing
  <1>5. CASE BatchSettles(w) BY <1>5 DEF BatchSettles, Idle
  <1>6. ASSUME NEW S \in Batches, Claim(w, S) PROVE IInv'
      BY <1>6 DEF Claim, ClaimRows, Batches, Claimable
  <1>7. QED BY <1>1, <1>2, <1>3, <1>4, <1>5, <1>6 DEF Loop

\* Signals, crashes, lost claims and aborted reports keep the invariant.
LEMMA InvDisturb ==
  ASSUME IInv, TypeOK', NEW w \in Workers, Disturb(w)
  PROVE  IInv'
  <1> USE DEF IInv, TypeOK, RowShape, TaskShape, OwnerFence, FinishMatches,
        EffectOnce, SuccessHasEffect, AttemptBudget, rowVars, Goto
  <1>1. CASE Sigterm(w) BY <1>1 DEF Sigterm
  <1>2. CASE Crash(w)   BY <1>2 DEF Crash
  <1>3. ASSUME NEW S \in Batches, ClaimReplyLost(w, S) PROVE IInv'
    BY <1>3 DEF ClaimReplyLost, ClaimRows, Batches, Claimable
  <1>4. ASSUME NEW j \in Jobs, FinishAborts(w, j) PROVE IInv'
    BY <1>4 DEF FinishAborts, Settle, Advance
  <1>5. QED BY <1>1, <1>2, <1>3, <1>4 DEF Disturb

\* Every step of processJob keeps the invariant.
LEMMA InvTask ==
  ASSUME IInv, TypeOK', NEW w \in Workers, NEW j \in Jobs, Task(w, j)
  PROVE  IInv'
  <1> USE DEF IInv, TypeOK, RowShape, TaskShape, OwnerFence, FinishMatches,
        EffectOnce, SuccessHasEffect, AttemptBudget, rowVars,
        Advance, Settle
  <1>1. CASE Execute(w, j)         BY <1>1 DEF Execute, CommitEffect
  <1>2. CASE ExecuteThrows(w, j)
    <2>1. CASE CommitEffect(w, j)  BY <1>2, <2>1 DEF ExecuteThrows, CommitEffect
    <2>2. CASE UNCHANGED effects   BY <1>2, <2>2 DEF ExecuteThrows
    <2>3. QED BY <1>2, <2>1, <2>2 DEF ExecuteThrows
  <1>3. CASE FinishSucceeds(w, j)  BY <1>3 DEF FinishSucceeds, SucceedRow, ReleaseRow
  <1>4. CASE FinishReplyLost(w, j) BY <1>4 DEF FinishReplyLost, SucceedRow, ReleaseRow
  <1>5. CASE FinishThrows(w, j)    BY <1>5 DEF FinishThrows
  <1>6. CASE FinishFails(w, j)
    <2>1. CASE attempts[j] >= MaxAttempts
      BY <1>6, <2>1 DEF FinishFails, FailRow, ReleaseRow
    <2>2. CASE ~(attempts[j] >= MaxAttempts)
      <3>1. attempts[j] < MaxAttempts
        BY <2>2
      <3>2. /\ status' = [status EXCEPT ![j] = "queued"]
            /\ owner' = [owner EXCEPT ![j] = NoWorker]
            /\ lease' = [lease EXCEPT ![j] = "none"]
            /\ UNCHANGED <<attempts, mode, effects, lapsed>>
            /\ phase' = [phase EXCEPT ![w][j] = "none"]
            /\ token' = [token EXCEPT ![w][j] = 0]
        BY <1>6, <2>2 DEF FinishFails, FailRow, ReleaseRow
      <3>3. QED BY <3>1, <3>2
    <2>3. QED BY <2>1, <2>2
  <1>7. CASE FinishIgnored(w, j)   BY <1>7 DEF FinishIgnored
  <1>8. QED BY <1>1, <1>2, <1>3, <1>4, <1>5, <1>6, <1>7 DEF Task

\* The inductive invariant of the queue holds in every reachable state.
THEOREM InvCorrect == Spec => []IInv
  <1>1. IInv /\ [Next]_vars => IInv'
    <2> SUFFICES ASSUME IInv, [Next]_vars PROVE IInv'
      OBVIOUS
    <2>1. TypeOK'
      BY TypeNext DEF IInv
    <2>2. CASE UNCHANGED vars
      BY <2>2 DEF vars, rowVars, workerVars, IInv, TypeOK, RowShape, TaskShape, OwnerFence,
         FinishMatches, EffectOnce, SuccessHasEffect, AttemptBudget
    <2>3. QED
      BY <2>1, <2>2, InvEnvironment, InvLoop, InvDisturb, InvTask DEF Next
  <1>2. QED BY <1>1, InvInit, PTL DEF Spec

\* A worker that owns a running job executes the attempt in the row, although
\* finish compares the owner alone.
THEOREM OwnerFenceCorrect == Spec => []OwnerFence
  BY InvCorrect, PTL DEF IInv

\* No job is shown as succeeded whose last attempt did not commit its work.
THEOREM SuccessIsReal == Spec => []SuccessHasEffect
  BY InvCorrect, PTL DEF IInv

\* Attempts exceed max_attempts by no more than the number of lost leases.
THEOREM AttemptsBoundedCorrect == Spec => []AttemptsBounded
  <1>1. IInv => AttemptsBounded
    BY DEF IInv, AttemptBudget, AttemptsBounded
  <1>2. QED BY <1>1, InvCorrect, PTL

-------------------------------------------------------------------------------
(* What only a lapsed lease can do.                                        *)

\* While no lease on a job has run out, one worker at most has a record of it,
\* as the owner of the row or after the row ended.
SoleWorker ==
  \A j \in Jobs : lapsed[j] = 0 =>
    /\ \A w \in Workers : phase[w][j] # "none" =>
         owner[j] = w \/ status[j] \in Ended \cup {"pruned"}
    /\ \A v, w \in Workers : phase[v][j] # "none" /\ phase[w][j] # "none" => v = w

\* An expired lease is one that lapsed.
ExpiredLapsed == \A j \in Jobs : lease[j] = "expired" => lapsed[j] > 0

\* Rows are taken over only after their lease has lapsed.
LEMMA SoleClaim ==
  ASSUME IInv, SoleWorker, ExpiredLapsed, NEW w \in Workers,
         NEW S \in Batches, ClaimRows(w, S), UNCHANGED lapsed,
         \A v \in Workers, j \in Jobs : phase'[v][j] = phase[v][j] \/ (v = w /\ j \in S)
  PROVE  SoleWorker' /\ ExpiredLapsed'
<1> USE DEF IInv, TypeOK, Statuses, Ended
<1>1. S \subseteq Jobs
  BY DEF Batches
<1>2. ASSUME NEW j \in S, lapsed[j] = 0, NEW v \in Workers PROVE phase[v][j] = "none"
  <2>1. status[j] = "queued"
    BY <1>1, <1>2 DEF Batches, Claimable, ExpiredLapsed
  <2>2. owner[j] = NoWorker
    BY <1>1, <2>1 DEF RowShape
  <2> QED BY <1>1, <1>2, <2>1, <2>2 DEF SoleWorker
<1>3. ASSUME NEW j \in Jobs, lapsed[j] = 0, j \notin S, NEW v \in Workers
      PROVE  phase'[v][j] = phase[v][j] /\ owner'[j] = owner[j] /\ status'[j] = status[j]
  BY <1>3 DEF ClaimRows
<1>4. ASSUME NEW j \in S, lapsed[j] = 0, NEW v \in Workers, phase'[v][j] # "none"
      PROVE  v = w /\ owner'[j] = w
  <2>1. v = w
    BY <1>1, <1>2, <1>4
  <2> QED BY <1>1, <2>1 DEF ClaimRows
<1>5. ASSUME NEW j \in Jobs, lapsed'[j] = 0
      PROVE  /\ \A v \in Workers : phase'[v][j] # "none" =>
                  owner'[j] = v \/ status'[j] \in Ended \cup {"pruned"}
             /\ \A u, v \in Workers : phase'[u][j] # "none" /\ phase'[v][j] # "none" => u = v
  <2>1. lapsed[j] = 0
    BY <1>5
  <2>2. CASE j \in S
    BY <1>4, <2>1, <2>2
  <2>3. CASE j \notin S
    BY <1>3, <2>1, <2>3 DEF SoleWorker
  <2> QED BY <2>2, <2>3
<1>6. ExpiredLapsed'
  BY DEF ClaimRows, ExpiredLapsed
<1> QED BY <1>5, <1>6 DEF SoleWorker

\* Every step leaves a job with one worker until its lease lapses.
LEMMA SoleStep ==
  IInv /\ SoleWorker /\ ExpiredLapsed /\ [Next]_vars => SoleWorker' /\ ExpiredLapsed'
<1> SUFFICES ASSUME IInv, SoleWorker, ExpiredLapsed, [Next]_vars
             PROVE  SoleWorker' /\ ExpiredLapsed'
  OBVIOUS
<1> USE DEF IInv, TypeOK, Statuses, Ended, SoleWorker, ExpiredLapsed, rowVars, workerVars
<1>1. CASE UNCHANGED vars
  BY <1>1 DEF vars
<1>2. ASSUME NEW j \in Jobs, Environment(j) PROVE SoleWorker' /\ ExpiredLapsed'
  <2>1. CASE Enqueue(j)            BY <2>1 DEF Enqueue
  <2>2. CASE BackoffElapses(j)     BY <2>2 DEF BackoffElapses
  <2>3. CASE OrphanLeaseExpires(j) BY <2>3 DEF OrphanLeaseExpires, LeaseLapses
  <2>4. CASE LeaseOutrun(j)        BY <2>4 DEF LeaseOutrun, LeaseLapses
  <2>5. CASE Prune(j)              BY <2>5 DEF Prune
  <2> QED BY <1>2, <2>1, <2>2, <2>3, <2>4, <2>5 DEF Environment
<1>3. ASSUME NEW w \in Workers, Loop(w) \/ Disturb(w) PROVE SoleWorker' /\ ExpiredLapsed'
  <2>1. ASSUME NEW S \in Batches, Claim(w, S) \/ ClaimReplyLost(w, S)
        PROVE  SoleWorker' /\ ExpiredLapsed'
    <3>1. \A v \in Workers, j \in Jobs : phase'[v][j] = phase[v][j] \/ (v = w /\ j \in S)
      BY <2>1 DEF Claim, ClaimReplyLost
    <3>2. ClaimRows(w, S) /\ UNCHANGED lapsed
      BY <2>1 DEF Claim, ClaimReplyLost
    <3> QED BY <3>1, <3>2, SoleClaim
  <2>2. CASE Crash(w)
    BY <2>2 DEF Crash
  <2>3. ASSUME NEW j \in Jobs, FinishAborts(w, j) PROVE SoleWorker' /\ ExpiredLapsed'
    BY <2>3 DEF FinishAborts, Settle, Advance
  <2>4. CASE Start(w) \/ Poll(w) \/ Exit(w) \/ ClaimNothing(w) \/ BatchSettles(w) \/ Sigterm(w)
    BY <2>4 DEF Start, Poll, Exit, ClaimNothing, BatchSettles, Sigterm
  <2> QED BY <1>3, <2>1, <2>2, <2>3, <2>4 DEF Loop, Disturb
<1>4. ASSUME NEW w \in Workers, NEW j \in Jobs, Task(w, j) PROVE SoleWorker' /\ ExpiredLapsed'
  <2> USE DEF Advance, Settle
  <2>1. CASE Execute(w, j) \/ ExecuteThrows(w, j) \/ FinishThrows(w, j) \/ FinishIgnored(w, j)
    <3>1. /\ UNCHANGED <<status, owner, lease, lapsed>>
          /\ \E p \in {"reporting", "failing", "none"} : phase' = [phase EXCEPT ![w][j] = p]
          /\ phase[w][j] # "none"
      BY <2>1 DEF Execute, ExecuteThrows, FinishThrows, FinishIgnored
    <3> QED BY <3>1
  <2>2. CASE FinishSucceeds(w, j) \/ FinishReplyLost(w, j)
    <3>1. /\ status' = [status EXCEPT ![j] = "succeeded"]
          /\ owner' = [owner EXCEPT ![j] = NoWorker]
          /\ lease' = [lease EXCEPT ![j] = "none"]
          /\ \E p \in {"failing", "none"} : phase' = [phase EXCEPT ![w][j] = p]
          /\ UNCHANGED lapsed
          /\ phase[w][j] = "reporting"
      BY <2>2 DEF FinishSucceeds, FinishReplyLost, SucceedRow, ReleaseRow
    <3> QED BY <3>1
  <2>3. CASE FinishFails(w, j)
    <3>1. /\ \E s \in {"queued", "failed"} : status' = [status EXCEPT ![j] = s]
          /\ owner' = [owner EXCEPT ![j] = NoWorker]
          /\ lease' = [lease EXCEPT ![j] = "none"]
          /\ phase' = [phase EXCEPT ![w][j] = "none"]
          /\ UNCHANGED lapsed
          /\ phase[w][j] = "failing" /\ status[j] = "running" /\ owner[j] = w
      BY <2>3 DEF FinishFails, FinishMatches, FailRow, ReleaseRow
    <3> QED BY <3>1
  <2> QED BY <1>4, <2>1, <2>2, <2>3 DEF Task
<1> QED BY <1>1, <1>2, <1>3, <1>4 DEF Next

\* Lost replies, failed statements, crashes and retries never give a job to two
\* workers at once: it takes a lease that ran out.
THEOREM SoleWorkerCorrect == Spec => []SoleWorker
<1>1. Init => SoleWorker /\ ExpiredLapsed
  BY DEF Init, SoleWorker, ExpiredLapsed
<1> QED BY <1>1, SoleStep, InvCorrect, PTL DEF Spec

\* At least once, and how often at most: the work of a job is committed no more
\* than max_attempts times and once for each lease that ran out.
WorkBounded == \A j \in Jobs : Cardinality(effects[j]) <= MaxAttempts + lapsed[j]

\* The committed work of a job stays within its attempts and its lapsed leases.
THEOREM WorkBoundedCorrect == Spec => []WorkBounded
<1>1. IInv => WorkBounded
  <2> SUFFICES ASSUME IInv, NEW j \in Jobs
               PROVE  Cardinality(effects[j]) <= MaxAttempts + lapsed[j]
    BY DEF WorkBounded
  <2>1. attempts[j] \in Nat /\ lapsed[j] \in Nat /\ attempts[j] <= MaxAttempts + lapsed[j]
    BY DEF IInv, TypeOK, AttemptBudget
  <2>2. effects[j] \subseteq 1..attempts[j]
    BY DEF IInv, EffectOnce
  <2>3. IsFiniteSet(1..attempts[j]) /\ Cardinality(1..attempts[j]) = attempts[j]
    <3>1. 1 \in Int /\ attempts[j] \in Int
      BY <2>1
    <3>2. /\ IsFiniteSet(1..attempts[j])
          /\ Cardinality(1..attempts[j]) = IF 1 > attempts[j] THEN 0 ELSE attempts[j] - 1 + 1
      BY <3>1, FS_Interval, Zenon
    <3> QED BY <2>1, <3>2
  <2>4. /\ IsFiniteSet(effects[j])
        /\ Cardinality(effects[j]) <= attempts[j]
    BY <2>2, <2>3, FS_Subset
  <2>5. Cardinality(effects[j]) \in Nat
    BY <2>4, FS_CardinalityType
  <2> QED BY <2>1, <2>4, <2>5
<1> QED BY <1>1, InvCorrect, PTL

-------------------------------------------------------------------------------
(* Refinement: every step of the queue is one of JobLifecycle, or leaves   *)
(* what the tenant sees unchanged.                                         *)

\* What happens around the workers is a submission, a removal or a stutter.
LEMMA EnvironmentStep ==
  ASSUME IInv, NEW j \in Jobs, Environment(j)
  PROVE  [Lifecycle!Next]_(Lifecycle!vars)
  <1>1. CASE Enqueue(j)
    <2>1. Lifecycle!Submit(j)
      BY <1>1 DEF Enqueue, Lifecycle!Submit
    <2>2. QED BY <2>1 DEF Lifecycle!Next
  <1>2. CASE BackoffElapses(j)     BY <1>2 DEF BackoffElapses, Lifecycle!vars
  <1>3. CASE OrphanLeaseExpires(j)
    BY <1>3 DEF OrphanLeaseExpires, LeaseLapses, Lifecycle!vars
  <1>4. CASE LeaseOutrun(j)        BY <1>4 DEF LeaseOutrun, LeaseLapses, Lifecycle!vars
  <1>5. CASE Prune(j)
    <2>1. Lifecycle!Forget(j)
      BY <1>5 DEF Prune, Ended, Lifecycle!Forget, Lifecycle!Ended
    <2>2. QED BY <2>1 DEF Lifecycle!Next
  <1>6. QED BY <1>1, <1>2, <1>3, <1>4, <1>5 DEF Environment

\* A claim that commits begins one attempt of each job of its batch.
LEMMA ClaimStep ==
  ASSUME NEW w \in Workers, NEW S \in Batches, ClaimRows(w, S), UNCHANGED effects
  PROVE  [Lifecycle!Next]_(Lifecycle!vars)
  <1>1. S \in SUBSET Jobs
    BY DEF Batches
  <1>2. Lifecycle!Begin(S)
    BY <1>1 DEF ClaimRows, Batches, Claimable, Lifecycle!Begin
  <1>3. QED BY <1>1, <1>2 DEF Lifecycle!Next

\* The loop of a worker claims or stutters.
LEMMA LoopStep ==
  ASSUME IInv, NEW w \in Workers, Loop(w)
  PROVE  [Lifecycle!Next]_(Lifecycle!vars)
  <1>1. ASSUME NEW S \in Batches, Claim(w, S)
        PROVE  [Lifecycle!Next]_(Lifecycle!vars)
    BY <1>1, ClaimStep DEF Claim
  <1>2. QED
    BY <1>1 DEF Loop, Start, Poll, Exit, ClaimNothing, BatchSettles, rowVars, Lifecycle!vars

\* The commit of the work of an execution in flight, the first of its attempt.
LEMMA EffectStep ==
  ASSUME IInv, NEW w \in Workers, NEW j \in Jobs, phase[w][j] = "executing",
         CommitEffect(w, j), UNCHANGED <<status, attempts>>
  PROVE  Lifecycle!Next
  <1>1. token[w][j] \in 1..attempts[j] /\ token[w][j] \notin effects[j]
    BY DEF IInv, TaskShape, EffectOnce
  <1>2. Lifecycle!Perform(j, token[w][j])
    BY <1>1 DEF CommitEffect, Lifecycle!Perform
  <1>3. QED BY <1>1, <1>2 DEF Lifecycle!Next

\* The success report of the worker that owns the row.
LEMMA SucceedStep ==
  ASSUME IInv, NEW w \in Workers, NEW j \in Jobs, phase[w][j] = "reporting",
         FinishMatches(w, j), SucceedRow(j), UNCHANGED effects
  PROVE  Lifecycle!Next
  <1>1. attempts[j] \in effects[j]
    BY DEF IInv, OwnerFence, EffectOnce
  <1>2. Lifecycle!Succeed(j)
    BY <1>1 DEF FinishMatches, SucceedRow, ReleaseRow, Lifecycle!Succeed
  <1>3. QED BY <1>2 DEF Lifecycle!Next

\* A step of processJob performs, ends or requeues its job, or stutters.
LEMMA TaskStep ==
  ASSUME IInv, NEW w \in Workers, NEW j \in Jobs, Task(w, j)
  PROVE  [Lifecycle!Next]_(Lifecycle!vars)
  <1>1. CASE Execute(w, j)
    BY <1>1, EffectStep DEF Execute, rowVars
  <1>2. CASE ExecuteThrows(w, j)
    BY <1>2, EffectStep DEF ExecuteThrows, rowVars, Lifecycle!vars
  <1>3. CASE FinishSucceeds(w, j)
    BY <1>3, SucceedStep DEF FinishSucceeds
  <1>4. CASE FinishReplyLost(w, j)
    BY <1>4, SucceedStep DEF FinishReplyLost
  <1>5. CASE FinishThrows(w, j)
    BY <1>5 DEF FinishThrows, rowVars, Lifecycle!vars
  <1>6. CASE FinishFails(w, j)
    <2>1. CASE attempts[j] >= MaxAttempts
      <3>1. Lifecycle!GiveUp(j)
        BY <1>6, <2>1 DEF FinishFails, FinishMatches, FailRow, ReleaseRow, Lifecycle!GiveUp
      <3>2. QED BY <3>1 DEF Lifecycle!Next
    <2>2. CASE ~(attempts[j] >= MaxAttempts)
      <3>1. attempts[j] < MaxAttempts
        BY <2>2 DEF IInv, TypeOK
      <3>2. Lifecycle!Retry(j)
        BY <1>6, <2>2, <3>1
        DEF FinishFails, FinishMatches, FailRow, ReleaseRow, Lifecycle!Retry
      <3>3. QED BY <3>2 DEF Lifecycle!Next
    <2>3. QED BY <2>1, <2>2
  <1>7. CASE FinishIgnored(w, j)
    BY <1>7 DEF FinishIgnored, rowVars, Lifecycle!vars
  <1>8. QED BY <1>1, <1>2, <1>3, <1>4, <1>5, <1>6, <1>7 DEF Task

\* A disturbance begins attempts nobody executes, or stutters.
LEMMA DisturbStep ==
  ASSUME IInv, NEW w \in Workers, Disturb(w)
  PROVE  [Lifecycle!Next]_(Lifecycle!vars)
  <1>1. ASSUME NEW S \in Batches, ClaimReplyLost(w, S)
        PROVE  [Lifecycle!Next]_(Lifecycle!vars)
    BY <1>1, ClaimStep DEF ClaimReplyLost
  <1>2. QED
    BY <1>1 DEF Disturb, Sigterm, Crash, FinishAborts, rowVars, Lifecycle!vars

\* The queue with its leases, workers and faults implements the lifecycle the
\* tenant was promised.
THEOREM LifecycleImplemented == Spec => ImplementsLifecycle
  <1>1. Init => Lifecycle!Init
    BY DEF Init, Lifecycle!Init
  <1>2. IInv /\ [Next]_vars => [Lifecycle!Next]_(Lifecycle!vars)
    <2> SUFFICES ASSUME IInv, [Next]_vars PROVE [Lifecycle!Next]_(Lifecycle!vars)
      OBVIOUS
    <2>1. CASE UNCHANGED vars
      BY <2>1 DEF vars, rowVars, Lifecycle!vars
    <2>2. QED
      BY <2>1, EnvironmentStep, LoopStep, TaskStep, DisturbStep DEF Next
  <1>3. QED
    BY <1>1, <1>2, InvCorrect, PTL DEF Spec, ImplementsLifecycle, Lifecycle!Spec

\* An ended job keeps its outcome until it is pruned, and a pruned one stays away.
EndedForGood ==
  [][\A j \in Jobs : status[j] \in Ended \cup {"pruned"} =>
       status'[j] \in {status[j], "pruned"}]_<<status, attempts, effects>>

\* A job is shown as failed only when its attempts are used up.
GivenUpLate == \A j \in Jobs : status[j] = "failed" => attempts[j] >= MaxAttempts

\* The lifecycle has no step out of an end; so neither has the queue, in which
\* workers that lost a job go on reporting.
THEOREM EndedForGoodCorrect == Spec => EndedForGood
  <1>1. TypeOK /\ Lifecycle!Next =>
          \A j \in Jobs : status[j] \in Ended \cup {"pruned"} =>
            status'[j] \in {status[j], "pruned"}
    BY DEF TypeOK, Ended, Lifecycle!Next, Lifecycle!Submit, Lifecycle!Begin, Lifecycle!Perform,
       Lifecycle!Succeed, Lifecycle!Retry, Lifecycle!GiveUp, Lifecycle!Forget, Lifecycle!Ended
  <1>2. QED
    BY <1>1, TypeCorrect, LifecycleImplemented, PTL
    DEF ImplementsLifecycle, Lifecycle!Spec, Lifecycle!vars, EndedForGood

\* The queue gives a job up only after max_attempts attempts, whatever failed.
THEOREM GivenUpLateCorrect == Spec => []GivenUpLate
  <1>1. Init => GivenUpLate
    BY DEF Init, GivenUpLate
  <1>2. TypeOK /\ GivenUpLate /\ [Lifecycle!Next]_(Lifecycle!vars) => GivenUpLate'
    BY DEF TypeOK, GivenUpLate, Lifecycle!Next, Lifecycle!Submit, Lifecycle!Begin,
       Lifecycle!Perform, Lifecycle!Succeed, Lifecycle!Retry, Lifecycle!GiveUp,
       Lifecycle!Forget, Lifecycle!Ended, Lifecycle!vars
  <1>3. QED
    BY <1>1, <1>2, TypeCorrect, LifecycleImplemented, PTL
    DEF Spec, ImplementsLifecycle, Lifecycle!Spec
===============================================================================
