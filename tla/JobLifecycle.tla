----------------------------- MODULE JobLifecycle -----------------------------
(***************************************************************************)
(* What the durable job queue promises to the tenant who queued a job,     *)
(* with no workers, leases, lost replies or crashes in sight.  A job is    *)
(* tried one attempt after another; every attempt performs its work at     *)
(* most once; the job is reported as succeeded only when the attempt on    *)
(* record performed its work, it is given up only when its attempts are    *)
(* used up, and an ended job never comes back.  JobQueue implements it.    *)
(***************************************************************************)
EXTENDS Naturals

CONSTANTS
  Jobs,        \* identifiers of the jobs that may be queued
  MaxAttempts  \* jobs.max_attempts

VARIABLES
  state,  \* what GET /jobs/{id} shows of each job
  tries,  \* the attempts started so far
  done    \* the attempts whose work has been committed

vars == <<state, tries, done>>

Ended == {"succeeded", "failed"}

Init ==
  /\ state = [j \in Jobs |-> "absent"]
  /\ tries = [j \in Jobs |-> 0]
  /\ done  = [j \in Jobs |-> {}]

Submit(j) ==
  /\ state[j] = "absent"
  /\ state' = [state EXCEPT ![j] = "queued"]
  /\ UNCHANGED <<tries, done>>

\* A worker takes a batch of jobs, waiting ones or ones another worker lost.
Begin(S) ==
  /\ \A j \in S : state[j] \in {"queued", "running"}
  /\ state' = [j \in Jobs |-> IF j \in S THEN "running" ELSE state[j]]
  /\ tries' = [j \in Jobs |-> IF j \in S THEN tries[j] + 1 ELSE tries[j]]
  /\ UNCHANGED done

\* The work of attempt a is committed, once, possibly by a worker that has
\* lost the job since.
Perform(j, a) ==
  /\ a \in 1..tries[j]
  /\ a \notin done[j]
  /\ done' = [done EXCEPT ![j] = @ \cup {a}]
  /\ UNCHANGED <<state, tries>>

Succeed(j) ==
  /\ state[j] = "running"
  /\ tries[j] \in done[j]
  /\ state' = [state EXCEPT ![j] = "succeeded"]
  /\ UNCHANGED <<tries, done>>

Retry(j) ==
  /\ state[j] = "running"
  /\ tries[j] < MaxAttempts
  /\ state' = [state EXCEPT ![j] = "queued"]
  /\ UNCHANGED <<tries, done>>

GiveUp(j) ==
  /\ state[j] = "running"
  /\ tries[j] >= MaxAttempts
  /\ state' = [state EXCEPT ![j] = "failed"]
  /\ UNCHANGED <<tries, done>>

Forget(j) ==
  /\ state[j] \in Ended
  /\ state' = [state EXCEPT ![j] = "pruned"]
  /\ UNCHANGED <<tries, done>>

Next ==
  \/ \E j \in Jobs : Submit(j) \/ Succeed(j) \/ Retry(j) \/ GiveUp(j) \/ Forget(j)
  \/ \E S \in SUBSET Jobs : Begin(S)
  \/ \E j \in Jobs : \E a \in 1..tries[j] : Perform(j, a)

Spec == Init /\ [][Next]_vars
===============================================================================
