----------------------------- MODULE WebhookReplay -----------------------------
(***************************************************************************)
(* Once-only processing of signed webhook deliveries: the timestamp window *)
(* of src/alerts/webhook-signature.ts, the receipt that ingest inserts     *)
(* (src/alerts/alertmanager-service.ts) and the pruning of receipts        *)
(* (migrations/007_webhook_receipt_retention.sql), against one clock.      *)
(*                                                                         *)
(* A relay that gets no answer sends the same signed bytes again, so the   *)
(* requests of a nonce may overlap and come late.  A receipt commits with  *)
(* the alerts, and its unique key makes concurrent inserts wait: the       *)
(* insert and the commit are one step.                                     *)
(***************************************************************************)
EXTENDS Naturals

CONSTANTS
  Nonces,     \* the deliveries the relay has signed
  Stamp,      \* Stamp[n]: the X-MetricOps-Timestamp of delivery n
  Requests,   \* HTTP requests that carry them
  NonceOf,    \* NonceOf[r]
  Window,     \* 300 seconds
  Retention,  \* p_retention, 24 hours in maintenance.ts
  MaxDelay,   \* from the check of the timestamp to the commit of the receipt
  MaxClock    \* bound: the last instant of the clock

\* What the proofs ask of the constants; ApiServer assumes it.
ReplayAssumption ==
  /\ Stamp \in [Nonces -> Nat]
  /\ NonceOf \in [Requests -> Nonces]
  /\ Window \in Nat /\ Retention \in Nat /\ MaxDelay \in Nat /\ MaxClock \in Nat

VARIABLES
  now,       \* the clock
  pc,        \* "idle", "checked", "begun", "processed", "replayed", "refused"
  checkedAt, \* when the timestamp of a request in progress was checked
  begunAt,   \* when its last transaction began: now() of its statements
  stored,    \* nonces with a row in webhook_receipts
  receivedAt \* received_at of that row

vars == <<now, pc, checkedAt, begunAt, stored, receivedAt>>

PCs == {"idle", "checked", "begun", "processed", "replayed", "refused"}

Init ==
  /\ now        = 0
  /\ pc         = [r \in Requests |-> "idle"]
  /\ checkedAt  = [r \in Requests |-> 0]
  /\ begunAt    = [r \in Requests |-> 0]
  /\ stored     = {}
  /\ receivedAt = [n \in Nonces |-> 0]

Pending(r) == pc[r] \in {"checked", "begun"}

\* A request in progress is answered within MaxDelay: the timeouts of the
\* server and of the database pool.
Tick ==
  /\ now < MaxClock
  /\ \A r \in Requests : Pending(r) => now < checkedAt[r] + MaxDelay
  /\ now' = now + 1
  /\ UNCHANGED <<pc, checkedAt, begunAt, stored, receivedAt>>

\* Math.abs(now - timestamp) <= 300.  The clock is that of the API; received_at
\* is of the clock of PostgreSQL.  Stamp is counted by the latter: a difference
\* of the two moves the whole window, and leaves it 2 * Window wide.
Fresh(r) ==
  /\ now <= Stamp[NonceOf[r]] + Window
  /\ Stamp[NonceOf[r]] <= now + Window

\* parseWebhookEnvelope and what follows up to the last transaction.
Check(r) ==
  /\ pc[r] = "idle"
  /\ pc' = [pc EXCEPT ![r] = IF Fresh(r) THEN "checked" ELSE "refused"]
  /\ checkedAt' = [checkedAt EXCEPT ![r] = IF Fresh(r) THEN now ELSE 0]
  /\ UNCHANGED <<now, begunAt, stored, receivedAt>>

Begin(r) ==
  /\ pc[r] = "checked"
  /\ pc' = [pc EXCEPT ![r] = "begun"]
  /\ begunAt' = [begunAt EXCEPT ![r] = now]
  /\ UNCHANGED <<now, checkedAt, stored, receivedAt>>

End(r, how) ==
  /\ pc' = [pc EXCEPT ![r] = how]
  /\ checkedAt' = [checkedAt EXCEPT ![r] = 0]
  /\ begunAt' = [begunAt EXCEPT ![r] = 0]

\* The receipt is new: the alerts are processed and everything commits.
Process(r) ==
  /\ pc[r] = "begun" /\ NonceOf[r] \notin stored
  /\ End(r, "processed")
  /\ stored' = stored \cup {NonceOf[r]}
  /\ receivedAt' = [receivedAt EXCEPT ![NonceOf[r]] = begunAt[r]]
  /\ UNCHANGED now

\* ON CONFLICT DO NOTHING inserted no row: WEBHOOK_REPLAYED.
Replayed(r) ==
  /\ pc[r] = "begun" /\ NonceOf[r] \in stored
  /\ End(r, "replayed")
  /\ UNCHANGED <<now, stored, receivedAt>>

\* Mutant of Refuse: the receipt is committed before the alerts are processed.
RefuseKeepsReceipt(r) ==
  /\ pc[r] = "begun"
  /\ End(r, "refused")
  /\ stored' = stored \cup {NonceOf[r]}
  /\ receivedAt' = [receivedAt EXCEPT ![NonceOf[r]] = begunAt[r]]
  /\ UNCHANGED now

\* Invalid secret, signature or payload, or a rollback: no receipt is left.
Refuse(r) ==
  /\ Pending(r)
  /\ End(r, "refused")
  /\ UNCHANGED <<now, stored, receivedAt>>

\* The process ends: PostgreSQL rolls back the transactions it had open.
Die ==
  /\ pc' = [r \in Requests |-> IF Pending(r) THEN "refused" ELSE pc[r]]
  /\ checkedAt' = [r \in Requests |-> 0] /\ begunAt' = [r \in Requests |-> 0]
  /\ UNCHANGED <<now, stored, receivedAt>>

\* Mutant of Prunable: a receipt is deleted an instant too early.
PrunableEarly(n) == receivedAt[n] + Retention <= now

\* received_at < clock_timestamp() - p_retention
Prunable(n) == receivedAt[n] + Retention < now

Prune(n) ==
  /\ n \in stored /\ Prunable(n)
  /\ stored' = stored \ {n}
  /\ UNCHANGED <<now, pc, checkedAt, begunAt, receivedAt>>

Next ==
  \/ Tick \/ Die
  \/ \E r \in Requests : Check(r) \/ Begin(r) \/ Process(r) \/ Replayed(r) \/ Refuse(r)
  \/ \E n \in Nonces : Prune(n)

Spec == Init /\ [][Next]_vars

-------------------------------------------------------------------------------
(* Properties.                                                             *)

TypeOK ==
  /\ now        \in Nat
  /\ pc         \in [Requests -> PCs]
  /\ checkedAt  \in [Requests -> Nat]
  /\ begunAt    \in [Requests -> Nat]
  /\ stored     \in SUBSET Nonces
  /\ receivedAt \in [Nonces -> Nat]

\* "Stores each nonce once", and "the timestamp window still prevents a
\* captured delivery from being accepted after its receipt is pruned": no
\* delivery is processed by two requests.
ProcessedOnce ==
  \A q, r \in Requests :
    pc[q] = "processed" /\ pc[r] = "processed" /\ NonceOf[q] = NonceOf[r] => q = r

\* A delivery is only called a replay when it was processed: a request that
\* was rolled back never makes its retry a duplicate.
ReplayWasProcessed ==
  \A r \in Requests : pc[r] = "replayed" =>
    \E q \in Requests : pc[q] = "processed" /\ NonceOf[q] = NonceOf[r]

-------------------------------------------------------------------------------
(* The inductive invariant behind these properties (ApiServerProofs).  *)

\* What a request in progress says of the clock.
RequestShape ==
  \A r \in Requests :
    /\ Pending(r) =>
         /\ Stamp[NonceOf[r]] <= checkedAt[r] + Window
         /\ checkedAt[r] <= Stamp[NonceOf[r]] + Window
         /\ checkedAt[r] <= now /\ now <= checkedAt[r] + MaxDelay
    /\ pc[r] = "begun" => checkedAt[r] <= begunAt[r] /\ begunAt[r] <= now

\* A receipt is younger than the opening of the window of its timestamp, and
\* belongs to a processed delivery.
ReceiptShape ==
  \A n \in stored :
    /\ Stamp[n] <= receivedAt[n] + Window
    /\ \E q \in Requests : pc[q] = "processed" /\ NonceOf[q] = n

\* Once a receipt is pruned, every request that passed the check is over.
PrunedIsStale ==
  \A r \in Requests :
    pc[r] = "processed" /\ NonceOf[r] \notin stored
    => Stamp[NonceOf[r]] + Window + MaxDelay < now

IInv ==
  /\ TypeOK /\ RequestShape /\ ReceiptShape /\ PrunedIsStale
  /\ ProcessedOnce /\ ReplayWasProcessed
===============================================================================
