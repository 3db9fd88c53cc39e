--------------------------- MODULE IdempotentIntake ---------------------------
(***************************************************************************)
(* What an Idempotency-Key does for the requests that add a row:           *)
(* ConnectionService.create and ResourceService.create, which keep a       *)
(* record for 24 hours, and the two enqueue operations of JobService,      *)
(* where the job is its own record until it is pruned.                     *)
(*                                                                         *)
(* A request looks its key up and stores row, audit event and record in    *)
(* one transaction.  Under READ COMMITTED nothing keeps two transactions   *)
(* from both finding nothing; the unique indexes then let one commit and   *)
(* fail the other, so inserts and commit are one step.                     *)
(***************************************************************************)
EXTENDS Naturals

CONSTANTS
  Requests,     \* HTTP requests of one customer
  Keys,         \* their idempotency keys, each for one operation
  Names,        \* what is unique of a created row: a connection's name, a
                \* resource's source and provider id
  KeyOf,        \* KeyOf[r]
  BodyOf,       \* BodyOf[r]: the hashed input, or the connectionId of a job
  NameOf,       \* NameOf[r]: the unique name in the input of a create
  NoRequest,    \* no record
  TTL,          \* 24 hours
  JobRetention, \* 30 days
  MaxClock      \* bound: the last instant of the clock

\* What is asked of the constants; ApiServer assumes it.
IntakeAssumption ==
  /\ KeyOf \in [Requests -> Keys]
  /\ NameOf \in [Requests -> Names]
  /\ NoRequest \notin Requests
  /\ TTL \in Nat /\ JobRetention \in Nat /\ MaxClock \in Nat

VARIABLES
  jobKeys, \* the keys that are sent to an enqueue operation
  now,     \* the clock
  pc,      \* the state of a request
  began,   \* now() of its transaction, while there is one
  owed,    \* the request whose row the lookup could find when it began
  answer,  \* the request whose row a replay returned
  until,   \* of a created row: expires_at of its record, or the first instant
           \* at which maintenance may delete the job
  holder,  \* key: the request whose record, or job, is stored
  taken    \* names of created rows, which no operation deletes

vars == <<jobKeys, now, pc, began, owed, answer, until, holder, taken>>

Over == {"created", "replayed", "reused", "conflict", "refused"}
PCs  == {"idle", "begun", "storing"} \cup Over

Init ==
  /\ jobKeys \in SUBSET Keys
  /\ now = 0
  /\ pc     = [r \in Requests |-> "idle"]
  /\ began  = [r \in Requests |-> 0]
  /\ owed   = [r \in Requests |-> NoRequest]
  /\ answer = [r \in Requests |-> NoRequest]
  /\ until  = [r \in Requests |-> 0]
  /\ holder = [k \in Keys |-> NoRequest]
  /\ taken  = {}

IsJob(r) == KeyOf[r] \in jobKeys

Tick ==
  /\ now < MaxClock
  /\ now' = now + 1
  /\ UNCHANGED <<jobKeys, pc, began, owed, answer, until, holder, taken>>

\* expires_at > now(), for a record; a job is found as long as it exists.
FoundAt(r, t) ==
  /\ holder[KeyOf[r]] # NoRequest
  /\ IsJob(r) \/ t < until[holder[KeyOf[r]]]

Found(r) == FoundAt(r, began[r])

\* Mutant of SameBody: the request hash is not compared.
SameBodyAny(q, r) == TRUE

\* request_hash, or payload.connectionId
SameBody(q, r) == BodyOf[q] = BodyOf[r]

\* owed is history: only a property reads it.
Begin(r) ==
  /\ pc[r] = "idle"
  /\ pc' = [pc EXCEPT ![r] = "begun"]
  /\ began' = [began EXCEPT ![r] = now]
  /\ owed' = [owed EXCEPT ![r] =
       IF FoundAt(r, now) /\ SameBody(holder[KeyOf[r]], r) THEN holder[KeyOf[r]] ELSE NoRequest]
  /\ UNCHANGED <<jobKeys, now, answer, until, holder, taken>>

\* The transaction ends.
End(r, how) ==
  /\ pc' = [pc EXCEPT ![r] = how]
  /\ began' = [began EXCEPT ![r] = 0]
  /\ owed' = [owed EXCEPT ![r] = NoRequest]

Replay(r) ==
  /\ pc[r] = "begun" /\ Found(r) /\ SameBody(holder[KeyOf[r]], r)
  /\ End(r, "replayed")
  /\ answer' = [answer EXCEPT ![r] = holder[KeyOf[r]]]
  /\ UNCHANGED <<jobKeys, now, until, holder, taken>>

\* IDEMPOTENCY_KEY_REUSED
Reuse(r) ==
  /\ pc[r] = "begun" /\ Found(r) /\ ~ SameBody(holder[KeyOf[r]], r)
  /\ End(r, "reused")
  /\ UNCHANGED <<jobKeys, now, answer, until, holder, taken>>

FindNothing(r) ==
  /\ pc[r] = "begun" /\ ~ Found(r)
  /\ pc' = [pc EXCEPT ![r] = "storing"]
  /\ UNCHANGED <<jobKeys, now, began, owed, answer, until, holder, taken>>

\* Mutant of Free: the new record takes the place of one that is there.
FreeOfName(r) == IsJob(r) \/ NameOf[r] \notin taken

\* No unique index refuses the row or its record: an expired record that is
\* not pruned yet does.
Free(r) ==
  /\ holder[KeyOf[r]] = NoRequest
  /\ IsJob(r) \/ NameOf[r] \notin taken

\* The record expires TTL after now() of the transaction; a job that ends as
\* soon as it is committed is deleted JobRetention later.
Store(r) ==
  /\ pc[r] = "storing" /\ Free(r)
  /\ End(r, "created")
  /\ until' = [until EXCEPT ![r] = IF IsJob(r) THEN now + JobRetention ELSE began[r] + TTL]
  /\ holder' = [holder EXCEPT ![KeyOf[r]] = r]
  /\ taken' = IF IsJob(r) THEN taken ELSE taken \cup {NameOf[r]}
  /\ UNCHANGED <<jobKeys, now, answer>>

\* 23505 becomes RESOURCE_CONFLICT, and the transaction rolls back.
Conflict(r) ==
  /\ pc[r] = "storing" /\ ~ Free(r)
  /\ End(r, "conflict")
  /\ UNCHANGED <<jobKeys, now, answer, until, holder, taken>>

\* The connection is not usable, or an error rolls the transaction back.  An
\* enqueue asks for the connection before it looks for the job.
Refuse(r) ==
  /\ pc[r] \in {"begun", "storing"}
  /\ End(r, "refused")
  /\ UNCHANGED <<jobKeys, now, answer, until, holder, taken>>

\* The process ends: PostgreSQL rolls back the transactions it had open.
Die ==
  /\ pc' = [r \in Requests |-> IF pc[r] \in {"begun", "storing"} THEN "refused" ELSE pc[r]]
  /\ began' = [r \in Requests |-> 0]
  /\ owed'  = [r \in Requests |-> NoRequest]
  /\ UNCHANGED <<jobKeys, now, answer, until, holder, taken>>

\* Mutant of Expired: a record is deleted in its last instant, too.
ExpiredEarly(k) == until[holder[k]] <= now

\* Mutant of Expired: p_job_retention is not applied to ended jobs.
ExpiredWhenEnded(k) == IsJob(holder[k]) \/ until[holder[k]] < now

\* expires_at, or completed_at + p_job_retention, < clock_timestamp()
Expired(k) == until[holder[k]] < now

\* The hourly maintenance.
Prune(k) ==
  /\ holder[k] # NoRequest /\ Expired(k)
  /\ holder' = [holder EXCEPT ![k] = NoRequest]
  /\ UNCHANGED <<jobKeys, now, pc, began, owed, answer, until, taken>>

Request(r) ==
  \/ Begin(r) \/ Replay(r) \/ Reuse(r) \/ FindNothing(r)
  \/ Store(r) \/ Conflict(r) \/ Refuse(r)

Next == Tick \/ Die \/ (\E r \in Requests : Request(r)) \/ (\E k \in Keys : Prune(k))

Spec == Init /\ [][Next]_vars

-------------------------------------------------------------------------------
(* Properties.                                                             *)

TypeOK ==
  /\ jobKeys \in SUBSET Keys
  /\ now \in Nat
  /\ pc \in [Requests -> PCs]
  /\ began \in [Requests -> Nat] /\ until \in [Requests -> Nat]
  /\ owed \in [Requests -> Requests \cup {NoRequest}]
  /\ answer \in [Requests -> Requests \cup {NoRequest}]
  /\ holder \in [Keys -> Requests \cup {NoRequest}]
  /\ taken \in SUBSET Names

\* However the requests of a key overlap, a second one adds a row only when
\* the record of the first has outlived its time.
CreatedOnce ==
  [][\A q, r \in Requests :
       /\ q # r /\ KeyOf[q] = KeyOf[r]
       /\ pc[q] = "created" /\ pc[r] # "created" /\ pc'[r] = "created"
       => until[q] < now]_vars

\* An answer taken from a record is the row of a request with the same key and
\* body, and a key is called reused only when another body was stored with it.
ReplayIsTruthful ==
  \A r \in Requests :
    /\ pc[r] = "replayed" =>
         /\ answer[r] \in Requests
         /\ pc[answer[r]] = "created"
         /\ KeyOf[answer[r]] = KeyOf[r] /\ BodyOf[answer[r]] = BodyOf[r]
    /\ pc[r] = "reused" =>
         \E q \in Requests :
           pc[q] = "created" /\ KeyOf[q] = KeyOf[r] /\ BodyOf[q] # BodyOf[r]

\* "Existing idempotent job returned": a repetition that begins when the row of
\* the first request can be found and ends before its time is over gets that
\* row, not a conflict; only one that overlaps the first, or comes when the
\* record has expired and is not pruned, is told RESOURCE_CONFLICT.
RetryReplays ==
  [][\A r \in Requests :
       /\ pc[r] \notin Over /\ pc'[r] \in Over
       /\ owed[r] # NoRequest /\ now <= until[owed[r]]
       => pc'[r] = "refused" \/ (pc'[r] = "replayed" /\ answer'[r] = owed[r])]_vars

-------------------------------------------------------------------------------
(* The inductive invariant behind these properties (ApiServerProofs).      *)

\* A record is of a request that created its row, and only time takes it away.
RecordShape ==
  /\ \A k \in Keys : holder[k] # NoRequest => pc[holder[k]] = "created" /\ KeyOf[holder[k]] = k
  /\ \A q \in Requests : pc[q] = "created" => holder[KeyOf[q]] = q \/ until[q] < now

\* A row that a repetition could find is not found only when its time is over.
OwedShape ==
  \A r \in Requests : owed[r] # NoRequest =>
    /\ pc[owed[r]] = "created"
    /\ KeyOf[owed[r]] = KeyOf[r] /\ BodyOf[owed[r]] = BodyOf[r]
    /\ IsJob(r) \/ began[r] < until[owed[r]]
    /\ pc[r] \in {"begun", "storing"}
    /\ pc[r] = "storing" => until[owed[r]] < now

IInv == TypeOK /\ RecordShape /\ OwedShape /\ ReplayIsTruthful
===============================================================================
