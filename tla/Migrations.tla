------------------------------ MODULE Migrations ------------------------------
(***************************************************************************)
(* The migration runner, src/database/migrate.ts: it takes a session-level *)
(* advisory lock, then for each file in order asks whether its version is  *)
(* recorded, runs it (each file is one transaction of its own) and records *)
(* it in another statement.  Between the two a crash leaves a file that is *)
(* applied and not recorded.  The lock lives as long as the session that   *)
(* took it: when that idle connection is lost, the pool opens another and  *)
(* the runner goes on without the lock.                                    *)
(***************************************************************************)
EXTENDS Naturals

CONSTANTS
  Runners,    \* migration processes
  Last,       \* the files are 1..Last, in the order of their names
  Rerunnable, \* files that run again without an error (001, 003, 007)
  Nobody,     \* the lock is free
  MaxFaults   \* bound: crashes, failed statements and lost sessions

ASSUME MigrationsAssumption ==
  /\ Last \in Nat \ {0}
  /\ Rerunnable \subseteq 1..Last
  /\ Nobody \notin Runners
  /\ MaxFaults \in Nat

VARIABLES
  pc,       \* "waiting", "checking", "applying", "recording", "closing", "over"
  pos,      \* the file a runner is at
  lock,     \* the runner whose session holds the advisory lock
  applied,  \* files whose transaction committed
  recorded, \* versions in schema_migrations
  faults

vars == <<pc, pos, lock, applied, recorded, faults>>

Files == 1..Last
PCs   == {"waiting", "checking", "applying", "recording", "closing", "over"}

Init ==
  /\ pc = [r \in Runners |-> "waiting"]
  /\ pos = [r \in Runners |-> 1]
  /\ lock = Nobody
  /\ applied = {} /\ recorded = {}
  /\ faults = 0

Go(r, from, to) == pc[r] = from /\ pc' = [pc EXCEPT ![r] = to]

Fault == faults < MaxFaults /\ faults' = faults + 1

\* pg_advisory_lock returns, and schema_migrations is there.
Lock(r) ==
  /\ lock = Nobody
  /\ Go(r, "waiting", "checking")
  /\ lock' = r
  /\ UNCHANGED <<pos, applied, recorded, faults>>

\* SELECT 1 FROM schema_migrations: a recorded file is passed over.
Skip(r) ==
  /\ pc[r] = "checking" /\ pos[r] \in recorded
  /\ pos' = [pos EXCEPT ![r] = @ + 1]
  /\ UNCHANGED <<pc, lock, applied, recorded, faults>>

\* A version that is not recorded: its file is read.
Read(r) ==
  /\ pos[r] \in Files \ recorded
  /\ Go(r, "checking", "applying")
  /\ UNCHANGED <<pos, lock, applied, recorded, faults>>

\* The file's statements succeed on this schema.
Runs(f) == f \notin applied \/ f \in Rerunnable

Apply(r) ==
  /\ Runs(pos[r])
  /\ Go(r, "applying", "recording")
  /\ applied' = applied \cup {pos[r]}
  /\ UNCHANGED <<pos, lock, recorded, faults>>

\* "relation already exists": the file was applied before.
ApplyFails(r) ==
  /\ ~ Runs(pos[r])
  /\ Go(r, "applying", "closing")
  /\ UNCHANGED <<pos, lock, applied, recorded, faults>>

\* Mutant of Record: the next version is recorded too.
RecordAhead(r) ==
  /\ Go(r, "recording", "checking")
  /\ recorded' = recorded \cup {f \in Files : f <= pos[r] + 1}
  /\ pos' = [pos EXCEPT ![r] = @ + 1]
  /\ UNCHANGED <<lock, applied, faults>>

\* INSERT ... ON CONFLICT DO NOTHING
Record(r) ==
  /\ Go(r, "recording", "checking")
  /\ recorded' = recorded \cup {pos[r]}
  /\ pos' = [pos EXCEPT ![r] = @ + 1]
  /\ UNCHANGED <<lock, applied, faults>>

AtEnd(r) ==
  /\ pos[r] > Last
  /\ Go(r, "checking", "closing")
  /\ UNCHANGED <<pos, lock, applied, recorded, faults>>

\* A statement fails, before or after the file's COMMIT took effect.
Throws(r) ==
  /\ pc[r] \in {"checking", "applying", "recording"}
  /\ Fault
  /\ pc' = [pc EXCEPT ![r] = "closing"]
  /\ applied' \in {applied} \cup
       {applied \cup {f} : f \in {g \in {pos[r]} : pc[r] = "applying" /\ Runs(g)}}
  /\ UNCHANGED <<pos, lock, recorded>>

\* Mutant of Unlocked: the lock of a session is never given back.
UnlockedNever(r) == lock

\* Only the session that holds the lock can release it, and it ends with it.
Unlocked(r) == IF lock = r THEN Nobody ELSE lock

\* finally: pg_advisory_unlock and pool.end().
Close(r) ==
  /\ Go(r, "closing", "over")
  /\ lock' = Unlocked(r)
  /\ UNCHANGED <<pos, applied, recorded, faults>>

Crash(r) ==
  /\ pc[r] \notin {"waiting", "over"}
  /\ Fault
  /\ pc' = [pc EXCEPT ![r] = "over"]
  /\ lock' = Unlocked(r)
  /\ UNCHANGED <<pos, applied, recorded>>

\* The idle connection is lost while a file is read; the pool's error handler
\* logs it, and the next query gets a new connection.
LoseSession(r) ==
  /\ lock = r /\ pc[r] \in {"checking", "applying", "recording"}
  /\ Fault
  /\ lock' = Nobody
  /\ UNCHANGED <<pc, pos, applied, recorded>>

\* The operator runs the migration job again, as long as files are left.
Again(r) ==
  /\ recorded # Files
  /\ Go(r, "over", "waiting")
  /\ pos' = [pos EXCEPT ![r] = 1]
  /\ UNCHANGED <<lock, applied, recorded, faults>>

Step(r) ==
  \/ Lock(r) \/ Skip(r) \/ Read(r) \/ Apply(r) \/ ApplyFails(r)
  \/ Record(r) \/ AtEnd(r) \/ Close(r) \/ Again(r)

Next == \E r \in Runners : Step(r) \/ Throws(r) \/ Crash(r) \/ LoseSession(r)

Spec == Init /\ [][Next]_vars

\* A process runs, a free lock is granted to a waiting session, and the
\* operator starts the job again.
FairSpec == Spec /\ \A r \in Runners : WF_vars(Step(r))

-------------------------------------------------------------------------------
(* Properties.                                                             *)

TypeOK ==
  /\ pc \in [Runners -> PCs]
  /\ pos \in [Runners -> 1..(Last + 1)]
  /\ lock \in Runners \cup {Nobody}
  /\ applied \in SUBSET Files
  /\ recorded \in SUBSET Files
  /\ faults \in 0..MaxFaults

IsPrefix(S) == \A f \in S : \A g \in 1..f : g \in S

\* Crashes, retries and runners that lost the lock included, the schema goes
\* from file to file: what is applied and what is recorded are prefixes of the
\* list of files, and at most the last applied file is not recorded.
SchemaInOrder ==
  /\ IsPrefix(applied) /\ IsPrefix(recorded)
  /\ recorded \subseteq applied
  /\ \A f, g \in applied \ recorded : f = g

\* A file that was applied, not recorded, and does not run again.
Stuck ==
  \E f \in applied \ recorded :
    f \notin Rerunnable /\ \A r \in Runners : ~ (pc[r] = "recording" /\ pos[r] = f)

\* Running the job again completes the schema, however often it failed, unless
\* a failure came between a file and its record: nothing else blocks it for
\* good, the lock of a dead runner least of all.
CompletesOrSticks == <>(recorded = Files \/ Stuck)
===============================================================================
