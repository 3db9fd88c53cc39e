----------------------------- MODULE AwsDiscovery -----------------------------
(***************************************************************************)
(* Reconciliation of the inventory of one AWS connection: executions of    *)
(* AwsDiscoveryService.discover (src/aws/aws-discovery-service.ts) with    *)
(* the scan of src/aws/aws-inventory-provider.ts.  The queue may execute a *)
(* job more than once, and executions may overlap: an outrun lease, or two *)
(* jobs on one connection in one batch or on two workers.  Each execution  *)
(* reads its configuration, scans AWS outside any transaction, then writes *)
(* everything in one transaction at READ COMMITTED (transaction.ts issues  *)
(* a plain BEGIN): each of its statements sees what had committed when the *)
(* statement began, and waits for the rows another transaction has locked. *)
(***************************************************************************)
EXTENDS Naturals, FiniteSets

CONSTANTS
  Items,         \* the AWS resources of the account (provider_id)
  Pairs,         \* the configured pairs of region and resource type
  PairOf,        \* PairOf[i]: the pair that lists item i
  Jobs,          \* discovery jobs of the connection
  Executions,    \* executions of these jobs by workers
  JobOf,         \* JobOf[e]: the job an execution works for
  NoJob,         \* last_discovery_job_id IS NULL
  MaxResources,  \* configuration.maxResources
  MaxChanges     \* bound: resources created or deleted in AWS

ASSUME DiscoveryAssumption ==
  /\ IsFiniteSet(Items)
  /\ PairOf \in [Items -> Pairs]
  /\ JobOf \in [Executions -> Jobs]
  /\ NoJob \notin Jobs
  /\ MaxResources \in Nat
  /\ MaxChanges \in Nat

VARIABLES
  world,    \* the items that exist in AWS
  changes,  \* changes made to the world so far
  enabled,  \* connections.status <> 'disabled'
  state,    \* discovery_state of the row of each item, "none" without a row
  rowJob,   \* last_discovery_job_id
  pruned,   \* jobs deleted by the retention function
  pc,       \* where an execution is
  left,     \* pairs an execution has still to list
  found,    \* what it has found; what it has locked while it writes
  seen,     \* rows its marking statement saw to be active and absent
  fresh,    \* history: rows others committed after that statement began
  gone      \* history: items it looked for and did not find

rowVars  == <<state, rowJob, pruned>>
execVars == <<pc, left, found, seen, fresh, gone>>
vars     == <<world, changes, enabled, rowVars, execVars>>

States == {"none", "active", "missing"}
Busy   == {"scanning", "writing", "marking"}
PCs    == Busy \cup {"idle", "done", "failed", "exceeded"}

Init ==
  /\ world   \in SUBSET Items
  /\ changes = 0
  /\ enabled = TRUE
  /\ state   = [i \in Items |-> "none"]
  /\ rowJob  = [i \in Items |-> NoJob]
  /\ pruned  = {}
  /\ pc      = [e \in Executions |-> "idle"]
  /\ left    = [e \in Executions |-> Pairs]
  /\ found   = [e \in Executions |-> {}]
  /\ seen    = [e \in Executions |-> {}]
  /\ fresh   = [e \in Executions |-> {}]
  /\ gone    = [e \in Executions |-> {}]

-------------------------------------------------------------------------------
(* What happens around an execution.                                       *)

\* AWS creates or deletes a resource.
WorldChanges(i) ==
  /\ changes < MaxChanges /\ changes' = changes + 1
  /\ world' = IF i \in world THEN world \ {i} ELSE world \cup {i}
  /\ UNCHANGED <<enabled, rowVars, execVars>>

DisableConnection ==
  /\ enabled
  /\ enabled' = FALSE
  /\ UNCHANGED <<world, changes, rowVars, execVars>>

\* The retention function deletes an ended job: ON DELETE SET NULL.
PruneJob(j) ==
  /\ \A e \in Executions : JobOf[e] = j => pc[e] \notin Busy
  /\ \E e \in Executions : JobOf[e] = j /\ pc[e] # "idle"
  /\ j \notin pruned
  /\ pruned' = pruned \cup {j}
  /\ rowJob' = [i \in Items |-> IF rowJob[i] = j THEN NoJob ELSE rowJob[i]]
  /\ UNCHANGED <<world, changes, enabled, state, execVars>>

-------------------------------------------------------------------------------
(* discover.                                                               *)

\* The first transaction reads the configuration of an enabled connection.
Begin(e) ==
  /\ pc[e] = "idle" /\ JobOf[e] \notin pruned
  /\ pc' = [pc EXCEPT ![e] = IF enabled THEN "scanning" ELSE "failed"]
  /\ UNCHANGED <<world, changes, enabled, rowVars, left, found, seen, fresh, gone>>

Listed(p) == {i \in world : PairOf[i] = p}

\* Mutant of Exceeds: each pair has the whole cap.
ExceedsPerPair(e, p) == Cardinality(Listed(p)) > MaxResources

\* discoverType throws when nothing remains of the cap before it lists
\* anything, enforceLimit when the list exceeds what remains.
Exceeds(e, p) ==
  \/ Cardinality(found[e]) >= MaxResources
  \/ Cardinality(Listed(p)) > MaxResources - Cardinality(found[e])

ScanPair(e, p) ==
  /\ pc[e] = "scanning" /\ p \in left[e]
  /\ ~Exceeds(e, p)
  /\ found' = [found EXCEPT ![e] = @ \cup Listed(p)]
  /\ gone'  = [gone EXCEPT ![e] = @ \cup {i \in Items \ world : PairOf[i] = p}]
  /\ left'  = [left EXCEPT ![e] = @ \ {p}]
  /\ UNCHANGED <<world, changes, enabled, rowVars, pc, seen, fresh>>

ScanExceeds(e, p) ==
  /\ pc[e] = "scanning" /\ p \in left[e]
  /\ Exceeds(e, p)
  /\ pc' = [pc EXCEPT ![e] = "exceeded"]
  /\ UNCHANGED <<world, changes, enabled, rowVars, left, found, seen, fresh, gone>>

\* A call to AWS or a statement of the last transaction fails, the victim of
\* a deadlock included: the transaction is rolled back.
Throws(e) ==
  /\ pc[e] \in Busy
  /\ pc' = [pc EXCEPT ![e] = "failed"]
  /\ UNCHANGED <<world, changes, enabled, rowVars, left, found, seen, fresh, gone>>

-------------------------------------------------------------------------------
(* Its last transaction.                                                   *)

LockedByOthers(e) ==
  UNION {found[f] : f \in {g \in Executions \ {e} : pc[g] \in {"writing", "marking"}}}

\* Mutant of Scanned: an error in a region is skipped and what was found is
\* reconciled.
ScannedPartly(e) == left[e] # Pairs

\* The provider returned: every pair was listed.
Scanned(e) == left[e] = {}

\* Every item found is upserted as active under the id of the job; nobody
\* else sees it yet.
Upsert(e) ==
  /\ pc[e] = "scanning" /\ Scanned(e)
  /\ found[e] \cap LockedByOthers(e) = {}
  /\ pc' = [pc EXCEPT ![e] = "writing"]
  /\ UNCHANGED <<world, changes, enabled, rowVars, left, found, seen, fresh, gone>>

\* Mutant of Absent: SQL's <> instead of IS DISTINCT FROM.
AbsentNotEqual(e, i) ==
  i \notin found[e] /\ state[i] = "active" /\ rowJob[i] \notin {JobOf[e], NoJob}

\* The rows the marking statement matches: active, and last_discovery_job_id
\* IS DISTINCT FROM the job, which is true of NULL.
Absent(e, i) ==
  i \notin found[e] /\ state[i] = "active" /\ rowJob[i] # JobOf[e]

\* The marking statement takes its snapshot.
Mark(e) ==
  /\ pc[e] = "writing"
  /\ seen' = [seen EXCEPT ![e] = {i \in Items : Absent(e, i)}]
  /\ pc' = [pc EXCEPT ![e] = "marking"]
  /\ UNCHANGED <<world, changes, enabled, rowVars, left, found, fresh, gone>>

\* The upsert, then the mark on each row the statement saw, which it checks
\* again as it is when its lock is granted.
NewState(e, i) ==
  IF i \in found[e] THEN "active"
  ELSE IF i \in seen[e] /\ Absent(e, i) THEN "missing" ELSE state[i]

\* Mutant of NewJob: the last statement stamps every row of the connection.
NewJobOfAll(e, i) == IF state[i] = "none" /\ i \notin found[e] THEN rowJob[i] ELSE JobOf[e]

NewJob(e, i) == IF i \in found[e] THEN JobOf[e] ELSE rowJob[i]

\* The marking statement waits for the rows it saw; then the transaction
\* commits.
Commit(e) ==
  /\ pc[e] = "marking"
  /\ seen[e] \cap LockedByOthers(e) = {}
  /\ state'  = [i \in Items |-> NewState(e, i)]
  /\ rowJob' = [i \in Items |-> NewJob(e, i)]
  /\ fresh'  = [f \in Executions |->
       IF f # e /\ pc[f] = "marking" THEN fresh[f] \cup found[e] ELSE fresh[f]]
  /\ pc' = [pc EXCEPT ![e] = "done"]
  /\ UNCHANGED <<world, changes, enabled, pruned, left, found, seen, gone>>

-------------------------------------------------------------------------------

Discover(e) ==
  \/ Begin(e) \/ Throws(e) \/ Upsert(e) \/ Mark(e) \/ Commit(e)
  \/ \E p \in Pairs : ScanPair(e, p) \/ ScanExceeds(e, p)

Next ==
  \/ \E i \in Items : WorldChanges(i)
  \/ DisableConnection
  \/ \E j \in Jobs : PruneJob(j)
  \/ \E e \in Executions : Discover(e)

Spec == Init /\ [][Next]_vars

-------------------------------------------------------------------------------
(* Properties.                                                             *)

TypeOK ==
  /\ world   \in SUBSET Items
  /\ changes \in Nat
  /\ enabled \in BOOLEAN
  /\ state   \in [Items -> States]
  /\ rowJob  \in [Items -> Jobs \cup {NoJob}]
  /\ pruned  \in SUBSET Jobs
  /\ pc      \in [Executions -> PCs]
  /\ left    \in [Executions -> SUBSET Pairs]
  /\ found   \in [Executions -> SUBSET Items]
  /\ seen    \in [Executions -> SUBSET Items]
  /\ fresh   \in [Executions -> SUBSET Items]
  /\ gone    \in [Executions -> SUBSET Items]

\* No active row is invented: an execution that committed for the job in the
\* row found the item.
FoundByItsJob ==
  \A i \in Items : state[i] = "active" /\ rowJob[i] # NoJob =>
    \E e \in Executions : pc[e] = "done" /\ JobOf[e] = rowJob[i] /\ i \in found[e]

Active == {i \in Items : state[i] = "active"}

Commits(e) == pc[e] # "done" /\ pc'[e] = "done"

\* "A partial or failed AWS scan leaves the last complete inventory
\* unchanged": a row goes missing only when the execution that commits looked
\* for the item and AWS did not list it.
MissingWasLookedFor ==
  [][\A e \in Executions, i \in Items :
       Commits(e) /\ state[i] = "active" /\ state'[i] = "missing" => i \in gone[e]]_vars

\* What reconciliation really gives: once a scan has committed, an active row
\* it did not find is one its own job touched in an earlier execution or one
\* another execution committed while it was marking.
ActiveAccounted ==
  [][\A e \in Executions, i \in Items :
       Commits(e) /\ state'[i] = "active" /\ i \notin found[e]
       => rowJob[i] = JobOf[e] \/ i \in fresh[e]]_vars

\* "Marks previously seen-but-now-absent resources as missing": after a scan
\* commits, the active rows are those it found.
ActiveWereFound ==
  [][\A e \in Executions : Commits(e) => Active' = found[e]]_vars

\* "The configured aggregate resource cap is enforced before database changes":
\* over all pairs together nothing above the cap is committed, and a scan is
\* refused only when the world had at least the cap.  (Exactly the cap may be
\* refused: what remains is looked at before the next pair is listed.)
CapEnforced ==
  [][\A e \in Executions :
       /\ Commits(e) => Cardinality(found[e]) <= MaxResources
       /\ pc'[e] = "exceeded" /\ pc[e] # "exceeded" =>
            Cardinality(found[e] \cup {i \in world : PairOf[i] \in left[e]}) >= MaxResources]_vars
===============================================================================
