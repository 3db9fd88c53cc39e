------------------------------ MODULE AuditChain ------------------------------
(***************************************************************************)
(* The per-customer HMAC chain of audit events: AuditService.append inside *)
(* the transactions of the services (src/audit/audit-service.ts), the      *)
(* append-only table of migrations/001_foundation.sql, and the offline     *)
(* verifier that reads it page by page (src/operations/verify-audit.ts).   *)
(*                                                                         *)
(* An event is named by the transaction that appends it; its chain hash is *)
(* that name, as two events never have the same digest.  What a digest     *)
(* covers is the text the service was given, what the table keeps is a     *)
(* uuid: a spelling other than the canonical one is lost in between.       *)
(***************************************************************************)
EXTENDS Naturals, FiniteSets

CONSTANTS
  Txs,        \* the transactions that append an event
  Tenants,
  Spellings,  \* spellings of a customer id: in a token, in a webhook's URL
  RequestSpellings,  \* spellings of X-Request-Id that requests use
  Canonical,  \* how PostgreSQL prints a uuid
  None,       \* no previous event
  PageSize,   \* LIMIT 10000 in verify-audit.ts
  MaxRuns,    \* bound: verifications
  MaxRestores \* bound: restores of an older backup

ASSUME AuditAssumption ==
  /\ Canonical \in Spellings \cap RequestSpellings
  /\ None \notin Txs
  /\ PageSize \in Nat \ {0}
  /\ MaxRuns \in Nat
  /\ MaxRestores \in Nat

VARIABLES
  \* the appending transactions and the rows they leave
  pc,        \* "idle", "locked", "read", "inserted", "committed", "aborted", "lost"
  tenant, customerId, requestId,  \* the input of append: tenant and spellings
  previous,  \* previous_hash
  seq,       \* sequence, 0 before the insert
  nextSeq,   \* audit_events_sequence_seq
  \* the verifier
  vpc,       \* "idle", "reading", "failed", "done"
  after,     \* afterSequence
  heads,     \* anchors: the last event verified of each tenant
  expected,  \* expectedByPosition: the anchors not met yet
  prior,     \* the anchors the run was started with
  checked,   \* history: the events this run verified
  \* bounds and history
  runs, restores

txVars     == <<pc, tenant, customerId, requestId, previous, seq, nextSeq>>
verifyVars == <<vpc, after, heads, expected, prior, checked, runs>>
vars       == <<txVars, verifyVars, restores>>

PCs == {"idle", "locked", "read", "inserted", "committed", "aborted", "lost"}
Holding == {"locked", "read", "inserted"}

Init ==
  /\ pc         = [t \in Txs |-> "idle"]
  /\ tenant     \in [Txs -> Tenants]
  /\ customerId \in [Txs -> Spellings]
  /\ requestId  \in [Txs -> RequestSpellings]
  /\ previous   = [t \in Txs |-> None]
  /\ seq        = [t \in Txs |-> 0]
  /\ nextSeq    = 1
  /\ vpc        = "idle"
  /\ after      = 0
  /\ heads      = [c \in Tenants |-> None]
  /\ expected   = {}
  /\ prior      = {}
  /\ checked    = {}
  /\ runs       = 0
  /\ restores   = 0

Table   == {t \in Txs : pc[t] = "committed"}
Rows(c) == {t \in Table : tenant[t] = c}

\* The last event of S as previous_hash names it: None when S is empty.
Newest(S) == IF S = {} THEN {None} ELSE {t \in S : \A u \in S : seq[u] <= seq[t]}

-------------------------------------------------------------------------------
(* AuditService.append, one statement at a time.                           *)

\* Mutant of LockFree: two requests of one tenant append at the same time.
LockFreeAlways(t) == TRUE

\* hashtextextended: the key is computed from the text of the customer id.
LockFree(t) ==
  \A u \in Txs : pc[u] \in Holding =>
    tenant[u] # tenant[t] \/ customerId[u] # customerId[t]

Lock(t) ==
  /\ pc[t] = "idle" /\ LockFree(t)
  /\ pc' = [pc EXCEPT ![t] = "locked"]
  /\ UNCHANGED <<tenant, customerId, requestId, previous, seq, nextSeq, verifyVars, restores>>

\* SELECT chain_hash ... WHERE customer_id = $1 ORDER BY sequence DESC LIMIT 1:
\* the column is a uuid, so every spelling of the tenant reads the same rows.
ReadHead(t) ==
  /\ pc[t] = "locked"
  /\ \E head \in Newest(Rows(tenant[t])) : previous' = [previous EXCEPT ![t] = head]
  /\ pc' = [pc EXCEPT ![t] = "read"]
  /\ UNCHANGED <<tenant, customerId, requestId, seq, nextSeq, verifyVars, restores>>

\* The insert draws its sequence number, which no rollback gives back.
Insert(t) ==
  /\ pc[t] = "read"
  /\ seq' = [seq EXCEPT ![t] = nextSeq]
  /\ nextSeq' = nextSeq + 1
  /\ pc' = [pc EXCEPT ![t] = "inserted"]
  /\ UNCHANGED <<tenant, customerId, requestId, previous, verifyVars, restores>>

\* COMMIT shows the row and releases the lock.
Commit(t) ==
  /\ pc[t] = "inserted"
  /\ pc' = [pc EXCEPT ![t] = "committed"]
  /\ UNCHANGED <<tenant, customerId, requestId, previous, seq, nextSeq, verifyVars, restores>>

\* A later statement of the transaction fails, or the connection does.
Abort(t) ==
  /\ pc[t] \in Holding
  /\ pc' = [pc EXCEPT ![t] = "aborted"]
  /\ UNCHANGED <<tenant, customerId, requestId, previous, seq, nextSeq, verifyVars, restores>>

\* Disaster recovery: the database is replaced by a backup that knows nothing
\* of sequence k and later ones.
Restore(k) ==
  /\ vpc \in {"idle", "done", "failed"} /\ restores < MaxRestores
  /\ k \in 1..nextSeq
  /\ pc' = [t \in Txs |->
       IF pc[t] \in Holding THEN "aborted"
       ELSE IF pc[t] = "committed" /\ seq[t] >= k THEN "lost" ELSE pc[t]]
  /\ nextSeq' = k
  /\ restores' = restores + 1
  /\ UNCHANGED <<tenant, customerId, requestId, previous, seq, verifyVars>>

-------------------------------------------------------------------------------
(* verify-audit.ts.                                                        *)

\* A run is given the anchors an earlier run printed, or none.
StartVerify ==
  /\ vpc \in {"idle", "done", "failed"} /\ runs < MaxRuns
  /\ prior' = IF vpc = "done" THEN {heads[c] : c \in Tenants} \ {None} ELSE prior
  /\ expected' = prior'
  /\ vpc' = "reading"
  /\ after' = 0
  /\ heads' = [c \in Tenants |-> None]
  /\ checked' = {}
  /\ runs' = runs + 1
  /\ UNCHANGED <<txVars, restores>>

Unread == {t \in Table : seq[t] > after}

\* ORDER BY sequence LIMIT PageSize, over what is committed at this moment.
Page == {t \in Unread : Cardinality({u \in Unread : seq[u] < seq[t]}) < PageSize}

EarlierIn(S, t) == {u \in S : tenant[u] = tenant[t] /\ seq[u] < seq[t]}

\* Mutants of Before: the anchors of the last page are not carried over; any
\* previous hash is accepted.
BeforeInPage(t)    == Newest(EarlierIn(Page, t))
BeforeUnchecked(t) == {previous[t]}

\* heads.get(event.customerId) when the loop comes to event t.
Before(t) ==
  IF EarlierIn(Page, t) = {} THEN {heads[tenant[t]]} ELSE Newest(EarlierIn(Page, t))

LinkHolds(t) == previous[t] \in Before(t)

\* The digest is recomputed from the columns, where uuids are canonical.
DigestHolds(t) == customerId[t] = Canonical /\ requestId[t] = Canonical

AnchorHolds(t) == \A a \in expected : tenant[a] = tenant[t] /\ seq[a] = seq[t] => a = t

PageHolds == \A t \in Page : LinkHolds(t) /\ DigestHolds(t) /\ AnchorHolds(t)

VerifyPage ==
  /\ vpc = "reading" /\ Page # {} /\ PageHolds
  /\ \E last \in Newest(Page) : after' = seq[last]
  /\ heads' \in [Tenants -> Txs \cup {None}]
  /\ \A c \in Tenants :
       LET own == {t \in Page : tenant[t] = c}
       IN  heads'[c] \in IF own = {} THEN {heads[c]} ELSE Newest(own)
  /\ expected' = {a \in expected : \A t \in Page : tenant[a] # tenant[t] \/ seq[a] # seq[t]}
  /\ checked' = checked \cup Page
  /\ UNCHANGED <<txVars, vpc, prior, runs, restores>>

\* One of the three checks of a page throws.
RejectPage ==
  /\ vpc = "reading" /\ Page # {} /\ ~PageHolds
  /\ vpc' = "failed"
  /\ UNCHANGED <<txVars, after, heads, expected, prior, checked, runs, restores>>

\* Mutant of FinishVerify: anchors that were never met are not reported.
FinishVerifyAnyway ==
  /\ vpc = "reading" /\ Page = {}
  /\ vpc' = "done"
  /\ UNCHANGED <<txVars, after, heads, expected, prior, checked, runs, restores>>

\* An empty page ends the run; an anchor still expected is a truncation.
FinishVerify ==
  /\ vpc = "reading" /\ Page = {}
  /\ vpc' = IF expected = {} THEN "done" ELSE "failed"
  /\ UNCHANGED <<txVars, after, heads, expected, prior, checked, runs, restores>>

-------------------------------------------------------------------------------

Append(t) == Lock(t) \/ ReadHead(t) \/ Insert(t) \/ Commit(t) \/ Abort(t)

Verify == StartVerify \/ VerifyPage \/ RejectPage \/ FinishVerify

Next ==
  \/ \E t \in Txs : Append(t)
  \/ \E k \in 1..nextSeq : Restore(k)
  \/ Verify

Spec == Init /\ [][Next]_vars

-------------------------------------------------------------------------------
(* Properties.                                                             *)

TypeOK ==
  /\ pc         \in [Txs -> PCs]
  /\ tenant     \in [Txs -> Tenants]
  /\ customerId \in [Txs -> Spellings]
  /\ requestId  \in [Txs -> RequestSpellings]
  /\ previous   \in [Txs -> Txs \cup {None}]
  /\ seq        \in [Txs -> Nat]
  /\ nextSeq    \in Nat \ {0}
  /\ vpc        \in {"idle", "reading", "failed", "done"}
  /\ after      \in Nat
  /\ heads      \in [Tenants -> Txs \cup {None}]
  /\ expected   \in SUBSET Txs
  /\ prior      \in SUBSET Txs
  /\ checked    \in SUBSET Txs
  /\ runs       \in Nat
  /\ restores   \in Nat

-------------------------------------------------------------------------------
\* Event t follows the event that precedes it in its tenant's rows.
Follows(t) == previous[t] \in Newest(EarlierIn(Table, t))

\* "Audit records are append-only and HMAC chained per customer": in the order
\* of their sequence, the committed events of a tenant form one unbroken chain.
\* Not so when requests spell the tenant's id in two ways: authentication and
\* the webhook's URL accept upper and lower case, the lock is taken on the text
\* and the rows are read by uuid, so two requests may read one head.
ChainLinear == \A t \in Table : Follows(t)

\* What is true of the chain, whatever transactions ran at the same time, rolled
\* back or were lost to a restore: a previous hash is that of an earlier event
\* of the tenant in the table, and the events it passes over spelled the
\* tenant's id in another way.
ChainUpToSpelling ==
  \A t \in Table :
    /\ previous[t] # None => previous[t] \in Rows(tenant[t]) /\ seq[previous[t]] < seq[t]
    /\ \A u \in EarlierIn(Table, t) :
         previous[t] = None \/ seq[previous[t]] < seq[u] => customerId[u] # customerId[t]

\* An anchor stands for the chain before it: when the verifier names an event as
\* the head of a tenant, it has verified every row of that tenant up to it,
\* though rows become visible out of sequence order while it reads.  Except for
\* rows that spelled the tenant otherwise: those are not in the chain of the
\* head, and one that becomes visible behind the cursor goes unnoticed.
AnchorCoversPrefix ==
  vpc = "reading" =>
    \A c \in Tenants : heads[c] # None =>
      \A t \in Rows(c) :
        seq[t] <= seq[heads[c]] /\ customerId[t] = Canonical => t \in checked

\* A successful run has met every anchor of the run before: no anchored event
\* was truncated by a restore, nor replaced by a later event that was given
\* the same sequence number.
AnchorsKept ==
  [][vpc' = "done" /\ vpc # "done" => prior \subseteq Table]_vars

\* The events that became visible behind the verifier's cursor.
Overtaken == {t \in Table : seq[t] <= after /\ t \notin checked}

\* The events that were digested with an id spelled otherwise than the table
\* prints it, the customer's or the request's.
Misspelled == {t \in Table : customerId[t] # Canonical \/ requestId[t] # Canonical}

\* A run fails on an intact database only when a row was committed behind its
\* cursor, as sequence numbers are drawn in one order and committed in another,
\* or when a client spelled a uuid in upper case: its customer id in the token or
\* in the webhook's URL, or X-Request-Id.
AlarmIsExplained ==
  [][vpc' = "failed" /\ vpc # "failed"
     => restores > 0 \/ Overtaken # {} \/ Misspelled # {}]_vars
===============================================================================
