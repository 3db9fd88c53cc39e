--------------------------- MODULE MetricsAdmission ---------------------------
(* The count of the metrics queries of a customer that MetricsService keeps  *)
(* in the memory of the process, and takes down in a finally.                *)
EXTENDS Integers, FiniteSets

CONSTANTS
  Requests, \* HTTP requests of one customer
  Limit     \* 4

AdmissionAssumption == IsFiniteSet(Requests) /\ Limit \in Nat

VARIABLES
  active, \* activeByCustomer of the customer, 0 when it has no entry
  running \* the requests whose execute has not ended

vars == <<active, running>>

Init == active = 0 /\ running = {}

Full == active >= Limit

Enter(r) ==
  /\ r \notin running /\ ~ Full
  /\ active' = active + 1
  /\ running' = running \cup {r}

\* Mutant of Left: the count is taken down after a success only.
LeftIfOk(ok) == IF ok THEN active - 1 ELSE active

\* remaining <= 0 deletes the entry.
Left(ok) == IF active - 1 <= 0 THEN 0 ELSE active - 1

\* execute returned (ok), or threw: no resource, no usable connection, the
\* audit event, or the upstream.
Leave(r, ok) ==
  /\ r \in running
  /\ active' = Left(ok)
  /\ running' = running \ {r}

\* The process ends, and its memory with it.
Die == active' = 0 /\ running' = {}

Next == Die \/ \E r \in Requests : Enter(r) \/ \E ok \in BOOLEAN : Leave(r, ok)

Spec == Init /\ [][Next]_vars

-------------------------------------------------------------------------------
(* Properties.                                                             *)

TypeOK == active \in Nat /\ running \in SUBSET Requests

\* Whichever way queries end, the count is that of the running ones: it never
\* refuses a customer who has none, nor lets more through than the limit.
QueriesCounted == active = Cardinality(running) /\ active <= Limit
===============================================================================
