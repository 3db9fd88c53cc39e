----------------------------- MODULE AlertIncidents -----------------------------
(***************************************************************************)
(* Incidents between monitoring and operators: AlertmanagerService.ingest  *)
(* (src/alerts/alertmanager-service.ts) opens and resolves them, operators *)
(* acknowledge and resolve them with a version and an idempotency key      *)
(* through IncidentService.transition (src/incidents/incident-service.ts). *)
(*                                                                         *)
(* The last transaction of ingest is one step: the upsert locks the row of *)
(* an alert until the end, everything else it reads it locks too.  That of *)
(* transition is two, since it reads the idempotency record before it      *)
(* waits for the lock of the incident.                                     *)
(***************************************************************************)
EXTENDS Naturals, FiniteSets

CONSTANTS
  Alerts,       \* fingerprints of one Alertmanager connection
  Incidents,    \* bound: the incidents that may be created
  Keys,         \* idempotency keys, each for one operation
  ActionOf,     \* ActionOf[k]: "acknowledge" or "resolve"
  Attempts,     \* HTTP requests of operators
  KeyOf,        \* KeyOf[t]: the key request t carries
  NoAlert,
  MaxDeliveries \* bound: webhook deliveries that are not replays

ASSUME IncidentAssumption ==
  /\ ActionOf \in [Keys -> {"acknowledge", "resolve"}]
  /\ KeyOf \in [Attempts -> Keys]
  /\ NoAlert \notin Alerts
  /\ MaxDeliveries \in Nat

VARIABLES
  alert,      \* status of alert_instances, "critical" when firing as such
  status,     \* status of incidents, "unused" before the insert
  alertOf,    \* alert_instance_id
  version,
  record,     \* the idempotency record of a key: "none", "live", "expired"
  recorded,   \* its request_hash: the incident and the version asked for
  pc,         \* where the transition of a request is, and its answer
  request,    \* the incident and the version in its body
  deliveries, \* deliveries accepted so far
  dismissed   \* history: an operator resolved the alert's incident since the
              \* last delivery about it

incidentVars == <<status, alertOf, version>>
recordVars   == <<record, recorded>>
requestVars  == <<pc, request>>
vars == <<alert, incidentVars, recordVars, requestVars, deliveries, dismissed>>

Notices  == {"none", "firing", "critical", "resolved"}
Active   == {"open", "acknowledged"}
Statuses == Active \cup {"unused", "resolved"}
PCs      == {"idle", "checked", "done", "replayed", "conflict", "failed"}

Used     == {n \in Incidents : status[n] # "unused"}
ActiveOf(a) == {n \in Incidents : status[n] \in Active /\ alertOf[n] = a}

Init ==
  /\ alert      = [a \in Alerts |-> "none"]
  /\ status     = [n \in Incidents |-> "unused"]
  /\ alertOf    = [n \in Incidents |-> NoAlert]
  /\ version    = [n \in Incidents |-> 0]
  /\ record     = [k \in Keys |-> "none"]
  /\ recorded   = [k \in Keys |-> <<>>]
  /\ pc         = [t \in Attempts |-> "idle"]
  /\ request    = [t \in Attempts |-> <<>>]
  /\ deliveries = 0
  /\ dismissed  = [a \in Alerts |-> FALSE]

-------------------------------------------------------------------------------
(* The webhook.                                                            *)

\* Mutants of Unattended: any critical notice opens an incident; only one
\* about an alert that was not critical before.
UnattendedAlways(notice) == {a \in Alerts : notice[a] = "critical"}
UnattendedEdge(notice) ==
  {a \in Alerts : notice[a] = "critical" /\ alert[a] # "critical" /\ ActiveOf(a) = {}}

\* The critical alerts of a delivery that have no active incident.
Unattended(notice) == {a \in Alerts : notice[a] = "critical" /\ ActiveOf(a) = {}}

\* The active incidents of the alerts a delivery reports as resolved.
Recovered(notice) ==
  {n \in Incidents : status[n] \in Active /\ notice[alertOf[n]] = "resolved"}

\* A delivery that commits: notice[a] is what it says of alert a, created[a]
\* the incident it opens for a.  An alert is upserted as the delivery says,
\* however old the notice is.
Deliver(notice, created) ==
  /\ deliveries < MaxDeliveries /\ deliveries' = deliveries + 1
  /\ \A a, b \in Unattended(notice) : created[a] = created[b] => a = b
  /\ LET opened    == {created[a] : a \in Unattended(notice)}
         recovered == Recovered(notice)
     IN  /\ status' = [n \in Incidents |->
              IF n \in opened THEN "open" ELSE IF n \in recovered THEN "resolved" ELSE status[n]]
         /\ version' = [n \in Incidents |->
              IF n \in opened THEN 1 ELSE IF n \in recovered THEN version[n] + 1 ELSE version[n]]
  /\ alertOf' \in [Incidents -> Alerts \cup {NoAlert}]
  /\ \A n \in Incidents : \/ \E a \in Unattended(notice) : created[a] = n /\ alertOf'[n] = a
                          \/ /\ \A a \in Unattended(notice) : created[a] # n
                             /\ alertOf'[n] = alertOf[n]
  /\ alert' = [a \in Alerts |-> IF notice[a] = "none" THEN alert[a] ELSE notice[a]]
  /\ dismissed' = [a \in Alerts |-> notice[a] = "none" /\ dismissed[a]]
  /\ UNCHANGED <<recordVars, requestVars>>

Webhook ==
  \E notice \in [Alerts -> Notices] :
    \E created \in [Unattended(notice) -> Incidents \ Used] : Deliver(notice, created)

-------------------------------------------------------------------------------
(* acknowledge and resolve.                                                *)

\* Mutant of SameRequest: the hash of the request is not compared.
SameRequestAny(t, n, v) == TRUE

\* The record's request_hash is the hash of this request.
SameRequest(t, n, v) == recorded[KeyOf[t]] = <<n, v>>

\* The SELECT on idempotency_records that opens the transaction.  The body
\* names a version the operator has seen, current or not.
Look(t, n, v) ==
  /\ pc[t] = "idle"
  /\ request' = [request EXCEPT ![t] = <<n, v>>]
  /\ pc' = [pc EXCEPT ![t] =
       IF record[KeyOf[t]] # "live" THEN "checked"
       ELSE IF SameRequest(t, n, v) THEN "replayed" ELSE "conflict"]
  /\ UNCHANGED <<alert, incidentVars, recordVars, deliveries, dismissed>>

\* Mutants of Permitted: no version check; no check of the status.
PermittedAnyVersion(t, n, v) ==
  IF ActionOf[KeyOf[t]] = "acknowledge" THEN status[n] = "open" ELSE status[n] \in Active
PermittedAnyStatus(t, n, v) == version[n] = v

\* The checks on the row, once it is locked.
Permitted(t, n, v) ==
  /\ version[n] = v
  /\ IF ActionOf[KeyOf[t]] = "acknowledge" THEN status[n] = "open" ELSE status[n] \in Active

StatusAfter(action) == IF action = "acknowledge" THEN "acknowledged" ELSE "resolved"

\* The row is updated, the event and the audit row are written, and the
\* record is inserted.
Transit(t, n, v) ==
  /\ pc[t] = "checked" /\ request[t] = <<n, v>>
  /\ Permitted(t, n, v) /\ record[KeyOf[t]] = "none"
  /\ status' = [status EXCEPT ![n] = StatusAfter(ActionOf[KeyOf[t]])]
  /\ version' = [version EXCEPT ![n] = @ + 1]
  /\ record' = [record EXCEPT ![KeyOf[t]] = "live"]
  /\ recorded' = [recorded EXCEPT ![KeyOf[t]] = <<n, v>>]
  /\ dismissed' = [a \in Alerts |->
       dismissed[a] \/ (a = alertOf[n] /\ ActionOf[KeyOf[t]] = "resolve")]
  /\ pc' = [pc EXCEPT ![t] = "done"]
  /\ UNCHANGED <<alert, alertOf, request, deliveries>>

\* VERSION_CONFLICT, INVALID_INCIDENT_TRANSITION, or the unique violation of a
\* record that a concurrent request has inserted or that nobody has pruned:
\* the transaction is rolled back.
Refuse(t, n, v) ==
  /\ pc[t] = "checked" /\ request[t] = <<n, v>>
  /\ ~Permitted(t, n, v) \/ record[KeyOf[t]] # "none"
  /\ pc' = [pc EXCEPT ![t] = "conflict"]
  /\ UNCHANGED <<alert, incidentVars, recordVars, request, deliveries, dismissed>>

\* A statement fails or the connection is lost.
Abort(t) ==
  /\ pc[t] = "checked"
  /\ pc' = [pc EXCEPT ![t] = "failed"]
  /\ UNCHANGED <<alert, incidentVars, recordVars, request, deliveries, dismissed>>

Operator(t) ==
  \/ \E n \in Used : \E v \in 1..version[n] : Look(t, n, v)
  \/ \E n \in Incidents : \E v \in 1..version[n] : Transit(t, n, v) \/ Refuse(t, n, v)
  \/ Abort(t)

-------------------------------------------------------------------------------
(* The clock and the maintenance task.                                     *)

\* 24 hours pass.
Expire(k) ==
  /\ record[k] = "live"
  /\ record' = [record EXCEPT ![k] = "expired"]
  /\ UNCHANGED <<alert, incidentVars, recorded, requestVars, deliveries, dismissed>>

\* prune_metricops_operational_records.
PruneRecord(k) ==
  /\ record[k] = "expired"
  /\ record' = [record EXCEPT ![k] = "none"]
  /\ UNCHANGED <<alert, incidentVars, recorded, requestVars, deliveries, dismissed>>

Next ==
  \/ Webhook
  \/ \E t \in Attempts : Operator(t)
  \/ \E k \in Keys : Expire(k) \/ PruneRecord(k)

Spec == Init /\ [][Next]_vars

-------------------------------------------------------------------------------
(* Properties.                                                             *)

Bodies == {<<>>} \cup (Incidents \X Nat)

TypeOK ==
  /\ alert      \in [Alerts -> Notices]
  /\ status     \in [Incidents -> Statuses]
  /\ alertOf    \in [Incidents -> Alerts \cup {NoAlert}]
  /\ version    \in [Incidents -> Nat]
  /\ record     \in [Keys -> {"none", "live", "expired"}]
  /\ recorded   \in [Keys -> Bodies]
  /\ pc         \in [Attempts -> PCs]
  /\ request    \in [Attempts -> Bodies]
  /\ deliveries \in Nat
  /\ dismissed  \in [Alerts -> BOOLEAN]

\* The partial unique index incidents_one_active_per_alert_idx is never
\* violated: no delivery fails because an alert already has an active incident,
\* whatever operators do to it meanwhile.
OneActivePerAlert ==
  \A m, n \in Incidents :
    status[m] \in Active /\ status[n] \in Active /\ alertOf[m] = alertOf[n] => m = n

\* "Critical firing alerts create incidents": while an alert is critical it
\* has an active incident, unless an operator resolved it since monitoring
\* last spoke of the alert.
CriticalIsAttended ==
  \A a \in Alerts : alert[a] = "critical" /\ ~dismissed[a] => ActiveOf(a) # {}

\* "Resolved alerts resolve their active incidents": none survives the alert,
\* neither one an operator works on nor one opened by a late delivery.
ResolvedHasNoIncident ==
  \A a \in Alerts : alert[a] = "resolved" => ActiveOf(a) = {}

\* Both together: incidents follow what monitoring says of their alerts.
IncidentsFollow == CriticalIsAttended /\ ResolvedHasNoIncident

\* An incident only moves forward: it is never reopened nor acknowledged
\* after it was resolved, by an operator with a stale view or by a delivery.
NeverReopened ==
  [][\A n \in Incidents :
       /\ status[n] = "resolved" => status'[n] = "resolved"
       /\ status[n] = "acknowledged" => status'[n] # "open"]_vars

\* Optimistic concurrency: of all requests about one version of an incident,
\* whatever their keys, at most one is carried out; so a retry is not carried
\* out twice, even when its record has expired or been pruned in between.
VersionWonOnce ==
  \A s, t \in Attempts :
    pc[s] = "done" /\ pc[t] = "done" /\ request[s] = request[t] => s = t

\* A replayed answer is the answer to the same request: one with the same key,
\* incident and version was carried out.
ReplayIsTruthful ==
  \A t \in Attempts : pc[t] = "replayed" =>
    \E s \in Attempts : pc[s] = "done" /\ KeyOf[s] = KeyOf[t] /\ request[s] = request[t]

-------------------------------------------------------------------------------
(* The inductive invariant behind these properties (AlertIncidentsProofs). *)

\* What a record and an answered request say of the incident.
RecordShape ==
  /\ \A k \in Keys : record[k] = "live" =>
       \E s \in Attempts : pc[s] = "done" /\ KeyOf[s] = k /\ request[s] = recorded[k]
  /\ \A t \in Attempts : pc[t] # "idle" => request[t] \in Incidents \X Nat
  /\ \A t \in Attempts : pc[t] = "done" => request[t][2] < version[request[t][1]]

\* A row in use names its alert, and versions start when it is inserted.
RowShape ==
  \A n \in Incidents :
    IF status[n] = "unused" THEN version[n] = 0 ELSE alertOf[n] \in Alerts /\ version[n] > 0

IInv ==
  /\ TypeOK /\ RowShape /\ RecordShape
  /\ OneActivePerAlert /\ CriticalIsAttended /\ ResolvedHasNoIncident
  /\ VersionWonOnce /\ ReplayIsTruthful
===============================================================================
