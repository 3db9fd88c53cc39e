------------------------- MODULE AlertIncidentsProofs -------------------------
(***************************************************************************)
(* Proofs about AlertIncidents, for every set of alerts, keys and requests *)
(* and any number of incidents and deliveries.                             *)
(***************************************************************************)
EXTENDS AlertIncidents, TLAPS

USE IncidentAssumption

\* No alert, no incident and no request satisfy the invariant.
LEMMA IncidentInit == Init => IInv
  BY DEF Init, IInv, TypeOK, RowShape, RecordShape, OneActivePerAlert, CriticalIsAttended,
     ResolvedHasNoIncident, VersionWonOnce, ReplayIsTruthful, ActiveOf, Notices, Active,
     Statuses, PCs, Bodies

\* A delivery keeps the types.
LEMMA TypeWebhook == IInv /\ Webhook => TypeOK'
  <1> SUFFICES ASSUME IInv, NEW notice \in [Alerts -> Notices],
                      NEW created \in [Unattended(notice) -> Incidents \ Used],
                      Deliver(notice, created)
               PROVE  TypeOK'
    BY DEF Webhook
  <1> USE DEF IInv, TypeOK, Deliver, recordVars, requestVars
  <1>1. status' \in [Incidents -> Statuses]
    BY DEF Statuses, Active
  <1>2. version' \in [Incidents -> Nat]
    OBVIOUS
  <1>3. alert' \in [Alerts -> Notices] /\ dismissed' \in [Alerts -> BOOLEAN]
    OBVIOUS
  <1>4. UNCHANGED <<record, recorded, pc, request>> /\ deliveries' \in Nat
    OBVIOUS
  <1>5. alertOf' \in [Incidents -> Alerts \cup {NoAlert}]
    OBVIOUS
  <1> QED BY <1>1, <1>2, <1>3, <1>4, <1>5

\* A delivery keeps the invariant: it opens an incident only for an alert that
\* has none, and resolves all of an alert it reports as resolved.
LEMMA InvWebhook == IInv /\ Webhook => IInv'
  <1> SUFFICES ASSUME IInv, NEW notice \in [Alerts -> Notices],
                      NEW created \in [Unattended(notice) -> Incidents \ Used],
                      Deliver(notice, created)
               PROVE  IInv'
    BY DEF Webhook
  <1>1. TypeOK'
    BY TypeWebhook DEF Webhook
  <1> USE DEF IInv, TypeOK, RowShape
  <1>2. \A n \in Incidents : status[n] # "unused" =>
          /\ alertOf'[n] = alertOf[n]
          /\ version'[n] >= version[n]
          /\ status'[n] = IF status[n] \in Active /\ notice[alertOf[n]] = "resolved"
                          THEN "resolved" ELSE status[n]
    BY DEF Deliver, Used, Recovered
  <1>3. \A n \in Incidents : status[n] = "unused" =>
          \/ status'[n] = "unused"
          \/ /\ status'[n] = "open" /\ version'[n] = 1
             /\ \E a \in Unattended(notice) : created[a] = n /\ alertOf'[n] = a
    <2> SUFFICES ASSUME NEW n \in Incidents, status[n] = "unused", status'[n] # "unused"
                 PROVE  /\ status'[n] = "open" /\ version'[n] = 1
                        /\ \E a \in Unattended(notice) : created[a] = n /\ alertOf'[n] = a
      OBVIOUS
    <2>1. n \in {created[a] : a \in Unattended(notice)}
      BY DEF Deliver, Recovered, Active
    <2> QED BY <2>1 DEF Deliver
  <1>4. \A a \in Unattended(notice) :
          created[a] \in Incidents /\ status'[created[a]] = "open" /\ alertOf'[created[a]] = a
    <2> SUFFICES ASSUME NEW a \in Unattended(notice)
                 PROVE  /\ created[a] \in Incidents /\ status'[created[a]] = "open"
                        /\ alertOf'[created[a]] = a
      OBVIOUS
    <2>1. created[a] \in Incidents
      BY DEF Used
    <2>2. PICK b \in Unattended(notice) : created[b] = created[a] /\ alertOf'[created[a]] = b
      BY <2>1 DEF Deliver
    <2>3. a = b
      BY <2>2 DEF Deliver, Unattended
    <2> QED BY <2>1, <2>2, <2>3 DEF Deliver
  <1>5. \A a \in Alerts :
          /\ alert'[a] = IF notice[a] = "none" THEN alert[a] ELSE notice[a]
          /\ dismissed'[a] = (notice[a] = "none" /\ dismissed[a])
    BY DEF Deliver
  <1>6. UNCHANGED <<record, recorded, pc, request>>
    BY DEF Deliver, recordVars, requestVars
  <1>7. RowShape'
    <2> SUFFICES ASSUME NEW n \in Incidents
                 PROVE  IF status'[n] = "unused" THEN version'[n] = 0
                        ELSE alertOf'[n] \in Alerts /\ version'[n] > 0
      BY DEF RowShape
    <2>1. CASE status[n] = "unused" /\ status'[n] = "unused"
      BY <2>1 DEF Deliver, Recovered, Active
    <2>2. CASE status[n] = "unused" /\ status'[n] # "unused"
      BY <1>3, <2>2 DEF Unattended
    <2>3. CASE status[n] # "unused"
      <3>1. version'[n] > 0
        BY <1>1, <1>2, <2>3
      <3>2. alertOf'[n] \in Alerts /\ status'[n] # "unused"
        BY <1>2, <2>3
      <3> QED BY <3>1, <3>2
    <2> QED BY <2>1, <2>2, <2>3
  <1>8. RecordShape'
    <2>1. ASSUME NEW t \in Attempts, pc[t] = "done" PROVE request[t][2] < version'[request[t][1]]
      <3>1. request[t] \in Incidents \X Nat /\ request[t][2] < version[request[t][1]]
        BY <2>1 DEF RecordShape
      <3>2. status[request[t][1]] # "unused"
        BY <3>1
      <3> QED BY <1>1, <1>2, <3>1, <3>2
    <2> QED BY <1>6, <2>1 DEF RecordShape
  <1>9. OneActivePerAlert'
    <2> SUFFICES ASSUME NEW m \in Incidents, NEW n \in Incidents, status'[m] \in Active,
                        status'[n] \in Active, alertOf'[m] = alertOf'[n]
                 PROVE  m = n
      BY DEF OneActivePerAlert
    <2>1. CASE status[m] # "unused" /\ status[n] # "unused"
      BY <1>2, <2>1 DEF OneActivePerAlert, Active
    <2>2. CASE status[m] = "unused" /\ status[n] = "unused"
      BY <1>3, <2>2 DEF Active
    <2>3. CASE status[m] = "unused" /\ status[n] # "unused"
      BY <1>2, <1>3, <2>3 DEF Active, Unattended, ActiveOf
    <2>4. CASE status[m] # "unused" /\ status[n] = "unused"
      BY <1>2, <1>3, <2>4 DEF Active, Unattended, ActiveOf
    <2> QED BY <2>1, <2>2, <2>3, <2>4
  <1>10. CriticalIsAttended'
    <2> SUFFICES ASSUME NEW a \in Alerts, alert'[a] = "critical", ~dismissed'[a]
                 PROVE  \E n \in Incidents : status'[n] \in Active /\ alertOf'[n] = a
      BY DEF CriticalIsAttended, ActiveOf
    <2>1. CASE a \in Unattended(notice)
      BY <1>4, <2>1 DEF Active
    <2>2. CASE a \notin Unattended(notice)
      <3>1. PICK n \in Incidents : status[n] \in Active /\ alertOf[n] = a
        BY <1>5, <2>2 DEF Unattended, ActiveOf, CriticalIsAttended
      <3>2. notice[a] # "resolved"
        BY <1>5
      <3> QED BY <1>2, <3>1, <3>2 DEF Active
    <2> QED BY <2>1, <2>2
  <1>11. ResolvedHasNoIncident'
    <2> SUFFICES ASSUME NEW a \in Alerts, alert'[a] = "resolved", NEW n \in Incidents,
                        status'[n] \in Active, alertOf'[n] = a
                 PROVE  FALSE
      BY DEF ResolvedHasNoIncident, ActiveOf
    <2>1. CASE status[n] = "unused"
      BY <1>3, <1>5, <2>1 DEF Active, Unattended
    <2>2. CASE status[n] # "unused"
      BY <1>2, <1>5, <2>2 DEF Active, ResolvedHasNoIncident, ActiveOf
    <2> QED BY <2>1, <2>2
  <1>12. VersionWonOnce' /\ ReplayIsTruthful'
    BY <1>6 DEF VersionWonOnce, ReplayIsTruthful
  <1> QED BY <1>1, <1>7, <1>8, <1>9, <1>10, <1>11, <1>12

\* Every step of a request keeps the invariant; carrying it out consumes the
\* version it was about.
LEMMA InvOperator == ASSUME IInv, NEW t \in Attempts, Operator(t) PROVE IInv'
  <1> USE DEF IInv, TypeOK, RowShape, RecordShape, OneActivePerAlert, CriticalIsAttended,
              ResolvedHasNoIncident, VersionWonOnce, ReplayIsTruthful, ActiveOf, Active,
              Statuses, PCs, incidentVars, recordVars
  <1>1. ASSUME NEW n \in Used, NEW v \in 1..version[n], Look(t, n, v) PROVE IInv'
    <2>1. n \in Incidents /\ v \in Nat /\ <<n, v>> \in Incidents \X Nat
      BY DEF Used
    <2>2. TypeOK'
      BY <1>1, <2>1 DEF Look, Bodies
    <2>3. RecordShape'
      BY <1>1, <2>1 DEF Look
    <2>4. ReplayIsTruthful'
      <3>1. \A s \in Attempts : s # t => pc'[s] = pc[s] /\ request'[s] = request[s]
        BY <1>1 DEF Look
      <3>2. pc[t] = "idle" /\ request'[t] = <<n, v>> /\ pc'[t] # "done"
        BY <1>1 DEF Look
      <3>3. ASSUME pc'[t] = "replayed"
            PROVE  \E s \in Attempts : pc[s] = "done" /\ KeyOf[s] = KeyOf[t] /\ request[s] = <<n, v>>
        <4>1. record[KeyOf[t]] = "live" /\ recorded[KeyOf[t]] = <<n, v>>
          BY <1>1, <3>3 DEF Look, SameRequest
        <4> QED BY <4>1
      <3>4. \A s \in Attempts : pc[s] = "done" => pc'[s] = "done" /\ request'[s] = request[s]
        BY <3>1, <3>2
      <3>5. ASSUME NEW u \in Attempts, pc'[u] = "replayed"
            PROVE  \E s \in Attempts : pc'[s] = "done" /\ KeyOf[s] = KeyOf[u] /\ request'[s] = request'[u]
        <4>1. CASE u = t
          <5>1. PICK s \in Attempts : pc[s] = "done" /\ KeyOf[s] = KeyOf[t] /\ request[s] = <<n, v>>
            BY <3>3, <3>5, <4>1
          <5>2. pc'[s] = "done" /\ KeyOf[s] = KeyOf[u] /\ request'[s] = request'[u]
            BY <3>2, <3>4, <4>1, <5>1
          <5> QED BY <5>2
        <4>2. CASE u # t
          BY <3>1, <3>4, <3>5, <4>2
        <4> QED BY <4>1, <4>2
      <3> QED BY <3>5
    <2>5. VersionWonOnce'
      BY <1>1, <2>1 DEF Look
    <2> QED BY <1>1, <2>2, <2>3, <2>4, <2>5 DEF Look
  <1>2. ASSUME NEW n \in Incidents, NEW v \in 1..version[n], Transit(t, n, v) PROVE IInv'
    <2> USE DEF StatusAfter, Permitted
    <2>1. <<n, v>> \in Incidents \X Nat /\ request[t][1] = n /\ request[t][2] = v /\ version[n] = v
      BY <1>2 DEF Transit
    <2>2. KeyOf[t] \in Keys /\ ActionOf[KeyOf[t]] \in {"acknowledge", "resolve"}
      OBVIOUS
    <2>3. TypeOK'
      BY <1>2, <2>1, <2>2 DEF Transit, Bodies
    <2>4. RowShape'
      BY <1>2, <2>1, <2>2 DEF Transit
    <2>5. RecordShape'
      <3>1. /\ pc'[t] = "done" /\ request' = request /\ request[t] = <<n, v>>
            /\ record'[KeyOf[t]] = "live" /\ recorded'[KeyOf[t]] = <<n, v>>
        BY <1>2, <2>2 DEF Transit
      <3>2. /\ \A s \in Attempts : s # t => pc'[s] = pc[s]
            /\ \A k \in Keys : k # KeyOf[t] => record'[k] = record[k] /\ recorded'[k] = recorded[k]
            /\ pc[t] = "checked"
        BY <1>2, <2>2 DEF Transit
      <3>3. version'[n] = v + 1 /\ \A m \in Incidents : version'[m] >= version[m]
        BY <1>2, <2>1 DEF Transit
      <3>4. ASSUME NEW k \in Keys, record'[k] = "live"
            PROVE  \E s \in Attempts : pc'[s] = "done" /\ KeyOf[s] = k /\ request'[s] = recorded'[k]
        <4>1. CASE k = KeyOf[t]
          BY <3>1, <4>1
        <4>2. CASE k # KeyOf[t]
          <5>1. PICK s \in Attempts : pc[s] = "done" /\ KeyOf[s] = k /\ request[s] = recorded[k]
            BY <3>2, <3>4, <4>2
          <5> QED BY <3>1, <3>2, <4>2, <5>1
        <4> QED BY <4>1, <4>2
      <3>5. ASSUME NEW s \in Attempts, pc'[s] # "idle" PROVE request'[s] \in Incidents \X Nat
        BY <2>1, <3>1, <3>2, <3>5
      <3>6. ASSUME NEW s \in Attempts, pc'[s] = "done"
            PROVE  request'[s][2] < version'[request'[s][1]]
        <4>1. CASE s = t
          BY <2>1, <3>1, <3>3, <4>1
        <4>2. CASE s # t
          <5>1. request[s] \in Incidents \X Nat /\ request[s][2] < version[request[s][1]]
            BY <3>2, <3>6, <4>2
          <5> QED BY <2>3, <3>1, <3>3, <5>1
        <4> QED BY <4>1, <4>2
      <3> QED BY <3>4, <3>5, <3>6 DEF RecordShape
    <2>6. OneActivePerAlert' /\ ResolvedHasNoIncident'
      BY <1>2, <2>1, <2>2 DEF Transit
    <2>7. CriticalIsAttended'
      <3> SUFFICES ASSUME NEW a \in Alerts, alert'[a] = "critical", ~dismissed'[a]
                   PROVE  \E m \in Incidents : status'[m] \in Active /\ alertOf'[m] = a
        OBVIOUS
      <3>1. alert[a] = "critical" /\ ~dismissed[a] /\ alertOf' = alertOf
        BY <1>2 DEF Transit
      <3>2. a = alertOf[n] => ActionOf[KeyOf[t]] # "resolve"
        BY <1>2 DEF Transit
      <3>3. PICK m \in Incidents : status[m] \in Active /\ alertOf[m] = a
        BY <3>1
      <3>4. CASE m = n
        BY <1>2, <2>2, <3>1, <3>2, <3>3, <3>4 DEF Transit
      <3>5. CASE m # n
        BY <1>2, <3>1, <3>3, <3>5 DEF Transit
      <3> QED BY <3>4, <3>5
    <2>8. VersionWonOnce'
      BY <1>2, <2>1, <2>2 DEF Transit
    <2>9. ReplayIsTruthful'
      <3>1. /\ request' = request /\ pc[t] = "checked" /\ pc'[t] = "done"
            /\ \A s \in Attempts : s # t => pc'[s] = pc[s]
        BY <1>2 DEF Transit
      <3> QED BY <3>1
    <2> QED BY <2>3, <2>4, <2>5, <2>6, <2>7, <2>8, <2>9
  <1>3. ASSUME NEW n \in Incidents, NEW v \in 1..version[n], Refuse(t, n, v) PROVE IInv'
    BY <1>3 DEF Refuse
  <1>4. CASE Abort(t)
    BY <1>4 DEF Abort
  <1> QED BY <1>1, <1>2, <1>3, <1>4 DEF Operator

\* Expiry and pruning of a record keep the invariant.
LEMMA InvRecords == ASSUME IInv, NEW k \in Keys, Expire(k) \/ PruneRecord(k) PROVE IInv'
  <1> USE DEF IInv
  <1>1. UNCHANGED <<alert, status, alertOf, version, recorded, pc, request, deliveries, dismissed>>
    BY DEF Expire, PruneRecord, incidentVars, requestVars
  <1>2. /\ record' \in [Keys -> {"none", "live", "expired"}]
        /\ \A l \in Keys : record'[l] = "live" => record[l] = "live"
    BY DEF Expire, PruneRecord, TypeOK
  <1>3. TypeOK' /\ RowShape'
    BY <1>1, <1>2 DEF TypeOK, RowShape
  <1>4. RecordShape'
    BY <1>1, <1>2 DEF RecordShape
  <1>5. OneActivePerAlert' /\ CriticalIsAttended' /\ ResolvedHasNoIncident'
    BY <1>1 DEF OneActivePerAlert, CriticalIsAttended, ResolvedHasNoIncident, ActiveOf
  <1>6. VersionWonOnce' /\ ReplayIsTruthful'
    BY <1>1 DEF VersionWonOnce, ReplayIsTruthful
  <1> QED BY <1>3, <1>4, <1>5, <1>6

\* The inductive invariant holds in every reachable state.
THEOREM IncidentInv == Spec => []IInv
  <1>1. IInv /\ UNCHANGED vars => IInv'
    BY DEF IInv, TypeOK, RowShape, RecordShape, OneActivePerAlert, CriticalIsAttended,
       ResolvedHasNoIncident, VersionWonOnce, ReplayIsTruthful, ActiveOf, vars,
       incidentVars, recordVars, requestVars
  <1>2. IInv /\ [Next]_vars => IInv'
    BY InvWebhook, InvOperator, InvRecords, <1>1 DEF Next
  <1> QED BY IncidentInit, <1>2, PTL DEF Spec

\* Type correctness of alerts, incidents, records and requests.
THEOREM IncidentTypeCorrect == Spec => []TypeOK
  <1>1. IInv => TypeOK
    BY DEF IInv
  <1> QED BY IncidentInv, <1>1, PTL

\* No delivery ever meets the unique index on active incidents.
THEOREM OneActiveCorrect == Spec => []OneActivePerAlert
  <1>1. IInv => OneActivePerAlert
    BY DEF IInv
  <1> QED BY IncidentInv, <1>1, PTL

\* A critical alert is attended and a resolved one has no incident, however
\* deliveries and operators interleave.
THEOREM AlertsAgree == Spec => []IncidentsFollow
  <1>1. IInv => IncidentsFollow
    BY DEF IInv, IncidentsFollow
  <1> QED BY IncidentInv, <1>1, PTL

\* No version of an incident is transitioned twice, whatever keys are reused,
\* expired or pruned.
THEOREM VersionWonOnceCorrect == Spec => []VersionWonOnce
  <1>1. IInv => VersionWonOnce
    BY DEF IInv
  <1> QED BY IncidentInv, <1>1, PTL

\* A replayed answer is an answer to that request.
THEOREM ReplayIsTruthfulCorrect == Spec => []ReplayIsTruthful
  <1>1. IInv => ReplayIsTruthful
    BY DEF IInv
  <1> QED BY IncidentInv, <1>1, PTL

\* An incident never moves backwards.
THEOREM NeverReopenedCorrect == Spec => NeverReopened
  <1>1. IInv /\ [Next]_vars =>
          [\A n \in Incidents :
             /\ status[n] = "resolved" => status'[n] = "resolved"
             /\ status[n] = "acknowledged" => status'[n] # "open"]_vars
    <2> SUFFICES ASSUME IInv, Next, NEW n \in Incidents
                 PROVE  /\ status[n] = "resolved" => status'[n] = "resolved"
                        /\ status[n] = "acknowledged" => status'[n] # "open"
      OBVIOUS
    <2> USE DEF IInv, TypeOK, Active
    <2>1. CASE Webhook
      BY <2>1 DEF Webhook, Deliver, Used, Recovered
    <2>2. ASSUME NEW t \in Attempts, Operator(t)
          PROVE  /\ status[n] = "resolved" => status'[n] = "resolved"
                 /\ status[n] = "acknowledged" => status'[n] # "open"
      BY <2>2 DEF Operator, Look, Transit, Refuse, Abort, Permitted, StatusAfter, incidentVars
    <2>3. ASSUME NEW k \in Keys, Expire(k) \/ PruneRecord(k) PROVE status' = status
      BY <2>3 DEF Expire, PruneRecord, incidentVars
    <2> QED BY <2>1, <2>2, <2>3 DEF Next
  <1> QED BY IncidentInv, <1>1, PTL DEF Spec, NeverReopened
===============================================================================
