------------------------------ MODULE ApiServer -------------------------------
(***************************************************************************)
(* The process of the HTTP API: the routes of src/http/application.ts with *)
(* what is before and behind them, the loss of clients, and the end of the *)
(* process, by the shutdown of src/main.ts or suddenly.                    *)
(*                                                                         *)
(* A request takes one of four ways.  A webhook goes by the authentication *)
(* of /api/v1 and ends in WebhookReplay; the other three pass the gate of  *)
(* Sessions: an intake (create or enqueue) ends in IdempotentIntake, a     *)
(* revocation in Sessions, a metrics query in MetricsAdmission.  The four  *)
(* components share the clock of the database and die together.            *)
(*                                                                         *)
(* A handler goes on when its client is gone, and the effect of a          *)
(* transaction is there before the answer is: the client of a lost answer  *)
(* does not know, and sends the request again.                             *)
(***************************************************************************)
EXTENDS Integers, FiniteSets

CONSTANTS
  Requests,
  Ways,                 \* Ways[r]: the routes that request r may be sent to
  MaxClock,             \* bound: the last instant of the clock
  Nonces, Stamp, NonceOf, Window, Retention, MaxDelay,    \* of WebhookReplay
  Keys, Names, KeyOf, BodyOf, NameOf, NoRequest, TTL,     \* of IdempotentIntake
  JobRetention,
  Tokens, IssuedAt, Expires, TokenOf, Tolerance, MaxAge,  \* of Sessions
  Skews,
  Limit                                                   \* of MetricsAdmission

VARIABLES
  now,                                     \* the clock of PostgreSQL
  wpc, checkedAt, begunAt, stored, receivedAt,                \* WebhookReplay
  jobKeys, ipc, began, owed, answer, until, holder, taken,  \* IdempotentIntake
  skew, gate, revoked, ever,                                       \* Sessions
  active, running,                                         \* MetricsAdmission
  server, \* "up", "closing", "ended" (the pool is), "down"
  route,  \* the way of a request; "over" when no handler works on it any more
  client  \* what the sender of a request knows

W == INSTANCE WebhookReplay WITH pc <- wpc
I == INSTANCE IdempotentIntake WITH pc <- ipc
S == INSTANCE Sessions
M == INSTANCE MetricsAdmission

ASSUME ApiAssumption ==
  /\ W!ReplayAssumption /\ I!IntakeAssumption
  /\ S!SessionAssumption /\ M!AdmissionAssumption
  /\ Ways \in [Requests -> SUBSET {"webhook", "intake", "revoke", "metrics"}]

webhookVars == <<wpc, checkedAt, begunAt, stored, receivedAt>>
intakeVars  == <<jobKeys, ipc, began, owed, answer, until, holder, taken>>
sessionVars == <<skew, gate, revoked, ever>>
metricsVars == <<active, running>>
vars == <<now, webhookVars, intakeVars, sessionVars, metricsVars, server, route, client>>

Routes == {"webhook", "intake", "revoke", "metrics"}

Init ==
  /\ W!Init /\ I!Init /\ S!Init /\ M!Init
  /\ server = "up"
  /\ route  = [r \in Requests |-> "none"]
  /\ client = [r \in Requests |-> "idle"]

Tick ==
  /\ W!Tick
  /\ UNCHANGED <<intakeVars, sessionVars, metricsVars, server, route, client>>

\* The pool gives out clients until it is ended.
Pool == server \in {"up", "closing"}

-------------------------------------------------------------------------------
(* Requests arrive, are turned away, and are answered.                     *)

Arrive(r) ==
  /\ server = "up" /\ client[r] = "idle"
  /\ client' = [client EXCEPT ![r] = "open"]
  /\ \E way \in Ways[r] : route' = [route EXCEPT ![r] = way]
  /\ UNCHANGED <<now, webhookVars, intakeVars, sessionVars, metricsVars, server>>

\* The handler is through; a client that is gone is not told.
End(r, what) ==
  /\ route' = [route EXCEPT ![r] = "over"]
  /\ client' = [client EXCEPT ![r] = IF @ = "open" THEN what ELSE @]

\* The client goes away, or its connection breaks.
Lose(r) ==
  /\ client[r] = "open" /\ route[r] # "over"
  /\ client' = [client EXCEPT ![r] = "gone"]
  /\ UNCHANGED <<now, webhookVars, intakeVars, sessionVars, metricsVars, server, route>>

\* The route of a request is taken, and nothing of its handler has been done.
Untouched(r) ==
  /\ route[r] \in Routes
  /\ wpc[r] = "idle" /\ ipc[r] = "idle" /\ r \notin running
  /\ gate[r] # "revoked"

Admitted(r, way) == route[r] = way /\ gate[r] = "admitted"

\* The rate limit, a malformed request, no token or permission; a pool that has
\* ended; METRICS_CONCURRENCY_LIMIT is one of the reasons, too.
TurnAway(r) ==
  /\ Untouched(r)
  /\ gate[r] \in {"idle", "admitted"} \/ ~ Pool
  /\ End(r, "gone")
  /\ UNCHANGED <<now, webhookVars, intakeVars, sessionVars, metricsVars, server>>

\* What the handler awaits has been committed.
Done(r) ==
  wpc[r] = "processed" \/ ipc[r] \in {"created", "replayed"} \/ gate[r] = "revoked"

Accept(r) ==
  /\ route[r] \in Routes /\ Done(r) /\ End(r, "accepted")
  /\ UNCHANGED <<now, webhookVars, intakeVars, sessionVars, metricsVars, server>>

\* An error that the error handler makes an answer of.
Decline(r) ==
  /\ route[r] \in Routes
  /\ \/ wpc[r] \in {"replayed", "refused"} \/ gate[r] = "unauthorized"
     \/ ipc[r] \in {"reused", "conflict", "refused"}
  /\ End(r, "gone")
  /\ UNCHANGED <<now, webhookVars, intakeVars, sessionVars, metricsVars, server>>

-------------------------------------------------------------------------------
(* The handlers.                                                           *)

Webhook(r) ==
  /\ route[r] = "webhook"
  /\ \/ Pool /\ (W!Check(r) \/ W!Begin(r))
     \/ W!Process(r) \/ W!Replayed(r) \/ W!Refuse(r)
  /\ UNCHANGED <<intakeVars, sessionVars, metricsVars, server, route, client>>

Gated(r) == route[r] \in Routes \ {"webhook"}

Authenticate(r) ==
  /\ Gated(r)
  /\ S!Verify(r) \/ (Pool /\ S!AssertActive(r)) \/ S!Refuse(r)
  /\ UNCHANGED <<webhookVars, intakeVars, metricsVars, server, route, client>>

RevokeCurrent(r) ==
  /\ Pool /\ Admitted(r, "revoke") /\ S!Revoke(r)
  /\ UNCHANGED <<webhookVars, intakeVars, metricsVars, server, route, client>>

Intake(r) ==
  /\ Admitted(r, "intake")
  /\ \/ Pool /\ I!Begin(r)
     \/ I!Replay(r) \/ I!Reuse(r) \/ I!FindNothing(r)
     \/ I!Store(r) \/ I!Conflict(r) \/ I!Refuse(r)
  /\ UNCHANGED <<webhookVars, sessionVars, metricsVars, server, route, client>>

Query(r) ==
  /\ Admitted(r, "metrics") /\ M!Enter(r)
  /\ UNCHANGED <<now, webhookVars, intakeVars, sessionVars, server, route, client>>

QueryEnds(r) ==
  /\ \E ok \in BOOLEAN : M!Leave(r, ok) /\ End(r, "gone")
  /\ UNCHANGED <<now, webhookVars, intakeVars, sessionVars, server>>

-------------------------------------------------------------------------------
(* Maintenance, which runs in the worker.                                  *)

Maintain ==
  /\ \/ \E n \in Nonces : W!Prune(n) /\ UNCHANGED <<intakeVars, sessionVars>>
     \/ \E k \in Keys : I!Prune(k) /\ UNCHANGED <<webhookVars, sessionVars>>
     \/ \E t \in Tokens : S!Prune(t) /\ UNCHANGED <<webhookVars, intakeVars>>
  /\ UNCHANGED <<metricsVars, server, route, client>>

-------------------------------------------------------------------------------
(* The end of the process and its next start.                              *)

serves == <<now, webhookVars, intakeVars, sessionVars, metricsVars, route, client>>

\* SIGTERM: no connection is accepted any more.
Shutdown == server = "up" /\ server' = "closing" /\ UNCHANGED serves

\* Every connection is closed, also those whose clients have left before their
\* handlers are through.
EndPool ==
  /\ server = "closing"
  /\ \A r \in Requests : client[r] # "open"
  /\ server' = "ended" /\ UNCHANGED serves

Transaction(r) == wpc[r] = "begun" \/ ipc[r] \in {"begun", "storing"}

Die ==
  /\ server' = "down"
  /\ W!Die /\ I!Die /\ M!Die
  /\ route'  = [r \in Requests |-> IF route[r] = "none" THEN "none" ELSE "over"]
  /\ client' = [r \in Requests |-> IF client[r] = "open" THEN "gone" ELSE client[r]]
  /\ UNCHANGED <<now, sessionVars>>

\* pool.end has waited for the clients of the pool, and process.exit(0).
Exit == server = "ended" /\ (\A r \in Requests : ~ Transaction(r)) /\ Die

\* The ten seconds of the shutdown are over, or the process is killed.
Kill == server # "down" /\ Die

Restart ==
  /\ server = "down"
  /\ server' = "up" /\ UNCHANGED serves

Handler(r) ==
  \/ TurnAway(r) \/ Webhook(r) \/ Authenticate(r) \/ RevokeCurrent(r)
  \/ Intake(r) \/ Query(r) \/ QueryEnds(r) \/ Accept(r) \/ Decline(r)

Next ==
  \/ Tick \/ Maintain
  \/ \E r \in Requests : Arrive(r) \/ Lose(r) \/ Handler(r)
  \/ Shutdown \/ EndPool \/ Exit \/ Kill \/ Restart

Spec == Init /\ [][Next]_vars

-------------------------------------------------------------------------------
(* Properties: what the components promise, in the process that runs them. *)

TypeOK ==
  /\ W!TypeOK /\ I!TypeOK /\ S!TypeOK /\ M!TypeOK
  /\ server \in {"up", "closing", "ended", "down"}
  /\ route  \in [Requests -> Routes \cup {"none", "over"}]
  /\ client \in [Requests -> {"idle", "open", "gone", "accepted"}]

\* A delivery is processed once, whoever sends it again after the process died
\* under it or its answer was lost.
ProcessedOnce == W!ProcessedOnce

\* Only a delivery that was processed is called a replay: one the process died
\* under is not.
ReplayWasProcessed == W!ReplayWasProcessed

\* A key adds one row as long as its record, or its job, is kept.
CreatedOnce == I!CreatedOnce

\* What a replayed answer says, and that a key was used before, is true.
ReplayIsTruthful == I!ReplayIsTruthful

\* A repetition after the commit is given the row of the first request, also
\* when the first answer was never sent.
RetryReplays == I!RetryReplays

\* A revoked token opens nothing before it expires.
RevocationHolds == S!RevocationHolds

\* The count of metrics queries is that of the running ones, across failures,
\* lost clients and restarts.
QueriesCounted == M!QueriesCounted

\* The request whose row an answer of the intake tells of.
RowOf(r) == IF ipc[r] = "replayed" THEN answer[r] ELSE r

\* What a client was told of is in the tables for as long as it counts, whoever
\* else sends the delivery or the key, whatever maintenance deletes and whenever
\* the process dies: the receipt until the timestamp is too old to be accepted,
\* the record or job of the row until its time is over, the revocation until the
\* token has expired.
AcceptedIsStored ==
  \A r \in Requests : client[r] = "accepted" =>
    \/ /\ wpc[r] = "processed"
       /\ NonceOf[r] \in stored \/ Stamp[NonceOf[r]] + Window < now
    \/ /\ ipc[r] \in {"created", "replayed"}
       /\ holder[KeyOf[r]] = RowOf(r) \/ until[RowOf(r)] < now
    \/ /\ gate[r] = "revoked"
       /\ TokenOf[r] \in revoked \/ Expires[TokenOf[r]] < now
===============================================================================
