---------------------------- MODULE ApiServerProofs ----------------------------
(***************************************************************************)
(* Proofs that the process of the API implements each of its components,   *)
(* what the components promise, and that it then holds of the process:     *)
(* for any requests, keys, tokens and times, with a retention of receipts  *)
(* of at least 2 * Window + MaxDelay where it matters.                     *)
(***************************************************************************)
EXTENDS ApiServer, FiniteSetTheorems, TLAPS

-------------------------------------------------------------------------------
(* The process implements its components.                                  *)

\* Every step of the process is one of webhook processing, or leaves it alone.
LEMMA WebhookStep == [Next]_vars => [W!Next]_W!vars
  <1> SUFFICES ASSUME [Next]_vars PROVE W!Next \/ UNCHANGED W!vars
    OBVIOUS
  <1> USE DEF W!vars, webhookVars
  <1>1. CASE Tick
    BY <1>1 DEF Tick, W!Next
  <1>2. CASE Maintain
    BY <1>2 DEF Maintain, W!Next, I!Prune, S!Prune
  <1>3. ASSUME NEW r \in Requests, Handler(r) PROVE W!Next \/ UNCHANGED W!vars
    <2>1. CASE Webhook(r)
      BY <2>1 DEF Webhook, W!Next
    <2>2. CASE TurnAway(r) \/ Accept(r) \/ Decline(r) \/ Query(r) \/ QueryEnds(r)
      BY <2>2 DEF TurnAway, Accept, Decline, Query, QueryEnds
    <2>3. CASE Authenticate(r) \/ RevokeCurrent(r)
      BY <2>3 DEF Authenticate, RevokeCurrent, S!Verify, S!AssertActive, S!Refuse, S!Revoke
    <2>4. CASE Intake(r)
      BY <2>4 DEF Intake, I!Begin, I!Replay, I!Reuse, I!FindNothing, I!Store, I!Conflict, I!Refuse
    <2> QED BY <1>3, <2>1, <2>2, <2>3, <2>4 DEF Handler
  <1>4. CASE \E r \in Requests : Arrive(r) \/ Lose(r)
    BY <1>4 DEF Arrive, Lose
  <1>5. CASE Shutdown \/ EndPool \/ Restart
    BY <1>5 DEF Shutdown, EndPool, Restart, serves
  <1>6. CASE Exit \/ Kill
    BY <1>6 DEF Exit, Kill, Die, W!Next
  <1>7. CASE UNCHANGED vars
    BY <1>7 DEF vars
  <1> QED BY <1>1, <1>2, <1>3, <1>4, <1>5, <1>6, <1>7 DEF Next

\* The same for the intake of idempotent requests.
LEMMA IntakeStep == [Next]_vars => [I!Next]_I!vars
  <1> SUFFICES ASSUME [Next]_vars PROVE I!Next \/ UNCHANGED I!vars
    OBVIOUS
  <1> USE DEF I!vars, intakeVars
  <1>1. CASE Tick
    BY <1>1 DEF Tick, W!Tick, I!Next, I!Tick
  <1>2. CASE Maintain
    BY <1>2 DEF Maintain, I!Next, W!Prune, S!Prune
  <1>3. ASSUME NEW r \in Requests, Handler(r) PROVE I!Next \/ UNCHANGED I!vars
    <2>1. CASE Webhook(r)
      BY <2>1 DEF Webhook, W!Check, W!Begin, W!Process, W!Replayed, W!Refuse
    <2>2. CASE TurnAway(r) \/ Accept(r) \/ Decline(r) \/ Query(r) \/ QueryEnds(r)
      BY <2>2 DEF TurnAway, Accept, Decline, Query, QueryEnds
    <2>3. CASE Authenticate(r) \/ RevokeCurrent(r)
      BY <2>3 DEF Authenticate, RevokeCurrent, S!Verify, S!AssertActive, S!Refuse, S!Revoke
    <2>4. CASE Intake(r)
      BY <2>4 DEF Intake, I!Next, I!Request
    <2> QED BY <1>3, <2>1, <2>2, <2>3, <2>4 DEF Handler
  <1>4. CASE \E r \in Requests : Arrive(r) \/ Lose(r)
    BY <1>4 DEF Arrive, Lose
  <1>5. CASE Shutdown \/ EndPool \/ Restart
    BY <1>5 DEF Shutdown, EndPool, Restart, serves
  <1>6. CASE Exit \/ Kill
    BY <1>6 DEF Exit, Kill, Die, I!Next
  <1>7. CASE UNCHANGED vars
    BY <1>7 DEF vars
  <1> QED BY <1>1, <1>2, <1>3, <1>4, <1>5, <1>6, <1>7 DEF Next

\* The same for sessions.
LEMMA SessionStep == [Next]_vars => [S!Next]_S!vars
  <1> SUFFICES ASSUME [Next]_vars PROVE S!Next \/ UNCHANGED S!vars
    OBVIOUS
  <1> USE DEF S!vars, sessionVars
  <1>1. CASE Tick
    BY <1>1 DEF Tick, W!Tick, S!Next, S!Tick
  <1>2. CASE Maintain
    BY <1>2 DEF Maintain, S!Next, W!Prune, I!Prune
  <1>3. ASSUME NEW r \in Requests, Handler(r) PROVE S!Next \/ UNCHANGED S!vars
    <2>1. CASE Webhook(r)
      BY <2>1 DEF Webhook, W!Check, W!Begin, W!Process, W!Replayed, W!Refuse
    <2>2. CASE TurnAway(r) \/ Accept(r) \/ Decline(r) \/ Query(r) \/ QueryEnds(r)
      BY <2>2 DEF TurnAway, Accept, Decline, Query, QueryEnds
    <2>3. CASE Authenticate(r) \/ RevokeCurrent(r)
      BY <2>3 DEF Authenticate, RevokeCurrent, S!Next
    <2>4. CASE Intake(r)
      BY <2>4 DEF Intake, I!Begin, I!Replay, I!Reuse, I!FindNothing, I!Store, I!Conflict, I!Refuse
    <2> QED BY <1>3, <2>1, <2>2, <2>3, <2>4 DEF Handler
  <1>4. CASE \E r \in Requests : Arrive(r) \/ Lose(r)
    BY <1>4 DEF Arrive, Lose
  <1>5. CASE Shutdown \/ EndPool \/ Restart
    BY <1>5 DEF Shutdown, EndPool, Restart, serves
  <1>6. CASE Exit \/ Kill
    BY <1>6 DEF Exit, Kill, Die
  <1>7. CASE UNCHANGED vars
    BY <1>7 DEF vars
  <1> QED BY <1>1, <1>2, <1>3, <1>4, <1>5, <1>6, <1>7 DEF Next

\* The same for the admission of metrics queries.
LEMMA MetricsStep == [Next]_vars => [M!Next]_M!vars
  <1> SUFFICES ASSUME [Next]_vars PROVE M!Next \/ UNCHANGED M!vars
    OBVIOUS
  <1> USE DEF M!vars, metricsVars
  <1>1. CASE Tick \/ Maintain
    BY <1>1 DEF Tick, Maintain
  <1>2. ASSUME NEW r \in Requests, Handler(r) PROVE M!Next \/ UNCHANGED M!vars
    BY <1>2 DEF Handler, TurnAway, Accept, Decline, Webhook, Authenticate, RevokeCurrent, Intake,
       Query, QueryEnds, M!Next, M!Leave
  <1>3. CASE \E r \in Requests : Arrive(r) \/ Lose(r)
    BY <1>3 DEF Arrive, Lose
  <1>4. CASE Shutdown \/ EndPool \/ Restart
    BY <1>4 DEF Shutdown, EndPool, Restart, serves
  <1>5. CASE Exit \/ Kill
    BY <1>5 DEF Exit, Kill, Die, M!Next
  <1>6. CASE UNCHANGED vars
    BY <1>6 DEF vars
  <1> QED BY <1>1, <1>2, <1>3, <1>4, <1>5, <1>6 DEF Next

\* Whatever requests, maintenance and the end of the process do together is to
\* each of the four components a behaviour of its own specification.
THEOREM ImplementsComponents == Spec => W!Spec /\ I!Spec /\ S!Spec /\ M!Spec
  <1>1. Init => W!Init /\ I!Init /\ S!Init /\ M!Init
    BY DEF Init
  <1> QED
    BY <1>1, WebhookStep, IntakeStep, SessionStep, MetricsStep, PTL
       DEF Spec, W!Spec, I!Spec, S!Spec, M!Spec

-------------------------------------------------------------------------------
(* Webhook deliveries.                                                     *)

\* No request and no receipt satisfy the invariant.
LEMMA ReplayInit == W!Init => W!IInv
  BY ApiAssumption DEF W!ReplayAssumption, W!Init, W!IInv, W!TypeOK, W!PCs, W!RequestShape,
     W!ReceiptShape, W!PrunedIsStale, W!ProcessedOnce, W!ReplayWasProcessed, W!Pending

\* Every step keeps the invariant; pruning needs the retention to outlast the
\* window, to both sides of the timestamp, and a request in progress.
LEMMA ReplayNext ==
  ASSUME Retention >= 2 * Window + MaxDelay, W!IInv, [W!Next]_W!vars
  PROVE  W!IInv'
  <1> USE ApiAssumption
      DEF W!IInv, W!TypeOK, W!PCs, W!RequestShape, W!ReceiptShape, W!PrunedIsStale,
          W!ProcessedOnce, W!ReplayWasProcessed, W!Pending, W!ReplayAssumption
  <1>1. CASE W!Tick
    BY <1>1 DEF W!Tick
  <1>2. ASSUME NEW r \in Requests, W!Check(r) PROVE W!IInv'
    BY <1>2 DEF W!Check, W!Fresh
  <1>3. ASSUME NEW r \in Requests, W!Begin(r) PROVE W!IInv'
    BY <1>3 DEF W!Begin
  <1>4. ASSUME NEW r \in Requests, W!Process(r) PROVE W!IInv'
    <2> USE <1>4 DEF W!Process, W!End
    <2>1. W!TypeOK' /\ W!RequestShape' /\ W!ReceiptShape' /\ W!PrunedIsStale'
      OBVIOUS
    <2>2. \A q \in Requests : NonceOf[q] = NonceOf[r] => wpc[q] # "processed"
      <3> SUFFICES ASSUME NEW q \in Requests, NonceOf[q] = NonceOf[r], wpc[q] = "processed"
                   PROVE  FALSE
        OBVIOUS
      <3>1. Stamp[NonceOf[r]] + Window + MaxDelay < now
        OBVIOUS
      <3>2. now <= Stamp[NonceOf[r]] + Window + MaxDelay
        OBVIOUS
      <3> QED BY <3>1, <3>2
    <2>3. W!ProcessedOnce'
      BY <2>2
    <2>4. W!ReplayWasProcessed'
      OBVIOUS
    <2> QED BY <2>1, <2>3, <2>4
  <1>5. ASSUME NEW r \in Requests, W!Replayed(r) PROVE W!IInv'
    BY <1>5 DEF W!Replayed, W!End
  <1>6. ASSUME NEW r \in Requests, W!Refuse(r) PROVE W!IInv'
    BY <1>6 DEF W!Refuse, W!End
  <1>7. ASSUME NEW n \in Nonces, W!Prune(n) PROVE W!IInv'
    <2>1. Stamp[n] + Window + MaxDelay < now
      BY <1>7 DEF W!Prune, W!Prunable
    <2> QED BY <1>7, <2>1 DEF W!Prune
  <1>8. CASE W!Die
    BY <1>8 DEF W!Die
  <1>9. CASE UNCHANGED W!vars
    BY <1>9 DEF W!vars
  <1> QED BY <1>1, <1>2, <1>3, <1>4, <1>5, <1>6, <1>7, <1>8, <1>9 DEF W!Next

\* The invariant of webhook processing holds in the process of the API.
LEMMA ReplayInv ==
  ASSUME Retention >= 2 * Window + MaxDelay
  PROVE  Spec => []W!IInv
  <1>1. W!IInv /\ [W!Next]_W!vars => W!IInv'
    BY ReplayNext
  <1> QED BY ReplayInit, <1>1, ImplementsComponents, PTL DEF W!Spec

\* No delivery is processed twice, however often it is sent again, whenever its
\* receipt is pruned and whenever the process dies, when receipts are kept for
\* twice the window of the timestamp and the longest request.
THEOREM ProcessedOnceCorrect ==
  ASSUME Retention >= 2 * Window + MaxDelay
  PROVE  Spec => []ProcessedOnce
  <1>1. W!IInv => ProcessedOnce
    BY DEF W!IInv, ProcessedOnce
  <1> QED BY ReplayInv, <1>1, PTL

\* A delivery that is called a replay was processed: one the process died under
\* may be sent again.
THEOREM ReplayWasProcessedCorrect ==
  ASSUME Retention >= 2 * Window + MaxDelay
  PROVE  Spec => []ReplayWasProcessed
  <1>1. W!IInv => ReplayWasProcessed
    BY DEF W!IInv, ReplayWasProcessed
  <1> QED BY ReplayInv, <1>1, PTL

-------------------------------------------------------------------------------
(* Sessions.                                                               *)

\* No session has been revoked.
LEMMA SessionInit == S!Init => S!IInv
  BY DEF S!Init, S!IInv, S!TypeOK, S!Gates, S!RevokedForGood

\* Only revocations of expired tokens are deleted, and time only moves on.
LEMMA SessionNext == S!IInv /\ [S!Next]_S!vars => S!IInv'
  <1> SUFFICES ASSUME S!IInv, [S!Next]_S!vars PROVE S!IInv'
    OBVIOUS
  <1> USE ApiAssumption
      DEF S!SessionAssumption, S!IInv, S!TypeOK, S!Gates, S!RevokedForGood, S!Pass
  <1>1. CASE S!Tick
    BY <1>1 DEF S!Tick
  <1>2. ASSUME NEW r \in Requests, S!Verify(r) \/ S!AssertActive(r) \/ S!Refuse(r) PROVE S!IInv'
    BY <1>2 DEF S!Verify, S!AssertActive, S!Refuse
  <1>3. ASSUME NEW r \in Requests, S!Revoke(r) PROVE S!IInv'
    BY <1>3 DEF S!Revoke
  <1>4. ASSUME NEW u \in Tokens, S!Prune(u) PROVE S!IInv'
    BY <1>4 DEF S!Prune, S!Prunable
  <1>5. CASE UNCHANGED S!vars
    BY <1>5 DEF S!vars
  <1> QED BY <1>1, <1>2, <1>3, <1>4, <1>5 DEF S!Next

\* A step that admits a request asserts that its token is active.
LEMMA SessionAdmits ==
  ASSUME S!IInv, S!Next, NEW r \in Requests, gate[r] # "admitted", gate'[r] = "admitted"
  PROVE  TokenOf[r] \notin ever \/ Expires[TokenOf[r]] <= now
  <1> USE ApiAssumption
      DEF S!SessionAssumption, S!IInv, S!TypeOK, S!Gates, S!RevokedForGood, S!Pass
  <1>1. S!AssertActive(r)
    BY DEF S!Next, S!Tick, S!Verify, S!AssertActive, S!Refuse, S!Revoke, S!Prune
  <1> QED BY <1>1 DEF S!AssertActive, S!Standing

\* A token whose revocation has committed is admitted again only when it has
\* expired, by the clock of the database, and is within its tolerance.
THEOREM RevocationHoldsCorrect == Spec => RevocationHolds
  <1>1. S!IInv /\ [S!Next]_S!vars =>
          [\A r \in Requests : gate[r] # "admitted" /\ gate'[r] = "admitted"
             => TokenOf[r] \notin ever \/ Expires[TokenOf[r]] <= now]_S!vars
    BY SessionAdmits
  <1> QED
    BY <1>1, SessionInit, SessionNext, ImplementsComponents, PTL
       DEF S!Spec, RevocationHolds, S!RevocationHolds

-------------------------------------------------------------------------------
(* Idempotent intake.                                                      *)

\* No request and no record satisfy the invariant.
LEMMA IntakeInit == I!Init => I!IInv
  BY ApiAssumption DEF I!IntakeAssumption, I!Init, I!IInv, I!TypeOK, I!PCs, I!Over,
     I!RecordShape, I!OwedShape, I!ReplayIsTruthful

\* Every step keeps it: a created row is of the holder of its key until its
\* record may be deleted.
LEMMA IntakeNext ==
  ASSUME I!IInv, [I!Next]_I!vars
  PROVE  I!IInv'
  <1> USE ApiAssumption
      DEF I!IntakeAssumption, I!IInv, I!TypeOK, I!PCs, I!Over, I!RecordShape, I!OwedShape,
          I!ReplayIsTruthful, I!IsJob
  <1>1. CASE I!Tick
    BY <1>1 DEF I!Tick
  <1>2. CASE I!Die
    BY <1>2 DEF I!Die
  <1>3. ASSUME NEW r \in Requests, I!Begin(r) PROVE I!IInv'
    <2> USE <1>3 DEF I!Begin, I!FoundAt, I!SameBody
    <2>1. I!TypeOK'
      OBVIOUS
    <2>2. I!RecordShape' /\ I!ReplayIsTruthful'
      OBVIOUS
    <2>3. ASSUME NEW q \in Requests, owed'[q] # NoRequest
          PROVE  /\ ipc'[owed'[q]] = "created"
                 /\ KeyOf[owed'[q]] = KeyOf[q] /\ BodyOf[owed'[q]] = BodyOf[q]
                 /\ I!IsJob(q)' \/ began'[q] < until'[owed'[q]]
                 /\ ipc'[q] \in {"begun", "storing"}
                 /\ ipc'[q] = "storing" => until'[owed'[q]] < now'
      BY <2>3
    <2> QED BY <2>1, <2>2, <2>3
  <1>4. ASSUME NEW r \in Requests, I!Replay(r) PROVE I!IInv'
    BY <1>4 DEF I!Replay, I!End, I!Found, I!FoundAt, I!SameBody
  <1>5. ASSUME NEW r \in Requests, I!Reuse(r) PROVE I!IInv'
    BY <1>5 DEF I!Reuse, I!End, I!Found, I!FoundAt, I!SameBody
  <1>6. ASSUME NEW r \in Requests, I!FindNothing(r) PROVE I!IInv'
    BY <1>6 DEF I!FindNothing, I!Found, I!FoundAt
  <1>7. ASSUME NEW r \in Requests, I!Store(r) PROVE I!IInv'
    BY <1>7 DEF I!Store, I!End, I!Free
  <1>8. ASSUME NEW r \in Requests, I!Conflict(r) \/ I!Refuse(r) PROVE I!IInv'
    <2>1. CASE I!Conflict(r)
      BY <2>1 DEF I!Conflict, I!End
    <2>2. CASE I!Refuse(r)
      BY <2>2 DEF I!Refuse, I!End
    <2> QED BY <1>8, <2>1, <2>2
  <1>9. ASSUME NEW k \in Keys, I!Prune(k) PROVE I!IInv'
    BY <1>9 DEF I!Prune, I!Expired
  <1>10. CASE UNCHANGED I!vars
    BY <1>10 DEF I!vars
  <1> QED BY <1>1, <1>2, <1>3, <1>4, <1>5, <1>6, <1>7, <1>8, <1>9, <1>10 DEF I!Next, I!Request

\* The invariant of the intake holds in the process of the API.
LEMMA IntakeInv == Spec => []I!IInv /\ [][I!Next]_I!vars
  <1>1. I!IInv /\ [I!Next]_I!vars => I!IInv'
    BY IntakeNext
  <1> QED BY IntakeInit, <1>1, ImplementsComponents, PTL DEF I!Spec

\* A request of a key creates a row only when the earlier one is out of time.
LEMMA IntakeCreates ==
  ASSUME I!IInv, I!Next, NEW q \in Requests, NEW r \in Requests, q # r, KeyOf[q] = KeyOf[r],
         ipc[q] = "created", ipc[r] # "created", ipc'[r] = "created"
  PROVE  until[q] < now
  <1> USE ApiAssumption DEF I!IntakeAssumption, I!IInv, I!TypeOK, I!PCs, I!Over, I!End
  <1>1. I!Store(r)
    BY DEF I!Next, I!Request, I!Tick, I!Die, I!Begin, I!Replay, I!Reuse, I!FindNothing, I!Store,
       I!Conflict, I!Refuse, I!Prune
  <1> QED BY <1>1 DEF I!Store, I!Free, I!RecordShape

\* However requests overlap, a key adds a second row only after the record, or
\* the job, of the first has outlived its time.
THEOREM CreatedOnceCorrect == Spec => CreatedOnce
  <1>1. I!IInv /\ [I!Next]_I!vars =>
          [\A q, r \in Requests :
             /\ q # r /\ KeyOf[q] = KeyOf[r]
             /\ ipc[q] = "created" /\ ipc[r] # "created" /\ ipc'[r] = "created"
             => until[q] < now]_I!vars
    BY IntakeCreates
  <1> QED BY <1>1, IntakeInv, PTL DEF CreatedOnce, I!CreatedOnce

\* A replayed answer, and the statement that a key was used, are true.
THEOREM ReplayIsTruthfulCorrect == Spec => []ReplayIsTruthful
  <1>1. I!IInv => ReplayIsTruthful
    BY DEF I!IInv, ReplayIsTruthful
  <1> QED BY IntakeInv, <1>1, PTL

\* A request that could find the row of an earlier one ends with it.
LEMMA IntakeAnswers ==
  ASSUME I!IInv, I!Next, NEW r \in Requests, ipc[r] \notin I!Over, ipc'[r] \in I!Over,
         owed[r] # NoRequest, now <= until[owed[r]]
  PROVE  ipc'[r] = "refused" \/ (ipc'[r] = "replayed" /\ answer'[r] = owed[r])
  <1> USE ApiAssumption
      DEF I!IntakeAssumption, I!IInv, I!TypeOK, I!PCs, I!Over, I!RecordShape, I!OwedShape, I!IsJob
  <1>1. /\ holder[KeyOf[r]] = owed[r] /\ ipc[r] = "begun"
        /\ I!Found(r) /\ I!SameBody(holder[KeyOf[r]], r)
    BY DEF I!Found, I!FoundAt, I!SameBody
  <1>2. I!Replay(r) \/ I!Refuse(r) \/ I!Die
    BY <1>1 DEF I!Next, I!Request, I!Tick, I!Begin, I!Replay, I!Reuse, I!FindNothing, I!Store,
       I!Conflict, I!Refuse, I!Prune, I!End
  <1> QED BY <1>1, <1>2 DEF I!Replay, I!Refuse, I!Die, I!End

\* A repetition that could find the first row when it began is given that row,
\* unless it fails or its time is over: it is never told of a conflict.
THEOREM RetryReplaysCorrect == Spec => RetryReplays
  <1>1. I!IInv /\ [I!Next]_I!vars =>
          [\A r \in Requests :
             /\ ipc[r] \notin I!Over /\ ipc'[r] \in I!Over
             /\ owed[r] # NoRequest /\ now <= until[owed[r]]
             => ipc'[r] = "refused" \/ (ipc'[r] = "replayed" /\ answer'[r] = owed[r])]_I!vars
    BY IntakeAnswers
  <1> QED BY <1>1, IntakeInv, PTL DEF RetryReplays, I!RetryReplays

-------------------------------------------------------------------------------
(* Metrics queries.                                                        *)

\* The instance counts as the library does.
LEMMA SameCardinality == \A Q : M!Cardinality(Q) = Cardinality(Q) /\ (M!IsFiniteSet(Q) <=> IsFiniteSet(Q))
  BY DEF M!Cardinality, Cardinality, M!IsFiniteSet, IsFiniteSet

\* A query counts from its entry to its end, whichever way it ends.
LEMMA MetricsNext ==
  ASSUME M!TypeOK, M!QueriesCounted, [M!Next]_M!vars
  PROVE  M!TypeOK' /\ M!QueriesCounted'
  <1> USE ApiAssumption, SameCardinality DEF M!AdmissionAssumption, M!TypeOK, M!QueriesCounted
  <1>1. IsFiniteSet(running) /\ Cardinality(running) \in Nat
    BY FS_Subset, FS_CardinalityType
  <1>2. ASSUME NEW r \in Requests, M!Enter(r) PROVE M!TypeOK' /\ M!QueriesCounted'
    <2>1. Cardinality(running \cup {r}) = Cardinality(running) + 1
      BY <1>1, <1>2, FS_AddElement DEF M!Enter
    <2> QED BY <1>2, <2>1 DEF M!Enter, M!Full
  <1>3. ASSUME NEW r \in Requests, NEW ok \in BOOLEAN, M!Leave(r, ok)
        PROVE  M!TypeOK' /\ M!QueriesCounted'
    <2>1. /\ Cardinality(running \ {r}) = Cardinality(running) - 1
          /\ Cardinality(running \ {r}) \in Nat
      BY <1>1, <1>3, FS_RemoveElement, FS_CardinalityType DEF M!Leave
    <2> QED BY <1>1, <1>3, <2>1 DEF M!Leave, M!Left
  <1>4. CASE M!Die
    BY <1>4, FS_EmptySet DEF M!Die
  <1>5. CASE UNCHANGED M!vars
    BY <1>5 DEF M!vars
  <1> QED BY <1>2, <1>3, <1>4, <1>5 DEF M!Next

\* The count is that of the running queries, and within the limit.
THEOREM QueriesCountedCorrect == Spec => []QueriesCounted
  <1>1. M!Init => M!TypeOK /\ M!QueriesCounted
    BY ApiAssumption, FS_EmptySet, SameCardinality
       DEF M!AdmissionAssumption, M!Init, M!TypeOK, M!QueriesCounted
  <1>2. (M!TypeOK /\ M!QueriesCounted) /\ [M!Next]_M!vars => (M!TypeOK /\ M!QueriesCounted)'
    BY MetricsNext
  <1>3. M!QueriesCounted => QueriesCounted
    BY DEF QueriesCounted
  <1> QED BY <1>1, <1>2, <1>3, ImplementsComponents, PTL DEF M!Spec

-------------------------------------------------------------------------------
(* The process.                                                            *)

\* Every step of the components keeps the types.
LEMMA ComponentTypes ==
  ASSUME TypeOK, [W!Next]_W!vars, [I!Next]_I!vars, [S!Next]_S!vars, [M!Next]_M!vars
  PROVE  W!TypeOK' /\ I!TypeOK' /\ S!TypeOK' /\ M!TypeOK'
  <1> USE ApiAssumption
  <1>1. W!TypeOK'
    BY DEF W!ReplayAssumption, TypeOK, W!TypeOK, W!PCs, W!Next, W!vars, W!Tick, W!Check, W!Begin,
       W!Process, W!Replayed, W!Refuse, W!End, W!Die, W!Prune
  <1>2. I!TypeOK'
    <2> USE DEF I!IntakeAssumption, TypeOK, I!TypeOK, I!PCs, I!Over, I!End
    <2>1. CASE I!Tick \/ I!Die \/ UNCHANGED I!vars \/ \E k \in Keys : I!Prune(k)
      BY <2>1 DEF I!Tick, I!Die, I!vars, I!Prune
    <2>2. ASSUME NEW r \in Requests, I!Begin(r) \/ I!FindNothing(r) PROVE I!TypeOK'
      BY <2>2 DEF I!Begin, I!FindNothing
    <2>3. ASSUME NEW r \in Requests, I!Replay(r) \/ I!Reuse(r) PROVE I!TypeOK'
      BY <2>3 DEF I!Replay, I!Reuse
    <2>4. ASSUME NEW r \in Requests, I!Store(r) PROVE I!TypeOK'
      BY <2>4 DEF I!Store
    <2>5. ASSUME NEW r \in Requests, I!Conflict(r) \/ I!Refuse(r) PROVE I!TypeOK'
      BY <2>5 DEF I!Conflict, I!Refuse
    <2> QED BY <2>1, <2>2, <2>3, <2>4, <2>5 DEF I!Next, I!Request
  <1>3. S!TypeOK'
    BY DEF S!SessionAssumption, TypeOK, S!TypeOK, S!Gates, S!Next, S!vars, S!Tick, S!Verify,
       S!AssertActive, S!Refuse, S!Revoke, S!Prune, S!Pass
  <1>4. M!TypeOK'
    BY DEF TypeOK, M!TypeOK, M!Next, M!vars, M!Enter, M!Leave, M!Left, M!Die
  <1> QED BY <1>1, <1>2, <1>3, <1>4

\* Every step of the process keeps its own.
LEMMA ServerTypes ==
  ASSUME TypeOK, [Next]_vars
  PROVE  /\ server' \in {"up", "closing", "ended", "down"}
         /\ route'  \in [Requests -> Routes \cup {"none", "over"}]
         /\ client' \in [Requests -> {"idle", "open", "gone", "accepted"}]
  <1> USE ApiAssumption DEF ApiAssumption, TypeOK, Routes, End
  <1>1. CASE Tick \/ Maintain \/ UNCHANGED vars
    BY <1>1 DEF Tick, Maintain, vars
  <1>2. ASSUME NEW r \in Requests, Arrive(r) \/ Lose(r)
        PROVE  /\ server' \in {"up", "closing", "ended", "down"}
               /\ route'  \in [Requests -> Routes \cup {"none", "over"}]
               /\ client' \in [Requests -> {"idle", "open", "gone", "accepted"}]
    BY <1>2 DEF Arrive, Lose
  <1>3. ASSUME NEW r \in Requests, Handler(r)
        PROVE  /\ server' \in {"up", "closing", "ended", "down"}
               /\ route'  \in [Requests -> Routes \cup {"none", "over"}]
               /\ client' \in [Requests -> {"idle", "open", "gone", "accepted"}]
    BY <1>3 DEF Handler, TurnAway, Webhook, Authenticate, RevokeCurrent, Intake, Query, QueryEnds,
       Accept, Decline
  <1>4. CASE Shutdown \/ EndPool \/ Restart
    BY <1>4 DEF Shutdown, EndPool, Restart, serves
  <1>5. CASE Exit \/ Kill
    BY <1>5 DEF Exit, Kill, Die
  <1> QED BY <1>1, <1>2, <1>3, <1>4, <1>5 DEF Next

\* The variables of the process and of its components keep their types.
THEOREM ServerTypeCorrect == Spec => []TypeOK
  <1>1. Init => TypeOK
    BY ApiAssumption
       DEF Init, TypeOK, W!Init, I!Init, S!Init, M!Init, W!TypeOK, I!TypeOK, S!TypeOK, M!TypeOK,
           W!PCs, I!PCs, S!Gates, I!IntakeAssumption
  <1>2. TypeOK /\ [Next]_vars => TypeOK'
    BY ComponentTypes, ServerTypes, WebhookStep, IntakeStep, SessionStep, MetricsStep DEF TypeOK
  <1> QED BY <1>1, <1>2, PTL DEF Spec

\* What a handler has committed stays committed.
LEMMA DoneStays ==
  ASSUME TypeOK, NEW r \in Requests, Done(r),
         [W!Next]_W!vars, [I!Next]_I!vars, [S!Next]_S!vars
  PROVE  Done(r)'
  <1>1. CASE wpc[r] = "processed"
    BY <1>1 DEF Done, TypeOK, W!TypeOK, W!Pending, W!Next, W!vars, W!Tick, W!Check, W!Begin,
       W!Process, W!Replayed, W!Refuse, W!End, W!Die, W!Prune
  <1>2. CASE ipc[r] \in {"created", "replayed"}
    BY <1>2 DEF Done, TypeOK, I!TypeOK, I!Next, I!vars, I!Request, I!Tick, I!Die, I!Begin, I!Replay,
       I!Reuse, I!FindNothing, I!Store, I!Conflict, I!Refuse, I!Prune, I!End
  <1>3. CASE gate[r] = "revoked"
    BY <1>3 DEF Done, TypeOK, S!TypeOK, S!Next, S!vars, S!Tick, S!Verify, S!AssertActive, S!Refuse,
       S!Revoke, S!Prune, S!Pass
  <1> QED BY <1>1, <1>2, <1>3 DEF Done

\* Only Accept tells a client of success.
LEMMA AcceptedNext ==
  ASSUME TypeOK, [Next]_vars, NEW r \in Requests, client'[r] = "accepted"
  PROVE  client[r] = "accepted" \/ Done(r)
  <1> USE DEF TypeOK, End
  <1>1. CASE Tick \/ Maintain \/ UNCHANGED vars
    BY <1>1 DEF Tick, Maintain, vars
  <1>2. ASSUME NEW q \in Requests, Arrive(q) \/ Lose(q) PROVE client[r] = "accepted"
    BY <1>2 DEF Arrive, Lose
  <1>3. ASSUME NEW q \in Requests, Handler(q) PROVE client[r] = "accepted" \/ Done(r)
    <2>1. CASE Accept(q)
      BY <2>1 DEF Accept
    <2>2. CASE ~ Accept(q)
      BY <1>3, <2>2 DEF Handler, TurnAway, Webhook, Authenticate, RevokeCurrent, Intake, Query,
         QueryEnds, Decline
    <2> QED BY <2>1, <2>2
  <1>4. CASE Shutdown \/ EndPool \/ Restart
    BY <1>4 DEF Shutdown, EndPool, Restart, serves
  <1>5. CASE Exit \/ Kill
    BY <1>5 DEF Exit, Kill, Die
  <1> QED BY <1>1, <1>2, <1>3, <1>4, <1>5 DEF Next

\* A client that was told of success has been told by a handler that was through.
LEMMA AcceptedIsDone == Spec => [](\A r \in Requests : client[r] = "accepted" => Done(r))
  <1> DEFINE Inv == \A r \in Requests : client[r] = "accepted" => Done(r)
  <1>1. Init => Inv
    BY DEF Init
  <1>2. TypeOK /\ Inv /\ [Next]_vars => Inv'
    <2> SUFFICES ASSUME TypeOK, Inv, [Next]_vars,
                        NEW r \in Requests, client'[r] = "accepted"
                 PROVE  Done(r)'
      OBVIOUS
    <2>1. Done(r)
      BY AcceptedNext
    <2> QED BY <2>1, DoneStays, WebhookStep, IntakeStep, SessionStep
  <1> QED BY <1>1, <1>2, ServerTypeCorrect, PTL DEF Spec

\* What a handler that is through has stored is there until its time is over: a
\* receipt by PrunedIsStale, a record or job by RecordShape, and by
\* ReplayIsTruthful that of another request, a revocation by RevokedForGood.
LEMMA DoneIsStored ==
  ASSUME W!IInv, I!IInv, S!IInv, NEW r \in Requests, Done(r)
  PROVE  \/ /\ wpc[r] = "processed"
            /\ NonceOf[r] \in stored \/ Stamp[NonceOf[r]] + Window < now
         \/ /\ ipc[r] \in {"created", "replayed"}
            /\ holder[KeyOf[r]] = RowOf(r) \/ until[RowOf(r)] < now
         \/ /\ gate[r] = "revoked"
            /\ TokenOf[r] \in revoked \/ Expires[TokenOf[r]] < now
  <1> USE ApiAssumption DEF ApiAssumption
  <1>1. CASE wpc[r] = "processed"
    <2>1. NonceOf[r] \in stored \/ Stamp[NonceOf[r]] + Window + MaxDelay < now
      BY <1>1 DEF W!IInv, W!PrunedIsStale
    <2>2. /\ Stamp[NonceOf[r]] \in Nat /\ Window \in Nat /\ MaxDelay \in Nat
          /\ now \in Nat
      BY DEF W!ReplayAssumption, W!IInv, W!TypeOK
    <2> QED BY <1>1, <2>1, <2>2
  <1>2. CASE ipc[r] \in {"created", "replayed"}
    <2>1. RowOf(r) \in Requests /\ ipc[RowOf(r)] = "created" /\ KeyOf[RowOf(r)] = KeyOf[r]
      BY <1>2 DEF RowOf, I!IInv, I!ReplayIsTruthful
    <2>2. holder[KeyOf[r]] = RowOf(r) \/ until[RowOf(r)] < now
      BY <2>1 DEF I!IInv, I!RecordShape
    <2> QED BY <1>2, <2>2
  <1>3. CASE gate[r] = "revoked"
    BY <1>3 DEF S!SessionAssumption, S!IInv, S!RevokedForGood
  <1> QED BY <1>1, <1>2, <1>3 DEF Done

\* A client that was told of success can rely on it, whatever other requests,
\* maintenance and the end of the process do after the answer: the row is in
\* its table until its time is over, when receipts are kept for twice the
\* window of the timestamp and the longest request.
THEOREM AcceptedIsStoredCorrect ==
  ASSUME Retention >= 2 * Window + MaxDelay
  PROVE  Spec => []AcceptedIsStored
  <1>1. W!IInv /\ I!IInv /\ S!IInv /\ (\A r \in Requests : client[r] = "accepted" => Done(r))
          => AcceptedIsStored
    BY DoneIsStored DEF AcceptedIsStored
  <1>2. Spec => []S!IInv
    BY SessionInit, SessionNext, ImplementsComponents, PTL DEF S!Spec
  <1> QED BY <1>1, <1>2, ReplayInv, IntakeInv, AcceptedIsDone, PTL
===============================================================================
