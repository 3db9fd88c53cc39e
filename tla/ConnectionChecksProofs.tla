------------------------ MODULE ConnectionChecksProofs ------------------------
(***************************************************************************)
(* Proofs about the checks of a connection, for any jobs, executions,      *)
(* names and addresses: what a status rests on, how a disabled connection  *)
(* may come back, and which addresses are reached.                         *)
(***************************************************************************)
EXTENDS ConnectionChecks, FiniteSetTheorems, TLAPS

USE ChecksAssumption

\* Before any job is asked for the invariant holds.
LEMMA ChecksInit == Init => IInv
  BY DEF Init, IInv, TypeOK, PCs, Kinds, Throws, Verdicts, JobShape, CheckShape, LastShape,
     StatusIsEvidence

\* The steps of the API and of the operator keep the invariant.
LEMMA ApiNext ==
  ASSUME IInv, Disable \/ \E j \in Jobs : Ask(j) \/ Enqueue(j)
  PROVE  IInv'
  <1> USE DEF IInv, TypeOK, JobShape, CheckShape, LastShape, StatusIsEvidence, HasHost, askVars,
              rowVars
  <1>1. CASE Disable
    BY <1>1 DEF Disable
  <1>2. ASSUME NEW j \in Jobs, Ask(j) PROVE IInv'
    BY <1>2 DEF Ask, Usable
  <1>3. ASSUME NEW j \in Jobs, Enqueue(j) PROVE IInv'
    BY <1>3 DEF Enqueue
  <1> QED BY <1>1, <1>2, <1>3

\* What every step of a check up to its verdict leaves alone.
LEMMA CheckFrame ==
  ASSUME TypeOK, NEW e \in Executions,
         \/ Start(e) \/ Resolve(e) \/ CannotPrepare(e) \/ Connect(e) \/ ConnectFails(e)
         \/ Timeout(e) \/ Target(e) \/ Silence(e)
  PROVE  /\ UNCHANGED <<rowVars, jobVars>>
         /\ pc[e] \in PCs \ {"over"} /\ pc'[e] \in PCs \ {"idle", "over"}
         /\ pc[e] = "idle" => job[JobOf[e]] = "queued"
         /\ \A q \in Executions \ {e} :
              /\ UNCHANGED <<pc[q], answer[q], peer[q], verdict[q]>>
              /\ q \in quiet' <=> q \in quiet
  <1> USE DEF TypeOK, PCs, Goto, Settle, rowVars, jobVars, askVars
  <1>1. CASE Start(e)
    BY <1>1 DEF Start
  <1>2. CASE Resolve(e)
    BY <1>2 DEF Resolve
  <1>3. CASE CannotPrepare(e) \/ ConnectFails(e)
    BY <1>3 DEF CannotPrepare, ConnectFails
  <1>4. CASE Connect(e)
    BY <1>4 DEF Connect
  <1>5. CASE AssumeRole(e) \/ Silence(e)
    BY <1>5 DEF AssumeRole, Silence
  <1>6. CASE Answered(e) \/ AnsweredBadly(e)
    BY <1>6 DEF Answered, AnsweredBadly, SettleAnswered
  <1>7. CASE Breaks(e) \/ Timeout(e)
    BY <1>7 DEF Breaks, Timeout
  <1>8. CASE Chunk(e)
    BY <1>8 DEF Chunk
  <1>9. CASE HangUp(e)
    BY <1>9 DEF HangUp
  <1> QED BY <1>1, <1>2, <1>3, <1>4, <1>5, <1>6, <1>7, <1>8, <1>9 DEF Target

\* The address that a connector is given is one that the name resolved to.
LEMMA PinnedAddress ==
  ASSUME TypeOK, CheckShape, NEW e \in Executions, pc[e] = "permitted", HasHost,
         NEW a \in Pinned(e)
  PROVE  a \in Addresses \ {Nobody}
  BY DEF TypeOK, CheckShape, Pinned

\* They keep the types.
LEMMA CheckTypes ==
  ASSUME TypeOK, CheckShape, NEW e \in Executions,
         \/ Start(e) \/ Resolve(e) \/ CannotPrepare(e) \/ Connect(e) \/ ConnectFails(e)
         \/ Timeout(e) \/ Target(e) \/ Silence(e)
  PROVE  TypeOK'
  <1> USE DEF TypeOK, PCs, Throws, Verdicts, Goto, Settle, rowVars, jobVars, askVars
  <1>1. CASE Start(e)
    BY <1>1 DEF Start
  <1>2. CASE Resolve(e)
    <2>1. answer' \in [Executions -> Answers \cup {<<>>}]
      BY <1>2 DEF Resolve
    <2>2. verdict' \in [Executions -> Verdicts] /\ pc' \in [Executions -> PCs]
      BY <1>2 DEF Resolve
    <2> QED BY <1>2, <2>1, <2>2 DEF Resolve
  <1>3. CASE CannotPrepare(e) \/ ConnectFails(e)
    BY <1>3 DEF CannotPrepare, ConnectFails, OnError
  <1>4. CASE Connect(e)
    <2>1. peer' \in [Executions -> Addresses \cup {Nobody}]
      BY <1>4, PinnedAddress DEF Connect
    <2>2. pc' \in [Executions -> PCs] /\ open' \in [Executions -> {0, 1, 2}]
      BY <1>4 DEF Connect
    <2> QED BY <1>4, <2>1, <2>2 DEF Connect
  <1>5. CASE AssumeRole(e) \/ Silence(e)
    <2>1. CASE AssumeRole(e)
      <3>1. Clients \in {1, 2} /\ open[e] \in {0, 1, 2} /\ open[e] < Clients
        BY <2>1 DEF AssumeRole, Clients
      <3>2. open[e] + 1 \in {0, 1, 2}
        BY <3>1
      <3> QED BY <2>1, <3>2 DEF AssumeRole
    <2>2. CASE Silence(e)
      BY <2>2 DEF Silence
    <2> QED BY <1>5, <2>1, <2>2
  <1>6. CASE Answered(e) \/ AnsweredBadly(e)
    BY <1>6 DEF Answered, AnsweredBadly, SettleAnswered
  <1>7. CASE Breaks(e) \/ Timeout(e)
    BY <1>7 DEF Breaks, Timeout, OnError
  <1>8. CASE Chunk(e)
    <2>1. bytes' \in [Executions -> Nat] /\ quiet' \in SUBSET Executions
      BY <1>8 DEF Chunk, Received
    <2>2. pc' \in [Executions -> PCs] /\ verdict' \in [Executions -> Verdicts]
      BY <1>8 DEF Chunk
    <2> QED BY <1>8, <2>1, <2>2 DEF Chunk
  <1>9. CASE HangUp(e)
    BY <1>9 DEF HangUp
  <1> QED BY <1>1, <1>2, <1>3, <1>4, <1>5, <1>6, <1>7, <1>8, <1>9 DEF Target

\* They keep what the verdict rests on.
LEMMA CheckKeepsShape ==
  ASSUME TypeOK, CheckShape, NEW e \in Executions,
         \/ Start(e) \/ Resolve(e) \/ CannotPrepare(e) \/ Connect(e) \/ ConnectFails(e)
         \/ Timeout(e) \/ Target(e) \/ Silence(e)
  PROVE  CheckShape'
  <1> DEFINE Shape(q) ==
        /\ pc[q] \in {"idle", "started", "permitted", "asking"} => verdict[q] = "none"
        /\ pc[q] \in {"permitted", "asking"} /\ HasHost => answer[q] # <<>>
        /\ pc[q] = "asking" /\ HasHost => peer[q] # Nobody
        /\ verdict[q] \in {"healthy", "unhealthy"} =>
             /\ HasHost => answer[q] # <<>>
             /\ kind = "prometheus" => peer[q] # Nobody /\ q \notin quiet
  <1>1. CheckShape <=> \A q \in Executions : Shape(q)
    BY DEF CheckShape
  <1>2. CheckShape' <=> \A q \in Executions : Shape(q)'
    BY DEF CheckShape
  <1>3. ASSUME NEW q \in Executions \ {e} PROVE Shape(q)'
    BY <1>1, CheckFrame DEF rowVars, HasHost
  <1>4. Shape(e) /\ kind' = kind
    BY <1>1, CheckFrame DEF rowVars
  <1>5. Shape(e)'
    <2> USE <1>4 DEF TypeOK, Goto, Settle, rowVars, jobVars, askVars, HasHost
    <2>1. CASE Start(e)
      BY <2>1 DEF Start
    <2>2. CASE Resolve(e)
      BY <2>2 DEF Resolve, Permitted
    <2>3. CASE CannotPrepare(e) \/ ConnectFails(e)
      BY <2>3 DEF CannotPrepare, ConnectFails, OnError
    <2>4. CASE Connect(e)
      BY <2>4, PinnedAddress DEF Connect
    <2>5. CASE AssumeRole(e) \/ Silence(e)
      BY <2>5 DEF AssumeRole, Silence
    <2>6. CASE Answered(e) \/ AnsweredBadly(e)
      BY <2>6 DEF Answered, AnsweredBadly, SettleAnswered
    <2>7. CASE Breaks(e) \/ Timeout(e)
      BY <2>7 DEF Breaks, Timeout, OnError
    <2>8. CASE Chunk(e)
      BY <2>8 DEF Chunk
    <2>9. CASE HangUp(e)
      BY <2>9 DEF HangUp
    <2> QED BY <2>1, <2>2, <2>3, <2>4, <2>5, <2>6, <2>7, <2>8, <2>9 DEF Target
  <1> QED BY <1>2, <1>3, <1>5

\* They keep the invariant: the execution that wrote last is over, and stays so.
LEMMA CheckNext ==
  ASSUME IInv, NEW e \in Executions,
         \/ Start(e) \/ Resolve(e) \/ CannotPrepare(e) \/ Connect(e) \/ ConnectFails(e)
         \/ Timeout(e) \/ Target(e) \/ Silence(e)
  PROVE  IInv'
  <1> USE DEF IInv
  <1>1. TypeOK' /\ CheckShape'
    BY CheckTypes, CheckKeepsShape
  <1>2. JobShape'
    BY CheckFrame DEF JobShape, TypeOK, rowVars, jobVars
  <1>3. LastShape' /\ StatusIsEvidence'
    BY CheckFrame DEF LastShape, StatusIsEvidence, TypeOK, HasHost, rowVars
  <1> QED BY <1>1, <1>2, <1>3

\* So do the steps that end it.
LEMMA EndNext ==
  ASSUME IInv, NEW e \in Executions, Close(e) \/ Record(e) \/ Fail(e) \/ Crash(e)
  PROVE  IInv'
  <1> USE DEF IInv, TypeOK, PCs, Kinds, Throws, Verdicts, JobShape, CheckShape, LastShape,
              StatusIsEvidence, HasHost, askVars, rowVars, jobVars, Goto
  <1>1. CASE Close(e)
    BY <1>1 DEF Close
  <1>2. CASE Record(e)
    BY <1>2 DEF Record, Finish
  <1>3. CASE Fail(e)
    BY <1>3 DEF Fail, Finish
  <1>4. CASE Crash(e)
    BY <1>4 DEF Crash
  <1> QED BY <1>1, <1>2, <1>3, <1>4

\* The invariant holds of every behaviour.
LEMMA ChecksInv == Spec => []IInv
  <1>1. IInv /\ [Next]_vars => IInv'
    <2>1. IInv /\ UNCHANGED vars => IInv'
      BY DEF IInv, TypeOK, JobShape, CheckShape, LastShape, StatusIsEvidence, HasHost, vars,
         askVars, rowVars, jobVars
    <2> QED BY <2>1, ApiNext, CheckNext, EndNext DEF Next, Own
  <1> QED BY ChecksInit, <1>1, PTL DEF Spec

\* A status was brought back by a check of a target that policy allowed, and a
\* Prometheus target that does not answer is never called unhealthy.
THEOREM StatusIsEvidenceCorrect == Spec => []StatusIsEvidence
  <1>1. IInv => StatusIsEvidence
    BY DEF IInv
  <1> QED BY ChecksInv, <1>1, PTL

\* Only the check of a job that was asked for before the connection was
\* disabled enables it again.
THEOREM RevivedByEarlierJobCorrect == Spec => RevivedByEarlierJob
  <1>1. IInv /\ [Next]_vars =>
          [status = "disabled" /\ status' # "disabled" =>
             \E e \in Executions : last' = e /\ pc[e] = "closing" /\ JobOf[e] \in early]_vars
    <2> SUFFICES ASSUME IInv, Next, status = "disabled", status' # "disabled"
                 PROVE  \E e \in Executions :
                          last' = e /\ pc[e] = "closing" /\ JobOf[e] \in early
      OBVIOUS
    <2>1. PICK e \in Executions : Record(e)
      BY DEF Next, Disable, Ask, Enqueue, Start, Own, Target, Silence, Crash, Resolve,
         CannotPrepare, Connect, ConnectFails, Timeout, Close, Fail, Finish, AssumeRole, Answered, SettleAnswered, HangUp,
         AnsweredBadly, Breaks, Chunk, rowVars
    <2>2. last' = e /\ pc[e] = "closing"
      BY <2>1 DEF Record, Finish, Goto
    <2>3. JobOf[e] \in early
      BY <2>2 DEF IInv, JobShape
    <2> QED BY <2>2, <2>3
  <1> QED BY <1>1, ChecksInv, PTL DEF Spec, RevivedByEarlierJob

-------------------------------------------------------------------------------
(* The egress policy: its comparison of masked addresses as signed numbers *)
(* says whether they share the prefix of the network.                      *)

\* A power of two counts the subsets of a set, so it is a positive number.
LEMMA PowerPositive ==
  ASSUME NEW k \in Nat
  PROVE  2^k \in Nat \ {0}
  <1>1. IsFiniteSet(1..k) /\ Cardinality(1..k) = k
    BY FS_Interval
  <1>2. IsFiniteSet(SUBSET (1..k)) /\ Cardinality(SUBSET (1..k)) = 2^k
    BY <1>1, FS_SUBSET
  <1>3. 2^k \in Nat
    BY <1>2, FS_CardinalityType
  <1>4. 2^k # 0
    BY <1>2, FS_EmptySet
  <1> QED BY <1>3, <1>4

\* Clearing the bits below m is the same as comparing what is above them.
LEMMA ClearedBits ==
  ASSUME NEW a \in Nat, NEW b \in Nat, NEW m \in Nat \ {0}
  PROVE  a - (a % m) = b - (b % m) <=> a \div m = b \div m
  <1>1. a = m * (a \div m) + (a % m) /\ b = m * (b \div m) + (b % m)
    OBVIOUS
  <1>2. /\ a \div m \in Int /\ b \div m \in Int
        /\ a % m \in Int /\ b % m \in Int
    OBVIOUS
  <1>3. \A x, y \in Int : m * x = m * y => x = y
    OBVIOUS
  <1>4. m * (a \div m) \in Int /\ m * (b \div m) \in Int
    BY <1>2
  <1>5. a - (a % m) = m * (a \div m) /\ b - (b % m) = m * (b \div m)
    BY <1>1, <1>2, <1>4
  <1> QED BY <1>2, <1>3, <1>5

\* Different addresses are different signed numbers.
LEMMA SignedInjective ==
  ASSUME NEW x \in Addresses, NEW y \in Addresses
  PROVE  Signed(x) = Signed(y) <=> x = y
  <1>1. 2^Width \in Nat /\ 2^(Width - 1) \in Nat
    BY PowerPositive
  <1>2. x \in Nat /\ y \in Nat /\ x < 2^Width /\ y < 2^Width
    BY <1>1 DEF Addresses
  <1> QED BY <1>1, <1>2 DEF Signed

\* isAllowedIpv4 holds of the addresses that share the prefix of a network.
LEMMA AllowedIsSafe ==
  ASSUME NEW a \in Addresses
  PROVE  isAllowedIpv4(a) <=> Safe(a)
  <1>1. ASSUME NEW n \in Networks
        PROVE  Masked(a, n[2]) = Masked(n[1], n[2])
               <=> a \div (2^(Width - n[2])) = n[1] \div (2^(Width - n[2]))
    <2> DEFINE m == 2^(Width - n[2])
    <2>1. n[1] \in Addresses /\ n[2] \in 0 .. Width
      OBVIOUS
    <2>2. m \in Nat \ {0} /\ 2^Width \in Nat
      BY <2>1, PowerPositive
    <2>3. a \in Nat /\ n[1] \in Nat
      BY <2>1, <2>2 DEF Addresses
    <2> HIDE DEF m
    <2>4. ASSUME NEW x \in Addresses PROVE x - (x % m) \in Addresses
      <3>1. x \in 0 .. 2^Width - 1
        BY DEF Addresses
      <3>2. x % m \in Nat /\ x % m <= x
        <4>1. x \in Nat /\ x = m * (x \div m) + (x % m)
          BY <2>2, <3>1
        <4>2. x \div m \in Nat /\ x % m \in Nat
          BY <2>2, <3>1
        <4>3. m * (x \div m) \in Nat
          BY <2>2, <4>2
        <4> QED BY <4>1, <4>2, <4>3
      <3> QED BY <2>2, <3>1, <3>2 DEF Addresses
    <2>5. Masked(a, n[2]) = Masked(n[1], n[2]) <=> a - (a % m) = n[1] - (n[1] % m)
      BY <2>1, <2>4, SignedInjective DEF Masked, m
    <2> QED BY <2>2, <2>3, <2>5, ClearedBits DEF m
  <1> QED BY <1>1 DEF isAllowedIpv4, Safe

-------------------------------------------------------------------------------

\* What policy has said of what an execution resolved.
EgressShape ==
  \A e \in Executions :
    /\ pc[e] = "permitted" => Permitted(answer[e])
    /\ peer[e] # Nobody => host = "listed" \/ isAllowedIpv4(peer[e])
    /\ verdict[e] = "denied" => ~ Permitted(answer[e])

\* Every step keeps what policy said.
LEMMA EgressStep == IInv /\ EgressShape /\ [Next]_vars => EgressShape'
  <1> SUFFICES ASSUME IInv, EgressShape, [Next]_vars PROVE EgressShape'
    OBVIOUS
  <1>1. host' = host
    BY DEF Next, Disable, Ask, Enqueue, Start, Own, Target, Silence, Crash, Resolve, CannotPrepare,
       Connect, ConnectFails, Timeout, Close, Record, Fail, Finish, AssumeRole, Answered, SettleAnswered, HangUp,
       AnsweredBadly, Breaks, Chunk, rowVars, vars
  <1>2. ASSUME NEW q \in Executions
        PROVE  /\ Permitted(answer[q])' <=> Permitted(answer'[q])
               /\ isAllowedIpv4(peer[q])' <=> isAllowedIpv4(peer'[q])
    BY <1>1 DEF Permitted, isAllowedIpv4, Masked, Signed
  <1>3. SUFFICES ASSUME NEW q \in Executions
                 PROVE  /\ pc'[q] = "permitted" => Permitted(answer'[q])
                        /\ peer'[q] # Nobody => host = "listed" \/ isAllowedIpv4(peer'[q])
                        /\ verdict'[q] = "denied" => ~ Permitted(answer'[q])
    BY <1>1, <1>2 DEF EgressShape
  <1>4. /\ pc[q] = "permitted" => Permitted(answer[q])
        /\ peer[q] # Nobody => host = "listed" \/ isAllowedIpv4(peer[q])
        /\ verdict[q] = "denied" => ~ Permitted(answer[q])
    BY DEF EgressShape
  <1>5. CASE /\ UNCHANGED <<answer[q], peer[q]>>
             /\ pc'[q] = pc[q] \/ pc'[q] # "permitted"
             /\ verdict'[q] = verdict[q] \/ verdict'[q] # "denied"
    BY <1>1, <1>4, <1>5
  <1>6. CASE Resolve(q)
    <2>1. verdict[q] = "none" /\ peer'[q] = peer[q] /\ pc[q] = "started"
      BY <1>6 DEF Resolve, Goto, Settle, IInv, TypeOK, CheckShape
    <2>2. PICK found \in Answers :
            /\ answer' = [answer EXCEPT ![q] = found]
            /\ IF Permitted(found)
               THEN Goto(q, "started", "permitted") /\ UNCHANGED verdict
               ELSE Settle(q, "started", "denied")
      BY <1>6 DEF Resolve
    <2>3. answer'[q] = found
      BY <2>2 DEF IInv, TypeOK
    <2>4. CASE Permitted(found)
      BY <1>1, <1>4, <2>1, <2>2, <2>3, <2>4 DEF Goto, IInv, TypeOK
    <2>5. CASE ~ Permitted(found)
      BY <1>1, <1>4, <2>1, <2>2, <2>3, <2>5 DEF Goto, Settle, IInv, TypeOK
    <2> QED BY <2>4, <2>5
  <1>7. CASE Connect(q)
    <2>1. answer' = answer /\ verdict' = verdict /\ pc'[q] = "asking"
      BY <1>7 DEF Connect, Goto, IInv, TypeOK
    <2>2. CASE HasHost
      <3>1. pc[q] = "permitted" /\ Permitted(answer[q])
        BY <1>4, <1>7, <2>2 DEF Connect, Goto
      <3>2. answer[q] \in Answers \ {<<>>} /\ 1 \in DOMAIN answer[q]
        BY <3>1 DEF Permitted, IInv, TypeOK
      <3>3. host = "listed" \/ isAllowedIpv4(answer[q][1][2])
        BY <3>1, <3>2 DEF Permitted
      <3>4. peer'[q] = answer[q][1][2]
        BY <1>7, <2>2 DEF Connect, Pinned, IInv, TypeOK
      <3> QED BY <1>1, <1>4, <2>1, <3>3, <3>4
    <2>3. CASE ~ HasHost
      BY <1>1, <1>4, <1>7, <2>1, <2>3 DEF Connect
    <2> QED BY <2>2, <2>3
  <1>8. \/ Resolve(q) \/ Connect(q)
        \/ /\ UNCHANGED <<answer[q], peer[q]>>
           /\ pc'[q] = pc[q] \/ pc'[q] # "permitted"
           /\ verdict'[q] = verdict[q] \/ verdict'[q] # "denied"
    <2> USE DEF IInv, TypeOK, Goto, Settle, rowVars, jobVars, askVars
    <2>1. CASE UNCHANGED vars
      BY <2>1 DEF vars
    <2>2. CASE Disable \/ \E j \in Jobs : Ask(j) \/ Enqueue(j)
      BY <2>2 DEF Disable, Ask, Enqueue
    <2>3. ASSUME NEW e \in Executions \ {q}, Start(e) \/ Own(e) \/ Target(e) \/ Silence(e) \/ Crash(e)
          PROVE  UNCHANGED <<answer[q], peer[q], pc[q], verdict[q]>>
      <3>1. CASE Close(e) \/ Record(e) \/ Fail(e) \/ Crash(e)
        BY <2>3, <3>1 DEF Close, Record, Fail, Finish, Crash
      <3> QED BY <2>3, <3>1, CheckFrame DEF Own
    <2>4. CASE Start(q) \/ Target(q) \/ Silence(q) \/ Crash(q)
      BY <2>4 DEF Start, Target, Silence, Crash, AssumeRole, Answered, AnsweredBadly, SettleAnswered,
         HangUp, Breaks, Chunk, OnError
    <2>5. CASE CannotPrepare(q) \/ ConnectFails(q) \/ Timeout(q) \/ Close(q) \/ Record(q) \/ Fail(q)
      BY <2>5 DEF CannotPrepare, ConnectFails, Timeout, Close, Record, Fail, Finish, OnError
    <2> QED BY <2>1, <2>2, <2>3, <2>4, <2>5 DEF Next, Own
  <1> QED BY <1>5, <1>6, <1>7, <1>8

\* Whatever a name resolves to later, an address outside the allowed networks
\* is reached only for a listed name, and a target is denied only for a reason;
\* for addresses of any width and networks in any spelling.
THEOREM EgressDecidesCorrect == Spec => []EgressDecides
  <1>1. Init => EgressShape
    BY DEF Init, EgressShape
  <1>2. IInv /\ EgressShape => EgressDecides
    <2> SUFFICES ASSUME IInv, EgressShape, NEW e \in Executions
                 PROVE  /\ peer[e] # Nobody => host = "listed" \/ Safe(peer[e])
                        /\ verdict[e] = "denied" =>
                             \/ host = "localhost" \/ answer[e] = <<>>
                             \/ host = "plain" /\ \E i \in DOMAIN answer[e] :
                                  answer[e][i][1] # 4 \/ ~ Safe(answer[e][i][2])
      BY DEF EgressDecides
    <2>1. peer[e] # Nobody => host = "listed" \/ Safe(peer[e])
      BY AllowedIsSafe DEF EgressShape, IInv, TypeOK
    <2>2. ASSUME verdict[e] = "denied", host # "localhost", answer[e] # <<>>
          PROVE  host = "plain" /\ \E i \in DOMAIN answer[e] :
                   answer[e][i][1] # 4 \/ ~ Safe(answer[e][i][2])
      <3>1. ~ Permitted(answer[e])
        BY <2>2 DEF EgressShape
      <3>2. host # "listed" /\ host \in {"plain", "listed", "localhost"}
        BY <2>2, <3>1 DEF Permitted, IInv, TypeOK
      <3>3. PICK i \in DOMAIN answer[e] :
              ~ (answer[e][i][1] = 4 /\ isAllowedIpv4(answer[e][i][2]))
        BY <2>2, <3>1 DEF Permitted
      <3>4. answer[e] \in Answers
        BY <2>2 DEF IInv, TypeOK
      <3>5. answer[e][i][2] \in Addresses
        BY <3>4
      <3> QED BY <2>2, <3>2, <3>3, <3>5, AllowedIsSafe
    <2> QED BY <2>1, <2>2
  <1> QED BY <1>1, <1>2, EgressStep, ChecksInv, PTL DEF Spec

\* "Metadata-service addresses, loopback ... are denied" is true of every name that
\* is not listed, where no allowed network holds such an address.
THEOREM ReservedUnlistedCorrect ==
  Spec => [](host # "listed" /\ (\A a \in Reserved : ~ Safe(a)) => ReservedDenied)
  <1>1. EgressDecides =>
          (host # "listed" /\ (\A a \in Reserved : ~ Safe(a)) => ReservedDenied)
    BY DEF EgressDecides, ReservedDenied
  <1> QED BY <1>1, EgressDecidesCorrect, PTL
===============================================================================
