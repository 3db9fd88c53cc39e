--------------------------- MODULE ConnectionChecks ---------------------------
(***************************************************************************)
(* The life of the status of a connection: validation jobs that            *)
(* JobService enqueues, executions of ConnectionService.validate that run  *)
(* at the same time, the four connectors behind them, and the egress       *)
(* policy that decides which address a connector may reach.                *)
(*                                                                         *)
(* validate reads the row in one transaction, asks the target, and writes  *)
(* the status in another.  What it does in between is different for every  *)
(* kind: what throws (the job fails), what counts as unhealthy, and what   *)
(* bounds the time of an answer.                                           *)
(***************************************************************************)
EXTENDS Integers, Sequences

CONSTANTS
  Jobs,       \* connection.validate jobs for one connection
  Executions, \* their executions by workers; a job may have several
  JobOf,      \* JobOf[e]
  Width,      \* the bits of an address
  Networks,   \* CONNECTION_ALLOWED_CIDRS: pairs of an address and a prefix
  Reserved,   \* loopback and metadata-service addresses
  Answers,    \* what a name resolves to: sequences of <<family, address>>
  MaxBytes,   \* the limit of prometheus-connector.ts on a response
  Nobody      \* no execution, no address

Addresses == 0 .. 2^Width - 1

ASSUME ChecksAssumption ==
  /\ JobOf \in [Executions -> Jobs]
  /\ Nobody \notin Executions
  /\ Width \in Nat \ {0} /\ MaxBytes \in Nat
  /\ Networks \subseteq Addresses \X (0 .. Width) /\ Reserved \subseteq Addresses \ {Nobody}
  /\ \A found \in Answers : \A i \in DOMAIN found : found[i][2] \in Addresses \ {Nobody}
  /\ \A found \in Answers \ {<<>>} : 1 \in DOMAIN found

VARIABLES
  kind, host, \* of the row of the connection, which no operation changes
  status,     \* of that row
  last,       \* the execution that wrote status and last_validated_at
  job,        \* a job: not asked for, found allowed, queued, over
  early,      \* the jobs asked for before the connection was last disabled
  pc,         \* the state of an execution
  answer,     \* what its host name resolved to
  peer,       \* the address it connected to
  open,       \* its sessions or clients that are not closed
  bytes,      \* of the response it has read
  quiet,      \* those to which the target has sent nothing for the timeout's length
  verdict     \* what its check came to

rowVars  == <<kind, host, status, last>>
jobVars  == <<job, early>>
askVars  == <<answer, peer, open, bytes, quiet, verdict>>
vars     == <<rowVars, jobVars, pc, askVars>>

Kinds    == {"postgresql", "mysql", "prometheus", "aws_assume_role"}
Throws   == {"denied", "failed"}
Verdicts == {"none", "healthy", "unhealthy"} \cup Throws
PCs      == {"idle", "started", "permitted", "asking", "parting", "closing", "over"}

Init ==
  /\ kind \in Kinds
  /\ host \in {"plain", "listed", "localhost"}
  /\ kind = "aws_assume_role" => host = "plain"
  /\ status  = "pending" /\ last = Nobody
  /\ job     = [j \in Jobs |-> "none"] /\ early = {}
  /\ pc      = [e \in Executions |-> "idle"]
  /\ answer  = [e \in Executions |-> <<>>]
  /\ peer    = [e \in Executions |-> Nobody]
  /\ open    = [e \in Executions |-> 0]
  /\ bytes   = [e \in Executions |-> 0]
  /\ quiet   = {}
  /\ verdict = [e \in Executions |-> "none"]

-------------------------------------------------------------------------------
(* Egress policy.                                                          *)

Signed(n) == IF n >= 2^(Width - 1) THEN n - 2^Width ELSE n

\* address & mask: the bits of the prefix, as the signed number that & returns
Masked(a, prefix) == Signed(a - (a % (2^(Width - prefix))))

isAllowedIpv4(a) == \E n \in Networks : Masked(a, n[2]) = Masked(n[1], n[2])

\* resolveAllowed: a listed name may resolve to anything, any other name only
\* to IPv4 addresses that are all allowed.
Permitted(found) ==
  /\ host # "localhost"
  /\ found # <<>>
  /\ \/ host = "listed"
     \/ \A i \in DOMAIN found : found[i][1] = 4 /\ isAllowedIpv4(found[i][2])

-------------------------------------------------------------------------------
(* The API: jobs are queued and, by an operator, connections disabled.     *)

\* Mutant of Usable: the query does not look at the status.
UsableAny == TRUE

\* status <> 'disabled'
Usable == status # "disabled"

\* The lookup of enqueueConnectionValidation takes no lock: the connection may
\* be disabled between it and the commit of the job.
Ask(j) ==
  /\ job[j] = "none" /\ Usable
  /\ job' = [job EXCEPT ![j] = "asked"]
  /\ UNCHANGED <<rowVars, early, pc, askVars>>

Enqueue(j) ==
  /\ job[j] = "asked"
  /\ job' = [job EXCEPT ![j] = "queued"]
  /\ UNCHANGED <<rowVars, early, pc, askVars>>

\* There is no operation for it: an operator changes the row.
Disable ==
  /\ status # "disabled"
  /\ status' = "disabled"
  /\ early' = {j \in Jobs : job[j] # "none"}
  /\ UNCHANGED <<kind, host, last, job, pc, askVars>>

-------------------------------------------------------------------------------
(* One execution of validate.                                              *)

Goto(e, from, to) == pc[e] = from /\ pc' = [pc EXCEPT ![e] = to]

\* The check ends with a verdict; what it has opened is closed after it.
Settle(e, from, v) ==
  /\ Goto(e, from, "closing")
  /\ verdict' = [verdict EXCEPT ![e] = v]

\* The row is read, whatever its status is.
Start(e) ==
  /\ job[JobOf[e]] = "queued"
  /\ Goto(e, "idle", "started")
  /\ UNCHANGED <<rowVars, jobVars, askVars>>

HasHost == kind # "aws_assume_role"

Resolve(e) ==
  /\ HasHost
  /\ \E found \in Answers :
       /\ answer' = [answer EXCEPT ![e] = found]
       /\ IF Permitted(found)
          THEN Goto(e, "started", "permitted") /\ UNCHANGED verdict
          ELSE Settle(e, "started", "denied")
  /\ UNCHANGED <<rowVars, jobVars, peer, open, bytes, quiet>>

\* The row, the configuration or the secret cannot be read; the connector of
\* AWS catches what is wrong with the configuration.
CannotPrepare(e) ==
  /\ \/ Settle(e, "started", "failed")
     \/ HasHost /\ Settle(e, "permitted", "failed")
     \/ ~ HasHost /\ Settle(e, "started", "unhealthy")
  /\ UNCHANGED <<rowVars, jobVars, answer, peer, open, bytes, quiet>>

\* Mutant of Pinned: the connector resolves the name again.
PinnedByName(e) == {found[1][2] : found \in Answers \ {<<>>}}

\* The stream, the client or the request is given the first checked address.
Pinned(e) == {answer[e][1][2]}

Connect(e) ==
  /\ IF HasHost
     THEN /\ Goto(e, "permitted", "asking")
          /\ \E a \in Pinned(e) : peer' = [peer EXCEPT ![e] = a]
     ELSE Goto(e, "started", "asking") /\ UNCHANGED peer
  /\ open' = [open EXCEPT ![e] = 1]
  /\ UNCHANGED <<rowVars, jobVars, answer, bytes, quiet, verdict>>

\* Mutant of OnError: no answer counts as an unhealthy target for every kind.
OnErrorUnhealthy == "unhealthy"

\* The database connectors and AWS catch every error of the check itself;
\* the request of the Prometheus connector rejects.
OnError == IF kind = "prometheus" THEN "failed" ELSE "unhealthy"

ConnectFails(e) ==
  /\ HasHost /\ Settle(e, "permitted", OnError)
  /\ UNCHANGED <<rowVars, jobVars, answer, peer, open, bytes, quiet>>

\* The source and the verification client of STS; one session of the others.
Clients == IF HasHost THEN 1 ELSE 2

\* AssumeRole has succeeded: its credentials are verified by a second client.
AssumeRole(e) ==
  /\ pc[e] = "asking" /\ open[e] < Clients
  /\ open' = [open EXCEPT ![e] = @ + 1]
  /\ UNCHANGED <<rowVars, jobVars, pc, answer, peer, bytes, quiet, verdict>>

\* end() of a pg client that has no query running says goodbye and waits until
\* the target has closed the socket; with a query running it destroys the socket.
\* The other clients are closed without an answer.
SettleAnswered(e, v) ==
  /\ Goto(e, "asking", IF kind = "postgresql" THEN "parting" ELSE "closing")
  /\ verdict' = [verdict EXCEPT ![e] = v]

Answered(e) ==
  /\ open[e] = Clients
  /\ SettleAnswered(e, "healthy")
  /\ quiet' = quiet \ {e}
  /\ UNCHANGED <<rowVars, jobVars, answer, peer, open, bytes>>

\* An error, an unexpected value, an incomplete identity; for Prometheus a
\* status other than 200, once the response is complete.
AnsweredBadly(e) ==
  /\ SettleAnswered(e, "unhealthy")
  /\ quiet' = quiet \ {e}
  /\ UNCHANGED <<rowVars, jobVars, answer, peer, open, bytes>>

\* The target closes the socket of a client that waits for it, or breaks it.
HangUp(e) ==
  /\ Goto(e, "parting", "closing")
  /\ open' = [open EXCEPT ![e] = 0]
  /\ UNCHANGED <<rowVars, jobVars, answer, peer, bytes, quiet, verdict>>

\* The connection breaks, or the response is compressed.
Breaks(e) ==
  /\ Settle(e, "asking", OnError)
  /\ UNCHANGED <<rowVars, jobVars, answer, peer, open, bytes, quiet>>

\* Mutant of Received: the limit is compared with each chunk.
ReceivedChunk(e) == 1

\* bytes += chunk.length
Received(e) == bytes[e] + 1

Chunk(e) ==
  /\ kind = "prometheus"
  /\ IF Received(e) > MaxBytes
     THEN Settle(e, "asking", "failed") /\ UNCHANGED <<bytes, quiet>>
     ELSE /\ pc[e] = "asking"
          /\ bytes' = [bytes EXCEPT ![e] = Received(e)]
          /\ quiet' = quiet \ {e}
          /\ UNCHANGED <<pc, verdict>>
  /\ UNCHANGED <<rowVars, jobVars, answer, peer, open>>

\* The socket timeout of the request counts from the last byte.
Silence(e) ==
  /\ kind = "prometheus" /\ pc[e] = "asking" /\ e \notin quiet
  /\ quiet' = quiet \cup {e}
  /\ UNCHANGED <<rowVars, jobVars, pc, answer, peer, open, bytes, verdict>>

\* query_timeout of pg ends any query; the session of MySQL has a limit only
\* in the server, and the calls of STS the one of the SDK.
Timeout(e) ==
  /\ kind = "postgresql" \/ (kind = "prometheus" /\ e \in quiet)
  /\ Settle(e, "asking", OnError)
  /\ UNCHANGED <<rowVars, jobVars, answer, peer, open, bytes, quiet>>

\* The finally blocks: the verification client before the source client.
Close(e) ==
  /\ pc[e] = "closing" /\ open[e] > 0
  /\ open' = [open EXCEPT ![e] = @ - 1]
  /\ UNCHANGED <<rowVars, jobVars, pc, answer, peer, bytes, quiet, verdict>>

\* The job is finished, or stays queued: it failed and has attempts left, or
\* its lease was lost.
Finish(e) ==
  /\ Goto(e, "closing", "over") /\ open[e] = 0
  /\ job' \in {job, [job EXCEPT ![JobOf[e]] = "over"]}
  /\ UNCHANGED <<kind, host, early, askVars>>

\* The second transaction of validate writes the status of this check over
\* any other.
Record(e) ==
  /\ verdict[e] \in {"healthy", "unhealthy"}
  /\ Finish(e)
  /\ status' = verdict[e] /\ last' = e

\* validate throws, or its second transaction does: processJob catches.
Fail(e) == Finish(e) /\ UNCHANGED <<status, last>>

\* The process of the worker dies, and its sessions with it.
Crash(e) ==
  /\ pc[e] \notin {"idle", "over"}
  /\ pc' = [pc EXCEPT ![e] = "over"]
  /\ open' = [open EXCEPT ![e] = 0]
  /\ UNCHANGED <<rowVars, jobVars, answer, peer, bytes, quiet, verdict>>

Own(e) ==
  \/ Resolve(e) \/ CannotPrepare(e) \/ Connect(e) \/ ConnectFails(e)
  \/ Timeout(e) \/ Close(e) \/ Record(e) \/ Fail(e)

Target(e) ==
  \/ AssumeRole(e) \/ Answered(e) \/ AnsweredBadly(e) \/ HangUp(e) \/ Breaks(e) \/ Chunk(e)

Next ==
  \/ Disable
  \/ \E j \in Jobs : Ask(j) \/ Enqueue(j)
  \/ \E e \in Executions : Start(e) \/ Own(e) \/ Target(e) \/ Silence(e) \/ Crash(e)

\* A worker goes on with a check it has begun, and its timers run; nothing is
\* asked of the target, of the API or of the operator.
Fairness == \A e \in Executions : WF_vars(Own(e)) /\ WF_vars(Silence(e))

Spec == Init /\ [][Next]_vars /\ Fairness

-------------------------------------------------------------------------------
(* Properties.                                                             *)

TypeOK ==
  /\ kind \in Kinds /\ host \in {"plain", "listed", "localhost"}
  /\ status \in {"pending", "healthy", "unhealthy", "disabled"}
  /\ last \in Executions \cup {Nobody}
  /\ job \in [Jobs -> {"none", "asked", "queued", "over"}] /\ early \in SUBSET Jobs
  /\ pc \in [Executions -> PCs]
  /\ answer \in [Executions -> Answers \cup {<<>>}]
  /\ peer \in [Executions -> Addresses \cup {Nobody}]
  /\ open \in [Executions -> {0, 1, 2}] /\ bytes \in [Executions -> Nat]
  /\ quiet \in SUBSET Executions /\ verdict \in [Executions -> Verdicts]

\* An address that shares the prefix of an allowed network.
Safe(a) == \E n \in Networks : a \div (2^(Width - n[2])) = n[1] \div (2^(Width - n[2]))

\* "Every destination outside the allow-list [is] denied. DNS answers are checked
\* before connecting and PostgreSQL connects to the checked address", where the
\* allow-list has networks and names: whatever a name resolves to later, an
\* address outside the allowed networks is reached only for a listed name, whose
\* answer is not checked at all, and a target is denied only for a reason.
EgressDecides ==
  \A e \in Executions :
    /\ peer[e] # Nobody => host = "listed" \/ Safe(peer[e])
    /\ verdict[e] = "denied" =>
         \/ host = "localhost" \/ answer[e] = <<>>
         \/ host = "plain" /\ \E i \in DOMAIN answer[e] :
              answer[e][i][1] # 4 \/ ~ Safe(answer[e][i][2])

\* "Metadata-service addresses, loopback, and every destination outside the
\* allow-list are denied": here no allowed network holds a reserved address.
\* A listed name is exempt from the check of addresses, so whoever answers for
\* it may name one.
ReservedDenied == \A e \in Executions : peer[e] \notin Reserved

\* validate does not look whether the connection was disabled, enqueue does: a
\* disabled connection comes back only through the check of a job that was
\* asked for before it was disabled.
RevivedByEarlierJob ==
  [][status = "disabled" /\ status' # "disabled" =>
       \E e \in Executions : last' = e /\ pc[e] = "closing" /\ JobOf[e] \in early]_vars

\* A status other than pending was brought back by a check of a target that
\* policy allowed; a Prometheus target is never unhealthy for not answering.
StatusIsEvidence ==
  /\ status \in {"healthy", "unhealthy"} => last # Nobody
  /\ last # Nobody =>
       /\ verdict[last] \in {"healthy", "unhealthy"}
       /\ HasHost => answer[last] # <<>>
       /\ kind = "prometheus" => peer[last] # Nobody /\ last \notin quiet
       /\ status \in {verdict[last], "disabled"}

\* The waits for a target that have no deadline in this process: for an answer
\* of MySQL or AWS, and for PostgreSQL to close the socket after its answer.
Unbounded(e) ==
  \/ kind \in {"mysql", "aws_assume_role"} /\ pc[e] = "asking"
  \/ pc[e] = "parting"

\* However slowly a target answers, a check that has begun ends, with every
\* session and client that it opened closed, or is in one of the waits that the
\* target can draw out: a PostgreSQL target that says nothing cannot, nor one of
\* Prometheus that goes on talking.
ChecksEnd ==
  \A e \in Executions :
    pc[e] = "started" ~> ((pc[e] = "over" /\ open[e] = 0) \/ Unbounded(e))

-------------------------------------------------------------------------------
(* The inductive invariant behind the last two of the safety properties    *)
(* (ConnectionChecksProofs).                                               *)

\* Work in progress is for a job that was asked for; while the connection is
\* disabled, before that.
JobShape ==
  /\ \A e \in Executions : pc[e] # "idle" => job[JobOf[e]] # "none"
  /\ status = "disabled" => \A j \in Jobs : job[j] # "none" => j \in early

\* How far an execution has come, and what its verdict rests on.
CheckShape ==
  \A e \in Executions :
    /\ pc[e] \in {"idle", "started", "permitted", "asking"} => verdict[e] = "none"
    /\ pc[e] \in {"permitted", "asking"} /\ HasHost => answer[e] # <<>>
    /\ pc[e] = "asking" /\ HasHost => peer[e] # Nobody
    /\ verdict[e] \in {"healthy", "unhealthy"} =>
         /\ HasHost => answer[e] # <<>>
         /\ kind = "prometheus" => peer[e] # Nobody /\ e \notin quiet

\* The last record is of an execution that is over.
LastShape == last # Nobody => pc[last] = "over"

IInv == TypeOK /\ JobShape /\ CheckShape /\ LastShape /\ StatusIsEvidence
===============================================================================
