------------------------------ MODULE JobControl ------------------------------
(***************************************************************************)
(* The control service's authority over remote jobs: JobService, JobRepo,  *)
(* RunnerControlService and ExecutionRetentionCleanup of the Spring server.*)
(* One action is one committed database transaction.  A claim or a start   *)
(* that is denied rolls back and is followed by a second transaction that  *)
(* records the denial; the gap between the two is a state of its own       *)
(* (rejecting, refusing) in which everything else may happen.              *)
(*                                                                         *)
(* An agent is arbitrary here: it may send any message its credentials     *)
(* allow, in any order and again.  One thing is taken from the agent's     *)
(* code: the identity of a message is its kind and execution               *)
(* (messageIdentity, supervisor.ts), so there is one of each kind per job. *)
(***************************************************************************)
EXTENDS ControlProtocol, Naturals, FiniteSets

CONSTANTS
  Scheduled,        \* the jobs that a schedule submitted
  Agent,            \* registered runner agents
  NoAgent,
  Hash,             \* report digests
  NoHash,
  Limit,            \* the values maxConcurrentJobs is configured to
  QueueLimit,       \* queueLimits.global
  InputCapacity,    \* inputCacheBytes, in inputs of one size
  ResultCapacity    \* pendingResultBytes less faultReserveBytes, in reports

ASSUME JobAssumption == IsFiniteSet(Job) /\ Scheduled \subseteq Job
ASSUME AgentAssumption == NoAgent \notin Agent
ASSUME HashAssumption == NoHash \notin Hash
ASSUME CapacityAssumption ==
  /\ Limit \subseteq Nat \ {0} /\ Limit # {}
  /\ QueueLimit \in Nat /\ InputCapacity \in Nat /\ ResultCapacity \in Nat

VARIABLES
  job,         \* execution_jobs: one row per job
  outbox,      \* execution_job_outbox: per job and kind none, pending or acked
  receipt,     \* execution_job_messages: the kinds already processed, per job
  rejecting,   \* claims rolled back, their rejection not yet recorded
  refusing,    \* starts rolled back, their refusal not yet recorded
  registered,  \* the agents that have registered a runtime session
  intake,      \* execution_agents.accepting_jobs and .revoked
  limit,       \* maxConcurrentJobs in force
  denied       \* jobs whose submitter or project has lost the right to run

vars == <<job, outbox, receipt, rejecting, refusing, registered, intake, limit, denied>>
rows == <<job, outbox, receipt>>
gaps == <<rejecting, refusing>>
admin == <<registered, intake, limit, denied>>

Assigned == {"preparing", "running"}
Live == {"queued"} \cup Assigned

Row == [state : {"absent", "ended"} \cup Live, agent : Agent \cup {NoAgent},
        accepted : BOOLEAN, cancel : {"none", "requested", "confirmed"},
        permit : BOOLEAN, refusal : DenialReason \cup {"none"},
        orphaned : BOOLEAN,     \* the agent registered another session since the claim
        stale : BOOLEAN,        \* the policy version changed since the submission
        overdue : BOOLEAN,      \* queue_expires_at has passed
        report : {"none", "pending", "archived", "expired"}, hash : Hash \cup {NoHash},
        input : BOOLEAN, result : BOOLEAN,    \* reserved_input_bytes, reserved_result_bytes
        verdict : Verdict \cup {"none"}]

NoRow == [state |-> "absent", agent |-> NoAgent, accepted |-> FALSE, cancel |-> "none",
          permit |-> FALSE, refusal |-> "none", orphaned |-> FALSE, stale |-> FALSE,
          overdue |-> FALSE, report |-> "none", hash |-> NoHash,
          input |-> FALSE, result |-> FALSE, verdict |-> "none"]

TypeOK ==
  /\ job \in [Job -> Row]
  /\ outbox \in [Job -> [CommandKind -> {"none", "pending", "acked"}]]
  /\ receipt \in [Job -> SUBSET MessageKind]
  /\ rejecting \subseteq Job
  /\ refusing \in [Job -> DenialReason \cup {"none"}]
  /\ registered \subseteq Agent
  /\ intake \in [Agent -> {"accepting", "paused", "revoked"}]
  /\ limit \in [Agent -> Limit]
  /\ denied \subseteq Job

Init ==
  /\ job = [j \in Job |-> NoRow]
  /\ outbox = [j \in Job |-> [k \in CommandKind |-> "none"]]
  /\ receipt = [j \in Job |-> {}]
  /\ rejecting = {}
  /\ refusing = [j \in Job |-> "none"]
  /\ registered = {}
  /\ intake = [a \in Agent |-> "accepting"]
  /\ limit \in [Agent -> Limit]
  /\ denied = {}
-----------------------------------------------------------------------------
(***************************************************************************)
(* Counts, locks and shared steps                                          *)
(***************************************************************************)

Queued == {j \in Job : job[j].state = "queued"}
Occupied(a) == {j \in Job : job[j].agent = a /\ job[j].state \in Assigned}
InputsHeld(a) == {j \in Job : job[j].agent = a /\ job[j].input}
ResultsHeld(a) == {j \in Job : job[j].agent = a /\ job[j].result}

\* Mutant: an agent keeps its authority over what it was assigned.
HeldByRevoked(j) == job[j].state \notin {"absent", "queued"}

\* lockAssignment: an assigned job whose agent still has its identity.
Held(j) ==
  /\ job[j].state \notin {"absent", "queued"}
  /\ intake[job[j].agent] # "revoked"

\* requireUsable and requireExecution at the same instant.
Usable(j) == intake[job[j].agent] = "accepting" /\ j \notin denied

\* A message is processed once; a later copy only returns the stored receipt.
Fresh(j, k) == k \notin receipt[j]
Receive(j, k) == receipt' = [receipt EXCEPT ![j] = @ \cup {k}]

\* The outbox insert is skipped when the message identity already exists.
Posted(j, k) == [outbox EXCEPT ![j][k] = IF @ = "none" THEN "pending" ELSE @]
Acked(j, k) == [outbox EXCEPT ![j][k] = IF @ = "pending" THEN "acked" ELSE @]

\* Mutant: the end of a job frees all it has reserved, its report's room too.
EndFreeingResult(j, verdict, hash, confirmed) ==
  /\ job[j].state \in Live
  /\ job' = [job EXCEPT ![j] =
               [@ EXCEPT !.state = "ended", !.verdict = verdict, !.hash = hash,
                         !.report = IF @ = "archived" THEN @ ELSE "pending",
                         !.input = FALSE, !.result = FALSE,
                         !.cancel = IF confirmed THEN "confirmed" ELSE @]]
  /\ outbox' = [outbox EXCEPT ![j] =
                  [k \in CommandKind |-> IF outbox[j][k] = "pending" THEN "acked"
                                         ELSE outbox[j][k]]]

\* JobRepo.end: the one place where a job is released.
End(j, verdict, hash, confirmed) ==
  LET row == job[j]
      transfer == IF row.report = "archived" THEN "archived"
                  ELSE IF row.state # "queued" \/ hash # NoHash THEN "pending" ELSE "none"
  IN /\ row.state \in Live
     /\ job' = [job EXCEPT ![j] =
                 [row EXCEPT !.state = "ended", !.verdict = verdict, !.hash = hash,
                             !.report = transfer, !.input = FALSE,
                             !.result = row.result /\ transfer = "pending",
                             !.cancel = IF confirmed THEN "confirmed" ELSE row.cancel]]
     /\ outbox' = [outbox EXCEPT ![j] =
                    [k \in CommandKind |-> IF outbox[j][k] = "pending" THEN "acked"
                                           ELSE outbox[j][k]]]
-----------------------------------------------------------------------------
(***************************************************************************)
(* The queue: submission, expiry, claim and rejection                      *)
(***************************************************************************)

\* A repeated submission of the same intent returns the row it finds.
Submit(j, a) ==
  /\ job[j].state = "absent"
  /\ intake[a] = "accepting" /\ j \notin denied
  /\ Cardinality(Queued) < QueueLimit
  /\ InputCapacity > 0
  /\ job' = [job EXCEPT ![j] = [@ EXCEPT !.state = "queued", !.agent = a]]
  /\ UNCHANGED <<outbox, receipt, gaps, admin>>

\* The clock passes queue_expires_at.
QueueDeadlinePasses(j) ==
  /\ job[j].state \in Live /\ ~job[j].overdue
  /\ job' = [job EXCEPT ![j].overdue = TRUE]
  /\ UNCHANGED <<outbox, receipt, gaps, admin>>

\* Expiry is decided before any slot is considered, in its own transaction,
\* by an exchange whose first one has checked the session and the identity;
\* neither is looked at again, so the agent may have been revoked since.
ExpireQueued(j) ==
  /\ job[j].state = "queued" /\ job[j].overdue
  /\ job[j].agent \in registered
  /\ End(j, "rejected", NoHash, FALSE)
  /\ UNCHANGED <<receipt, gaps, admin>>

\* Mutant: reports that wait for their upload are not counted.
ClaimBeyondResults(j) ==
  LET a == job[j].agent IN
  /\ job[j].state = "queued" /\ job[j].cancel = "none" /\ ~job[j].overdue
  /\ a \in registered /\ Usable(j) /\ ~job[j].stale
  /\ Cardinality(Occupied(a)) < limit[a]
  /\ Cardinality(InputsHeld(a)) < InputCapacity
  /\ job' = [job EXCEPT ![j] = [@ EXCEPT !.state = "preparing", !.report = "pending",
                                         !.input = TRUE, !.result = TRUE]]
  /\ outbox' = Posted(j, "delivery")
  /\ UNCHANGED <<receipt, gaps, admin>>

\* Counting and the conditional update run under the agent's row lock.
Claim(j) ==
  LET a == job[j].agent IN
  /\ job[j].state = "queued" /\ job[j].cancel = "none" /\ ~job[j].overdue
  /\ a \in registered /\ Usable(j) /\ ~job[j].stale
  /\ Cardinality(Occupied(a)) < limit[a]
  /\ Cardinality(InputsHeld(a)) < InputCapacity
  /\ Cardinality(ResultsHeld(a)) < ResultCapacity
  /\ job' = [job EXCEPT ![j] = [@ EXCEPT !.state = "preparing", !.report = "pending",
                                         !.input = TRUE, !.result = TRUE]]
  /\ outbox' = Posted(j, "delivery")
  /\ UNCHANGED <<receipt, gaps, admin>>

\* The claim throws and rolls back; an intake that was paused or revoked since
\* the exchange began is no reason to reject, a caller without rights is.
ClaimDenied(j) ==
  /\ job[j].state = "queued" /\ ~job[j].overdue /\ j \notin rejecting
  /\ job[j].agent \in registered
  /\ \/ j \in denied
     \/ job[j].stale /\ intake[job[j].agent] = "accepting"
  /\ rejecting' = rejecting \cup {j}
  /\ UNCHANGED <<rows, refusing, admin>>

\* Mutant: the recorded rejection ends whatever has become of the job.
RejectAnyway(j) ==
  /\ j \in rejecting
  /\ rejecting' = rejecting \ {j}
  /\ End(j, "rejected", NoHash, FALSE)
  /\ UNCHANGED <<receipt, refusing, admin>>

\* The second transaction re-reads nothing but the row's state.
RejectQueued(j) ==
  /\ j \in rejecting /\ job[j].state = "queued"
  /\ rejecting' = rejecting \ {j}
  /\ End(j, "rejected", NoHash, FALSE)
  /\ UNCHANGED <<receipt, refusing, admin>>

RejectionOvertaken(j) ==
  /\ j \in rejecting /\ job[j].state # "queued"
  /\ rejecting' = rejecting \ {j}
  /\ UNCHANGED <<rows, refusing, admin>>

\* Mutant: the cancel command is posted for a job that has just ended.
CancelUnchecked(j) ==
  /\ \/ /\ job[j].state = "queued"
        /\ End(j, "cancelled", NoHash, TRUE)
     \/ /\ job[j].state \notin {"absent", "queued"} /\ job[j].cancel = "none"
        /\ job' = [job EXCEPT ![j].cancel = "requested"]
        /\ outbox' = Posted(j, "cancel")
  /\ UNCHANGED <<receipt, gaps, admin>>

\* Mutant: a job that is not running yet is ended without its agent.
CancelPreparing(j) ==
  /\ \/ /\ job[j].state \in {"queued", "preparing"}
        /\ End(j, "cancelled", NoHash, TRUE)
     \/ /\ job[j].state = "running" /\ job[j].cancel = "none"
        /\ job' = [job EXCEPT ![j].cancel = "requested"]
        /\ outbox' = Posted(j, "cancel")
  /\ UNCHANGED <<receipt, gaps, admin>>

\* A queued job ends at once; an assigned one only gets a cancel command.
Cancel(j) ==
  /\ \/ /\ job[j].state = "queued"
        /\ End(j, "cancelled", NoHash, TRUE)
     \/ /\ job[j].state \in Assigned /\ job[j].cancel = "none"
        /\ job' = [job EXCEPT ![j].cancel = "requested"]
        /\ outbox' = Posted(j, "cancel")
  /\ UNCHANGED <<receipt, gaps, admin>>
-----------------------------------------------------------------------------
(***************************************************************************)
(* Messages of the agent                                                   *)
(***************************************************************************)

\* Taking the delivery over also acknowledges it.
HandleAccepted(j) ==
  /\ Held(j) /\ Fresh(j, "accepted") /\ job[j].state # "ended"
  /\ job' = [job EXCEPT ![j].accepted = @ \/ job[j].state = "preparing"]
  /\ outbox' = Acked(j, "delivery")
  /\ Receive(j, "accepted")
  /\ UNCHANGED <<gaps, admin>>

\* What start and recordStartRejection both require of the assignment.
AwaitsStart(j) ==
  /\ Held(j) /\ Fresh(j, "start-request")
  /\ job[j].agent \in registered /\ ~job[j].orphaned
  /\ ~job[j].permit /\ job[j].state = "preparing" /\ job[j].accepted
  /\ job[j].cancel = "none"

\* The reasons the start transaction may be denied for right now; the checks
\* of a scheduled job's subject and deadline come before all others.
StartDenials(j) ==
  LET a == job[j].agent
      late == j \in Scheduled /\ job[j].overdue
  IN {reason \in DenialReason :
        IF reason = "schedule" THEN late \/ (j \in Scheduled /\ j \in denied)
        ELSE ~late /\ (\/ ~Usable(j) \/ job[j].stale
                      \/ Cardinality(Occupied(a)) > limit[a])}

GrantPermit(j) ==
  /\ AwaitsStart(j) /\ StartDenials(j) = {}
  /\ job' = [job EXCEPT ![j].permit = TRUE]
  /\ outbox' = Posted(j, "start-permit")
  /\ Receive(j, "start-request")
  /\ UNCHANGED <<gaps, admin>>

\* The denied transaction has rolled back; its request goes on to record why.
DenyStart(j) ==
  /\ AwaitsStart(j) /\ refusing[j] = "none"
  /\ \E reason \in StartDenials(j) : refusing' = [refusing EXCEPT ![j] = reason]
  /\ UNCHANGED <<rows, rejecting, admin>>

\* Mutant: what was decided is recorded without looking at the job again.
RecordStale(j) ==
  /\ refusing[j] # "none" /\ Held(j) /\ job[j].state \in Assigned
  /\ job' = [job EXCEPT ![j].refusal = refusing[j]]
  /\ outbox' = Posted(j, "start-rejected")
  /\ Receive(j, "start-request")
  /\ refusing' = [refusing EXCEPT ![j] = "none"]
  /\ UNCHANGED <<rejecting, admin>>

RecordStartRejection(j) ==
  /\ refusing[j] # "none" /\ AwaitsStart(j)
  /\ job' = [job EXCEPT ![j].refusal = refusing[j]]
  /\ outbox' = Posted(j, "start-rejected")
  /\ Receive(j, "start-request")
  /\ refusing' = [refusing EXCEPT ![j] = "none"]
  /\ UNCHANGED <<rejecting, admin>>

\* Another copy of the request, a cancel or the end came first.
StartRejectionOvertaken(j) ==
  /\ refusing[j] # "none" /\ ~AwaitsStart(j)
  /\ refusing' = [refusing EXCEPT ![j] = "none"]
  /\ UNCHANGED <<rows, rejecting, admin>>

HandleStarted(j) ==
  /\ Held(j) /\ Fresh(j, "started") /\ job[j].permit
  /\ job[j].state \in Assigned
  /\ job' = [job EXCEPT ![j].state = "running"]
  /\ Receive(j, "started")
  /\ UNCHANGED <<outbox, gaps, admin>>

\* Mutant: a conclusion is taken from an agent that was never permitted to run.
CompletedUnearned(j, verdict, hash) ==
  /\ Held(j) /\ Fresh(j, "completed") /\ job[j].state # "ended"
  /\ job[j].report = "archived" => hash = job[j].hash
  /\ End(j, verdict, hash, verdict = "cancelled")
  /\ Receive(j, "completed")
  /\ UNCHANGED <<gaps, admin>>

HandleCompleted(j, verdict, hash) ==
  /\ Held(j) /\ Fresh(j, "completed") /\ job[j].state # "ended"
  /\ verdict \in Conclusive => job[j].permit
  /\ job[j].report = "archived" => hash = job[j].hash
  /\ End(j, verdict, hash, verdict = "cancelled")
  /\ Receive(j, "completed")
  /\ UNCHANGED <<gaps, admin>>

\* Carries no report: the one already archived is kept.
HandleCancelConfirmed(j) ==
  /\ Held(j) /\ Fresh(j, "cancel-confirmed") /\ job[j].state # "ended"
  /\ job[j].cancel = "requested"
  /\ End(j, "cancelled", IF job[j].report = "archived" THEN job[j].hash ELSE NoHash, TRUE)
  /\ Receive(j, "cancel-confirmed")
  /\ UNCHANGED <<gaps, admin>>

\* Mutant: a late copy of the upload brings an expired report back.
UploadAgain(j, hash) ==
  /\ Held(j) /\ job[j].hash \in {NoHash, hash}
  /\ job[j].report # "archived"
  /\ job' = [job EXCEPT ![j] = [@ EXCEPT !.report = "archived", !.hash = hash,
                                         !.result = FALSE]]
  /\ UNCHANGED <<outbox, receipt, gaps, admin>>

\* Once archived or expired, the same upload is only confirmed again.
Upload(j, hash) ==
  /\ Held(j) /\ job[j].hash \in {NoHash, hash}
  /\ job[j].report \notin {"archived", "expired"}
  /\ job' = [job EXCEPT ![j] = [@ EXCEPT !.report = "archived", !.hash = hash,
                                         !.result = FALSE]]
  /\ UNCHANGED <<outbox, receipt, gaps, admin>>

\* The acknowledgements an exchange carries.
Acknowledge(j, k) ==
  /\ outbox[j][k] = "pending" /\ job[j].agent \in registered
  /\ intake[job[j].agent] # "revoked"
  /\ outbox' = Acked(j, k)
  /\ UNCHANGED <<job, receipt, gaps, admin>>
-----------------------------------------------------------------------------
(***************************************************************************)
(* Retention, administration and failure                                   *)
(***************************************************************************)

\* The retention period of an archived report is over.
Retire(j) ==
  /\ job[j].state = "ended" /\ job[j].report = "archived"
  /\ \A k \in CommandKind : outbox[j][k] # "pending"
  /\ job' = [job EXCEPT ![j].report = "expired"]
  /\ UNCHANGED <<outbox, receipt, gaps, admin>>

\* A new session of the agent: what it was assigned before belongs to no one.
Register(a) ==
  /\ intake[a] # "revoked"
  /\ registered' = registered \cup {a}
  /\ job' = [j \in Job |-> [job[j] EXCEPT !.orphaned =
               @ \/ (job[j].agent = a /\ job[j].state \in Assigned)]]
  /\ UNCHANGED <<outbox, receipt, gaps, intake, limit, denied>>

SetIntake(a, value) ==
  /\ intake[a] # "revoked" /\ intake[a] # value
  /\ intake' = [intake EXCEPT ![a] = value]
  /\ UNCHANGED <<rows, gaps, registered, limit, denied>>

SetLimit(a, value) ==
  /\ limit[a] # value
  /\ limit' = [limit EXCEPT ![a] = value]
  /\ UNCHANGED <<rows, gaps, registered, intake, denied>>

\* Versions only grow, so a job fixed to an earlier one never matches again.
ChangePolicy ==
  /\ \E j \in Job : job[j].state \in Live /\ ~job[j].stale
  /\ job' = [j \in Job |-> [job[j] EXCEPT !.stale = @ \/ job[j].state \in Live]]
  /\ UNCHANGED <<outbox, receipt, gaps, admin>>

Deny(j) ==
  /\ j \notin denied
  /\ denied' = denied \cup {j}
  /\ UNCHANGED <<rows, gaps, registered, intake, limit>>

Allow(j) ==
  /\ j \in denied
  /\ denied' = denied \ {j}
  /\ UNCHANGED <<rows, gaps, registered, intake, limit>>

\* The database survives, the requests that were between transactions do not.
ServerRestart ==
  /\ rejecting # {} \/ \E j \in Job : refusing[j] # "none"
  /\ rejecting' = {}
  /\ refusing' = [j \in Job |-> "none"]
  /\ UNCHANGED <<rows, admin>>
-----------------------------------------------------------------------------
Queueing ==
  \E j \in Job :
    \/ \E a \in Agent : Submit(j, a)
    \/ QueueDeadlinePasses(j) \/ ExpireQueued(j) \/ Claim(j) \/ Cancel(j)
    \/ ClaimDenied(j) \/ RejectQueued(j) \/ RejectionOvertaken(j)

Starting ==
  \E j \in Job :
    \/ HandleAccepted(j) \/ GrantPermit(j) \/ DenyStart(j) \/ HandleStarted(j)
    \/ RecordStartRejection(j) \/ StartRejectionOvertaken(j)

Settling ==
  \E j \in Job :
    \/ \E v \in Verdict, h \in Hash \cup {NoHash} : HandleCompleted(j, v, h)
    \/ HandleCancelConfirmed(j)
    \/ \E h \in Hash : Upload(j, h)
    \/ \E k \in CommandKind : Acknowledge(j, k)
    \/ Retire(j)

Administration ==
  \/ \E a \in Agent : \/ Register(a)
                      \/ \E value \in {"accepting", "paused", "revoked"} : SetIntake(a, value)
                      \/ \E value \in Limit : SetLimit(a, value)
  \/ ChangePolicy
  \/ \E j \in Job : Deny(j) \/ Allow(j)
  \/ ServerRestart

Next == Queueing \/ Starting \/ Settling \/ Administration

Spec == Init /\ [][Next]_vars
-----------------------------------------------------------------------------
(***************************************************************************)
(* Properties                                                              *)
(***************************************************************************)

\* A start is decided once: whatever copies of the request race, and however
\* the reason for a denial comes and goes between the transaction that was
\* rolled back and the one that records it, no job holds both a permit and a
\* refusal (RunnerControlService.messages, recordStartRejection, start).
StartDecidedOnce ==
  \A j \in Job : ~(job[j].permit /\ job[j].refusal # "none")

\* A slot is released only by the agent that holds it: an assigned job that
\* ended has the receipt of its own completion.  No denial that was decided
\* while the job was queued and is recorded late may end it (exchange, end).
ReleaseIsConfirmed ==
  \A j \in Job :
    job[j].state = "ended" /\ outbox[j]["delivery"] # "none"
      => receipt[j] \cap {"completed", "cancel-confirmed"} # {}

\* Nothing is left over at the end of a job: no command is still to be
\* delivered, no input byte reserved, and a result reservation only while
\* the report is still to come (JobRepo.end, archive).
EndedIsSettled ==
  \A j \in Job : job[j].state = "ended" =>
    /\ \A k \in CommandKind : outbox[j][k] # "pending"
    /\ ~job[j].input
    /\ job[j].result => job[j].report = "pending"

\* A conclusion about a business run presupposes permission to run, and a
\* job is shown as cancelled exactly when it ended cancelled.
VerdictIsEarned ==
  \A j \in Job :
    /\ job[j].verdict \in Conclusive => job[j].permit
    /\ job[j].cancel = "confirmed" <=> job[j].verdict = "cancelled"

\* The reservations of an agent fit its budget, whichever of upload and
\* completion comes first and whatever ends a job (claim, end, archive).
ReservationsFit ==
  \A a \in Agent :
    /\ Cardinality(ResultsHeld(a)) <= ResultCapacity
    /\ Cardinality(InputsHeld(a)) <= InputCapacity

\* Every assigned job can still store its report: it holds a reservation
\* until the report is archived, also after its execution was released.
ReportHasRoom ==
  \A j \in Job : job[j].report = "pending" => job[j].result

\* Taking on work never exceeds the limit in force at that instant, although
\* an administrator may lower it below what is already running.
ClaimRespectsLimit ==
  [][\A a \in Agent :
       Cardinality(Occupied(a)') > Cardinality(Occupied(a))
         => Cardinality(Occupied(a)') <= limit[a]]_vars

\* An end is final: no late message, upload, cancel or cleanup changes the
\* conclusion, the cancel state or a recorded digest, and the report only
\* moves from pending to archived to expired.
EndIsFinal ==
  [][\A j \in Job : job[j].state = "ended" =>
       /\ job'[j].state = "ended"
       /\ job'[j].verdict = job[j].verdict /\ job'[j].cancel = job[j].cancel
       /\ job[j].hash # NoHash => job'[j].hash = job[j].hash
       /\ job[j].report = "expired" => job'[j].report = "expired"
       /\ job[j].report = "archived" => job'[j].report \in {"archived", "expired"}]_vars

\* A revoked agent changes nothing any more: its jobs are neither started,
\* completed nor archived, whatever requests of it are still under way.
RevokedAgentIsMute ==
  [][\A j \in Job : job[j].state # "absent" /\ intake[job[j].agent] = "revoked" =>
       /\ receipt'[j] = receipt[j] /\ job'[j].permit = job[j].permit
       /\ job[j].state \in Assigned => job'[j].state = job[j].state
       /\ job'[j].report # job[j].report => job'[j].report = "expired"]_vars
=============================================================================
