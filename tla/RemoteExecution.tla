--------------------------- MODULE RemoteExecution ---------------------------
(***************************************************************************)
(* The control service of JobControl and one RunnerAgent, joined by the    *)
(* exchanges, messages and uploads between them.  The service handles what *)
(* is in the agent's outbox, the agent what is in the service's; either    *)
(* may be handled again until its sender has the receipt, in any order,    *)
(* because polling, heartbeat, messages and uploads are separate lanes     *)
(* (transport/control.ts, bootstrap.ts), and an answer can be lost with    *)
(* the process or the connection that was to receive it.                   *)
(***************************************************************************)
EXTENDS JobControl, RunnerAgent

CONSTANT Runner
ASSUME RunnerAssumption == Agent = {Runner}

VARIABLE enrolled   \* the running agent process has registered its session

systemVars == <<vars, agentVars, enrolled>>

SystemInit == Init /\ AgentInit /\ enrolled = FALSE

Server(step) == step /\ UNCHANGED <<agentVars, enrolled>>
AgentDoes(step) == step /\ UNCHANGED <<vars, enrolled>>
-----------------------------------------------------------------------------
(***************************************************************************)
(* The service: what users, administrators, clocks and its own restarts do *)
(***************************************************************************)

QueueStep(e) ==
  \/ Submit(e, Runner) \/ QueueDeadlinePasses(e) \/ Cancel(e)
  \/ ExpireQueued(e) \/ Claim(e)
  \/ ClaimDenied(e) \/ RejectQueued(e) \/ RejectionOvertaken(e)
  \/ RecordStartRejection(e) \/ StartRejectionOvertaken(e)
  \/ Retire(e)

AdminStep ==
  \/ \E value \in {"accepting", "paused", "revoked"} : SetIntake(Runner, value)
  \/ \E e \in Job : Deny(e) \/ Allow(e)
  \/ ChangePolicy \/ ServerRestart

\* A process registers its session once, before its first exchange.
Enroll ==
  /\ mode = "up" /\ ~enrolled
  /\ Register(Runner)
  /\ enrolled' = TRUE
  /\ UNCHANGED agentVars

\* A message of the agent's durable outbox reaches the service.  A report is
\* named by its digest, of which an execution has one.  The agent settles a
\* cancelled call with its completion and never sends cancel-confirmed.
Handle(e, k) ==
  /\ k \in out[e]
  /\ CASE k = "accepted" -> HandleAccepted(e)
       [] k = "start-request" -> GrantPermit(e) \/ DenyStart(e)
       [] k = "started" -> HandleStarted(e)
       [] k = "completed" -> \E h \in Hash : HandleCompleted(e, ledger[e].verdict, h)

Store(e) == Reported(e) /\ \E h \in Hash : Upload(e, h)

Apply(e, k) == <<k, e>> \in acks /\ Acknowledge(e, k)
-----------------------------------------------------------------------------
(***************************************************************************)
(* The agent: what an exchange, a receipt or an archive receipt brings     *)
(***************************************************************************)

Obey(e, k) ==
  /\ enrolled /\ outbox[e][k] # "none"
  /\ CASE k = "delivery" -> ReceiveDelivery(e)
       [] k = "cancel" -> CancelCommand(e)
       [] k = "start-permit" -> PermitCommand(e)
       [] k = "start-rejected" -> RefuseCommand(e, job[e].refusal)

Confirm(e, k) == k \in receipt[e] /\ MessageConfirmed(e, k)

\* Mutant: the agent takes the receipt of its completion for the report's.
ArchivedEarly(e) == job[e].state = "ended" /\ ReportArchived(e)

Archived(e) == job[e].report \in {"archived", "expired"} /\ ReportArchived(e)

Applied(e, k) == outbox[e][k] = "acked" /\ AcksApplied(k, e)

\* Whoever stops has to register again.
ProcessEnds == (Exit \/ Crash) /\ enrolled' = FALSE /\ UNCHANGED vars
-----------------------------------------------------------------------------
ServerStep ==
  \/ \E e \in Job : \/ QueueStep(e) \/ Store(e)
                    \/ \E k \in MessageKind \ {"cancel-confirmed"} : Handle(e, k)
                    \/ \E k \in CommandKind : Apply(e, k)
  \/ AdminStep

AgentStep ==
  \/ \E e \in Job : \/ ExecutionStep(e) \/ Archived(e)
                    \/ \E k \in CommandKind : Obey(e, k) \/ Applied(e, k)
                    \/ \E k \in MessageKind : Confirm(e, k)
  \/ Pump \/ Shutdown \/ Restart

SystemNext == Server(ServerStep) \/ AgentDoes(AgentStep) \/ Enroll \/ ProcessEnds

SystemSpec == SystemInit /\ [][SystemNext]_systemVars

\* A stopped agent is started again and its process does its work; the lanes
\* retry until a delivery is received and a message is handled.
SystemFairness ==
  /\ WF_systemVars(Enroll) /\ WF_systemVars(ProcessEnds /\ mode = "closing")
  /\ WF_systemVars(AgentDoes(Restart)) /\ WF_systemVars(AgentDoes(Pump))
  /\ \A e \in Job :
       /\ WF_systemVars(outbox[e]["delivery"] = "pending" /\ AgentDoes(Obey(e, "delivery")))
       /\ WF_systemVars(Server(Handle(e, "completed")))
       /\ WF_systemVars(AgentDoes(Deadline(e))) /\ WF_systemVars(AgentDoes(FinishRun(e)))
       /\ WF_systemVars(AgentDoes(RequestStart(e) \/ FailPreparation(e)))
       /\ WF_systemVars(AgentDoes(mode = "down" /\ WorkerExit(e)))
       /\ WF_systemVars(AgentDoes(Aborted(e) /\ WorkerExit(e)))

SystemFairSpec == SystemSpec /\ SystemFairness
-----------------------------------------------------------------------------
(***************************************************************************)
(* Properties                                                              *)
(***************************************************************************)

Stage(e) ==
  CASE job[e].state = "absent" -> "none"
    [] job[e].state = "queued" -> "queued"
    [] job[e].state \in Assigned -> IF job[e].permit THEN "permitted" ELSE "assigned"
    [] OTHER -> "ended"

\* Service and agent together keep the contract of ExecutionContract: at most
\* one run per job, under a permit, and none after the end was announced.
C == INSTANCE ExecutionContract WITH
       stage <- [e \in Job |-> Stage(e)],
       ran <- {e \in Job : runs[e] > 0},
       outcome <- [e \in Job |-> job[e].verdict]
Contract == C!ContractSpec

\* A slot the service has released is really free: of a job that was handed
\* out and has ended, nothing is queued, called or running at the agent any
\* more, and both sides have recorded the same conclusion.
ReleasedMeansStopped ==
  \A e \in Job : job[e].state = "ended" /\ outbox[e]["delivery"] # "none" =>
    /\ ~Active(e) /\ ~InQueue(e) /\ worker[e] = "none"
    /\ ledger[e].settled /\ ledger[e].verdict = job[e].verdict

\* The conclusion an agent has recorded is one the service will take: until
\* it is received the job is assigned, and a business conclusion has a permit.
CompletedIsAcceptable ==
  \A e \in Job : "completed" \in out[e] \ receipt[e] =>
    /\ job[e].state \in Assigned
    /\ ledger[e].verdict \in Conclusive => job[e].permit

\* No report is lost between the two ledgers: the agent forgets it only when
\* the service has it, and the service waits only for one the agent still has.
NoReportLost ==
  \A e \in Job :
    /\ ledger[e].report = "archived" => job[e].report \in {"archived", "expired"}
    /\ job[e].state = "ended" /\ job[e].report = "pending" => Reported(e)

\* A slot is not lost: what was handed out to an agent that keeps coming back
\* ends at the service too, whatever is cancelled, refused, crashes or is
\* delivered again, unless the agent was revoked or its call is stranded.
AssignedEnds ==
  \A e \in Job :
    job[e].state \in Assigned ~>
      job[e].state = "ended" \/ intake[Runner] = "revoked" \/ Stranded(e)

\* A cancel the agent has acknowledged has reached the call it was meant for.
CancelReachesCall ==
  \A e \in Job : outbox[e]["cancel"] = "acked" /\ Active(e) => call[e].cancelled

\* A refusal the service records is one its agent can act on.
RefusalReachesCall ==
  \A e \in Job : job[e].refusal # "none" => job[e].refusal \in Understood
=============================================================================
