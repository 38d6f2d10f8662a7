-------------------------- MODULE ExecutionContract --------------------------
(***************************************************************************)
(* What remote execution promises of one job, whatever agents, networks    *)
(* and processes do: a job is queued, assigned, perhaps permitted, and     *)
(* ends once.  Core runs for it at most once, only while it is permitted,  *)
(* and never after the end was announced; an announced business conclusion *)
(* stands for a run that took place.                                       *)
(***************************************************************************)
EXTENDS ControlProtocol

VARIABLES
  stage,    \* how far a job has come
  ran,      \* the jobs Core was invoked for
  outcome   \* the conclusion that was announced

contract == <<stage, ran, outcome>>

ContractInit ==
  /\ stage = [j \in Job |-> "none"]
  /\ ran = {}
  /\ outcome = [j \in Job |-> "none"]

Move(j, from, to) == stage[j] = from /\ stage' = [stage EXCEPT ![j] = to]

Enqueue(j) == Move(j, "none", "queued") /\ UNCHANGED <<ran, outcome>>
Assign(j) == Move(j, "queued", "assigned") /\ UNCHANGED <<ran, outcome>>
Permit(j) == Move(j, "assigned", "permitted") /\ UNCHANGED <<ran, outcome>>

Run(j) ==
  /\ stage[j] = "permitted" /\ j \notin ran
  /\ ran' = ran \cup {j}
  /\ UNCHANGED <<stage, outcome>>

Conclude(j, verdict) ==
  /\ stage[j] \in {"queued", "assigned", "permitted"}
  /\ verdict \in Conclusive => j \in ran
  /\ stage[j] = "queued" => verdict \in {"rejected", "cancelled"}
  /\ stage' = [stage EXCEPT ![j] = "ended"]
  /\ outcome' = [outcome EXCEPT ![j] = verdict]
  /\ UNCHANGED ran

ContractNext ==
  \E j \in Job : \/ Enqueue(j) \/ Assign(j) \/ Permit(j) \/ Run(j)
                 \/ \E verdict \in Verdict : Conclude(j, verdict)

ContractSpec == ContractInit /\ [][ContractNext]_contract
=============================================================================
