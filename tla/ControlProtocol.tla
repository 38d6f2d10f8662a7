--------------------------- MODULE ControlProtocol ---------------------------
(***************************************************************************)
(* The vocabulary the control service (server/.../execution/jobs) and the  *)
(* runner agent (apps/runner-agent) share: the kinds of the messages that  *)
(* cross packages/execution/src/contract/messages.ts and the conclusions a *)
(* finished execution can carry.  Every message of one execution has an    *)
(* identity made of its kind and the execution, so a message is named here *)
(* by its kind alone.                                                      *)
(***************************************************************************)

CONSTANT Job   \* submitted intents; the service has a row, the agent an execution for each

\* Server to agent: the delivery of a task and the three per-execution
\* commands.  apply-config carries no execution and is not modelled.
CommandKind == {"delivery", "cancel", "start-permit", "start-rejected"}

\* Agent to server.  The two progress kinds only move a display counter.
MessageKind == {"accepted", "start-request", "started", "completed", "cancel-confirmed"}

Verdict == {"passed", "failed", "cancelled", "timed-out", "interrupted", "rejected"}

\* The conclusions that claim a business execution took place to its end.
Conclusive == {"passed", "failed"}

\* Why a start was refused: a reason code of the agent's strict enumeration
\* (StartRejectionReasonSchema), or one of the three "schedule-" codes that
\* only the server's START_REJECTIONS lists.
DenialReason == {"contract", "schedule"}
=============================================================================
