------------------------ MODULE RemoteExecutionProofs ------------------------
(***************************************************************************)
(* What holds of the control service and its runner agent together, for    *)
(* every set of jobs, every capacity and every number of stops.  Each side *)
(* keeps its own invariant (JobControlProofs, RunnerAgentProofs); Joint    *)
(* ties them: what one ledger has recorded, the other's outbox, receipts   *)
(* or ledger can account for, whatever is lost or comes again in between.  *)
(* From it follow the end-to-end properties, and that every step of the    *)
(* system is a step of ExecutionContract or no step of it at all.          *)
(***************************************************************************)
EXTENDS RemoteExecution, JobControlProofs, RunnerAgentProofs

Kept == {"archived", "expired"}

\* The agent knows of a job, and the service of a report, only what was
\* delivered; a permit is used or posted only where one was granted.
Delivered(e) ==
  /\ ledger[e].known => outbox[e]["delivery"] # "none"
  /\ job[e].state \in Assigned \/ job[e].report # "none" => outbox[e]["delivery"] # "none"
  /\ Permitted(e) \/ outbox[e]["start-permit"] # "none" => job[e].permit

\* A conclusion is on its way until it is received, and received it is the
\* one the agent has recorded; a report is dropped only when it is stored.
Agreed(e) ==
  /\ ledger[e].settled => "completed" \in out[e] \cup receipt[e]
  /\ "completed" \in out[e] => ledger[e].settled
  /\ "completed" \in receipt[e] =>
       ledger[e].settled /\ job[e].state = "ended" /\ ledger[e].verdict = job[e].verdict
  /\ "cancel-confirmed" \notin receipt[e]
  /\ ledger[e].report = "archived" => job[e].report \in Kept

Joint == \A e \in Job : Delivered(e) /\ Agreed(e)

\* The inductive invariant.
SystemInv == Inv /\ AgentInv /\ Joint
-----------------------------------------------------------------------------
(***************************************************************************)
(* What a step of the service does to a job                                *)
(***************************************************************************)

\* Nothing but flags the agent never sees.
Still(x) ==
  /\ job'[x].state = job[x].state /\ job'[x].permit = job[x].permit
  /\ job'[x].verdict = job[x].verdict /\ job'[x].report = job[x].report
  /\ receipt'[x] = receipt[x] /\ outbox'[x] = outbox[x]

OnlyJob(e) == \A x \in Job \ {e} : Still(x)

\* A job stays at its stage, is submitted, claimed, granted its permit, ended
\* in the queue, or ended by the conclusion its agent has recorded.
Stays(e) ==
  /\ job'[e].state = job[e].state \/ {job[e].state, job'[e].state} \subseteq Assigned
  /\ job'[e].permit = job[e].permit /\ job'[e].verdict = job[e].verdict
  /\ job'[e].report = job[e].report \/ job'[e].report \in Kept
  /\ job'[e].report # "none" => outbox[e]["delivery"] # "none"

Submits(e) ==
  /\ job[e].state = "absent" /\ job'[e].state = "queued"
  /\ job'[e].permit = job[e].permit /\ job'[e].verdict = job[e].verdict
  /\ job'[e].report = job[e].report

Claims(e) ==
  /\ job[e].state = "queued" /\ job'[e].state = "preparing"
  /\ job'[e].permit = job[e].permit /\ job'[e].verdict = job[e].verdict
  /\ outbox'[e]["delivery"] # "none" /\ job[e].report \notin Kept

Grants(e) ==
  /\ job[e].state \in Assigned /\ job'[e].state = job[e].state
  /\ ~job[e].permit /\ job'[e].permit /\ job'[e].verdict = job[e].verdict
  /\ job'[e].report = job[e].report

EndsQueued(e) ==
  /\ job[e].state = "queued" /\ job'[e].state = "ended"
  /\ job'[e].permit = job[e].permit /\ job'[e].verdict \in {"rejected", "cancelled"}
  /\ job'[e].report = job[e].report

EndsAssigned(e) ==
  /\ job[e].state \in Assigned /\ job'[e].state = "ended"
  /\ "completed" \in out[e] /\ job'[e].verdict = ledger[e].verdict
  /\ job'[e].permit = job[e].permit
  /\ job[e].report \in Kept => job'[e].report \in Kept

\* Commands stay posted and receipts stored, and only the end of an assigned
\* job is the receipt of a conclusion.
Records(e) ==
  /\ \A k \in CommandKind : outbox[e][k] # "none" => outbox'[e][k] # "none"
  /\ outbox'[e]["start-permit"] # "none" => outbox[e]["start-permit"] # "none" \/ job'[e].permit
  /\ receipt[e] \subseteq receipt'[e] /\ "cancel-confirmed" \notin receipt'[e] \ receipt[e]
  /\ "completed" \in receipt'[e] \ receipt[e] => EndsAssigned(e)

JobMoves(e) ==
  /\ Records(e)
  /\ \/ Stays(e) \/ Submits(e) \/ Claims(e) \/ Grants(e) \/ EndsQueued(e) \/ EndsAssigned(e)

\* What is known of one job and of the agent's view of it.
LEMMA JobFacts ==
  ASSUME SystemInv, NEW e \in Job
  PROVE  /\ job[e] \in Row /\ outbox[e] \in Box /\ receipt[e] \in SUBSET MessageKind
         /\ Sound(job[e], outbox[e], receipt[e]) /\ Delivered(e) /\ Agreed(e)
         /\ job \in [Job -> Row] /\ outbox \in [Job -> Box]
         /\ receipt \in [Job -> SUBSET MessageKind]
  BY DEF SystemInv, Inv, TypeOK, AllSound, Joint, Box

\* A step that writes one row leaves the other jobs alone.
LEMMA OneRow ==
  ASSUME SystemInv, NEW e \in Job, NEW row, NEW box, NEW got,
         job' = [job EXCEPT ![e] = row], outbox' = [outbox EXCEPT ![e] = box],
         receipt' = [receipt EXCEPT ![e] = got]
  PROVE  /\ OnlyJob(e)
         /\ job'[e] = row /\ outbox'[e] = box /\ receipt'[e] = got
  BY JobFacts DEF OnlyJob, Still

\* A job whose row does not change stays where it is.
LEMMA StillMoves ==
  ASSUME SystemInv, NEW x \in Job, Still(x)
  PROVE  JobMoves(x)
  BY JobFacts DEF Still, JobMoves, Records, Stays, Delivered

\* Commands that are posted or acknowledged stay posted.
LEMMA Outboxes ==
  ASSUME NEW box \in Box, NEW k \in CommandKind
  PROVE  LET posted == [box EXCEPT ![k] = IF @ = "none" THEN "pending" ELSE @]
             acked == [box EXCEPT ![k] = IF @ = "pending" THEN "acked" ELSE @]
         IN /\ posted[k] # "none" /\ (acked[k] # "none" => box[k] # "none")
            /\ \A i \in CommandKind : /\ box[i] # "none" => posted[i] # "none" /\ acked[i] # "none"
                                      /\ i # k => posted[i] = box[i] /\ acked[i] = box[i]
  BY DEF Box

\* A submission queues an absent job.
LEMMA SubmitMoves ==
  ASSUME SystemInv, NEW e \in Job, NEW a, Submit(e, a)
  PROVE  JobMoves(e) /\ OnlyJob(e)
<1> DEFINE row == [job[e] EXCEPT !.state = "queued", !.agent = a]
<1>1. /\ row.state = "queued" /\ row.permit = job[e].permit /\ row.verdict = job[e].verdict
      /\ row.report = job[e].report
  BY JobFacts DEF Row
<1>2. /\ job' = [job EXCEPT ![e] = row] /\ outbox' = [outbox EXCEPT ![e] = outbox[e]]
      /\ receipt' = [receipt EXCEPT ![e] = receipt[e]]
  BY JobFacts DEF Submit
<1> HIDE DEF row
<1>3. OnlyJob(e) /\ job'[e] = row /\ outbox'[e] = outbox[e] /\ receipt'[e] = receipt[e]
  BY <1>2, OneRow
<1> QED BY <1>1, <1>3 DEF JobMoves, Records, Submits, Submit

\* A claim hands the job over and posts its delivery.
LEMMA ClaimMoves ==
  ASSUME SystemInv, NEW e \in Job, Claim(e)
  PROVE  JobMoves(e) /\ OnlyJob(e)
<1> DEFINE row == [job[e] EXCEPT !.state = "preparing", !.report = "pending",
                                 !.input = TRUE, !.result = TRUE]
           box == [outbox[e] EXCEPT !["delivery"] = IF @ = "none" THEN "pending" ELSE @]
<1>1. /\ row.state = "preparing" /\ row.permit = job[e].permit
      /\ row.verdict = job[e].verdict
  BY JobFacts DEF Row
<1>2. /\ job' = [job EXCEPT ![e] = row] /\ outbox' = [outbox EXCEPT ![e] = box]
      /\ receipt' = [receipt EXCEPT ![e] = receipt[e]]
  BY JobFacts DEF Claim, Posted
<1>3. /\ box["delivery"] # "none" /\ box["start-permit"] = outbox[e]["start-permit"]
      /\ \A k \in CommandKind : outbox[e][k] # "none" => box[k] # "none"
  BY JobFacts, Outboxes DEF CommandKind
<1>4. job[e].state = "queued" /\ job[e].report = "none"
  BY JobFacts DEF Claim, Sound, Untouched
<1> HIDE DEF row, box
<1>5. OnlyJob(e) /\ job'[e] = row /\ outbox'[e] = box /\ receipt'[e] = receipt[e]
  BY <1>2, OneRow
<1> QED BY <1>1, <1>3, <1>4, <1>5 DEF JobMoves, Records, Claims, Kept

\* The deadline is a flag.
LEMMA DeadlineMoves ==
  ASSUME SystemInv, NEW e \in Job, QueueDeadlinePasses(e)
  PROVE  JobMoves(e) /\ OnlyJob(e)
<1> DEFINE row == [job[e] EXCEPT !.overdue = TRUE]
<1>1. /\ row.state = job[e].state /\ row.permit = job[e].permit
      /\ row.verdict = job[e].verdict /\ row.report = job[e].report
  BY JobFacts DEF Row
<1>2. /\ job' = [job EXCEPT ![e] = row] /\ outbox' = [outbox EXCEPT ![e] = outbox[e]]
      /\ receipt' = [receipt EXCEPT ![e] = receipt[e]]
  BY JobFacts DEF QueueDeadlinePasses
<1> HIDE DEF row
<1>3. OnlyJob(e) /\ job'[e] = row /\ outbox'[e] = outbox[e] /\ receipt'[e] = receipt[e]
  BY <1>2, OneRow
<1> QED BY <1>1, <1>3, JobFacts DEF JobMoves, Records, Stays, Delivered

\* What an end writes: the conclusion, and no command that is still to come.
LEMMA EndWrites ==
  ASSUME SystemInv, NEW e \in Job, NEW v, NEW h, NEW c, NEW got, End(e, v, h, c),
         receipt' = [receipt EXCEPT ![e] = got]
  PROVE  /\ OnlyJob(e) /\ job[e].state \in Live
         /\ job'[e].state = "ended" /\ job'[e].verdict = v /\ job'[e].permit = job[e].permit
         /\ job[e].report = "archived" => job'[e].report = "archived"
         /\ job[e].state = "queued" /\ h = NoHash => job'[e].report = "none"
         /\ \A k \in CommandKind : outbox'[e][k] = "none" <=> outbox[e][k] = "none"
<1> DEFINE transfer == IF job[e].report = "archived" THEN "archived"
                       ELSE IF job[e].state # "queued" \/ h # NoHash THEN "pending" ELSE "none"
           result == job[e].result /\ transfer = "pending"
           cancel == IF c THEN "confirmed" ELSE job[e].cancel
           row == [job[e] EXCEPT !.state = "ended", !.verdict = v, !.hash = h,
                                 !.report = transfer, !.input = FALSE,
                                 !.result = result, !.cancel = cancel]
           box == [k \in CommandKind |-> IF outbox[e][k] = "pending" THEN "acked"
                                         ELSE outbox[e][k]]
<1>1. /\ job' = [job EXCEPT ![e] = row] /\ outbox' = [outbox EXCEPT ![e] = box]
      /\ job[e].state \in Live
  BY DEF End
<1>2. \A k \in CommandKind : box[k] = "none" <=> outbox[e][k] = "none"
  OBVIOUS
<1>3. /\ job[e].report = "archived" => transfer = "archived"
      /\ job[e].state = "queued" /\ h = NoHash => transfer = "none"
  BY JobFacts DEF Sound, Untouched
<1>4. /\ row.state = "ended" /\ row.verdict = v /\ row.permit = job[e].permit
      /\ row.report = transfer
  <2> HIDE DEF transfer, result, cancel
  <2> QED BY JobFacts DEF Row
<1> HIDE DEF row, box, transfer
<1>5. OnlyJob(e) /\ job'[e] = row /\ outbox'[e] = box
  BY <1>1, OneRow
<1> QED BY <1>1, <1>2, <1>3, <1>4, <1>5

\* In the queue a job ends by expiry, rejection or cancel.
LEMMA EndQueuedMoves ==
  ASSUME SystemInv, NEW e \in Job, NEW v \in {"rejected", "cancelled"}, NEW c,
         End(e, v, NoHash, c), job[e].state = "queued", UNCHANGED receipt
  PROVE  JobMoves(e) /\ OnlyJob(e)
<1>1. receipt' = [receipt EXCEPT ![e] = receipt[e]]
  BY JobFacts
<1>2. /\ OnlyJob(e)
      /\ job'[e].state = "ended" /\ job'[e].verdict = v /\ job'[e].permit = job[e].permit
      /\ job'[e].report = "none"
      /\ \A k \in CommandKind : outbox'[e][k] = "none" <=> outbox[e][k] = "none"
  BY <1>1, EndWrites
<1>3. job[e].report = "none"
  BY JobFacts DEF Sound, Untouched
<1> QED BY <1>2, <1>3 DEF JobMoves, Records, EndsQueued, CommandKind

\* The agent's conclusion ends a job that was handed out, as it recorded it.
LEMMA CompletedMoves ==
  ASSUME SystemInv, NEW e \in Job, NEW h \in Hash, "completed" \in out[e],
         HandleCompleted(e, ledger[e].verdict, h)
  PROVE  JobMoves(e) /\ OnlyJob(e)
<1> DEFINE got == receipt[e] \cup {"completed"}
           stopped == ledger[e].verdict = "cancelled"
<1>1. End(e, ledger[e].verdict, h, stopped) /\ receipt' = [receipt EXCEPT ![e] = got]
  BY DEF HandleCompleted, Receive
<1>2. /\ OnlyJob(e) /\ job[e].state \in Live
      /\ job'[e].state = "ended" /\ job'[e].verdict = ledger[e].verdict
      /\ job'[e].permit = job[e].permit
      /\ job[e].report = "archived" => job'[e].report = "archived"
      /\ \A k \in CommandKind : outbox'[e][k] = "none" <=> outbox[e][k] = "none"
  <2> HIDE DEF got, stopped
  <2> QED BY <1>1, EndWrites
<1>3. job[e].state \in Assigned /\ job[e].report # "expired"
  BY <1>2, JobFacts DEF HandleCompleted, Held, Live, Sound, Placed
<1>4. receipt'[e] = got
  BY <1>1, JobFacts
<1> QED BY <1>2, <1>3, <1>4 DEF JobMoves, Records, EndsAssigned, CommandKind, Kept

\* A step that marks, accepts, refuses or runs a job without moving its stage.
LEMMA StaysMoves ==
  ASSUME SystemInv, NEW e \in Job, NEW row, NEW box \in Box, NEW got,
         job' = [job EXCEPT ![e] = row], outbox' = [outbox EXCEPT ![e] = box],
         receipt' = [receipt EXCEPT ![e] = got],
         job[e].state \in Assigned \/ (row.state = job[e].state /\ row.report \in Kept),
         row.state = job[e].state \/ row.state \in Assigned,
         row.permit = job[e].permit, row.verdict = job[e].verdict,
         row.report = job[e].report \/ row.report \in Kept,
         \A k \in CommandKind : outbox[e][k] # "none" => box[k] # "none",
         box["start-permit"] = outbox[e]["start-permit"] \/ outbox[e]["start-permit"] # "none",
         receipt[e] \subseteq got, {"completed", "cancel-confirmed"} \cap (got \ receipt[e]) = {},
         row.report # "none" => outbox[e]["delivery"] # "none"
  PROVE  JobMoves(e) /\ OnlyJob(e)
<1>1. OnlyJob(e) /\ job'[e] = row /\ outbox'[e] = box /\ receipt'[e] = got
  BY OneRow
<1> QED BY <1>1 DEF JobMoves, Records, Stays

\* A cancel of a job that was handed out only posts a command.
LEMMA CancelMoves ==
  ASSUME SystemInv, NEW e \in Job, Cancel(e)
  PROVE  JobMoves(e) /\ OnlyJob(e)
<1>1. CASE job[e].state = "queued" /\ End(e, "cancelled", NoHash, TRUE)
  BY <1>1, EndQueuedMoves DEF Cancel
<1>2. CASE /\ job[e].state \in Assigned
           /\ job' = [job EXCEPT ![e].cancel = "requested"]
           /\ outbox' = Posted(e, "cancel")
  <2> DEFINE row == [job[e] EXCEPT !.cancel = "requested"]
             box == [outbox[e] EXCEPT !["cancel"] = IF @ = "none" THEN "pending" ELSE @]
  <2>1. /\ row.state = job[e].state /\ row.permit = job[e].permit
        /\ row.verdict = job[e].verdict /\ row.report = job[e].report
    BY JobFacts DEF Row
  <2>2. /\ job' = [job EXCEPT ![e] = row] /\ outbox' = [outbox EXCEPT ![e] = box]
        /\ receipt' = [receipt EXCEPT ![e] = receipt[e]]
    BY <1>2, JobFacts DEF Cancel, Posted
  <2>3. /\ box \in Box /\ box["start-permit"] = outbox[e]["start-permit"]
        /\ \A k \in CommandKind : outbox[e][k] # "none" => box[k] # "none"
    BY JobFacts DEF CommandKind, Box
  <2>4. /\ row.report # "none" => outbox[e]["delivery"] # "none"
        /\ {"completed", "cancel-confirmed"} \cap (receipt[e] \ receipt[e]) = {}
    BY <2>1, JobFacts DEF Delivered
  <2> HIDE DEF row, box
  <2> QED BY <1>2, <2>1, <2>2, <2>3, <2>4, StaysMoves
<1> QED BY <1>1, <1>2 DEF Cancel

\* Taking over acknowledges the delivery.
LEMMA AcceptedMoves ==
  ASSUME SystemInv, NEW e \in Job, HandleAccepted(e)
  PROVE  JobMoves(e) /\ OnlyJob(e)
<1> DEFINE flag == job[e].accepted \/ job[e].state = "preparing"
           row == [job[e] EXCEPT !.accepted = flag]
           box == [outbox[e] EXCEPT !["delivery"] = IF @ = "pending" THEN "acked" ELSE @]
           got == receipt[e] \cup {"accepted"}
<1>1. /\ row.state = job[e].state /\ row.permit = job[e].permit
      /\ row.verdict = job[e].verdict /\ row.report = job[e].report
  <2> HIDE DEF flag
  <2> QED BY JobFacts DEF Row
<1>2. /\ job' = [job EXCEPT ![e] = row] /\ outbox' = [outbox EXCEPT ![e] = box]
      /\ receipt' = [receipt EXCEPT ![e] = got]
  BY JobFacts DEF HandleAccepted, Acked, Receive
<1>3. /\ box \in Box /\ box["start-permit"] = outbox[e]["start-permit"]
      /\ \A k \in CommandKind : outbox[e][k] # "none" => box[k] # "none"
  BY JobFacts DEF CommandKind, Box
<1>4. /\ receipt[e] \subseteq got /\ {"completed", "cancel-confirmed"} \cap (got \ receipt[e]) = {}
      /\ job[e].report # "none" => outbox[e]["delivery"] # "none"
      /\ job[e].state \in Assigned
  BY JobFacts DEF Delivered, HandleAccepted, Held, Row, Live
<1> HIDE DEF row, box, got
<1> QED BY <1>1, <1>2, <1>3, <1>4, StaysMoves

\* The permit is granted and posted in one transaction.
LEMMA GrantMoves ==
  ASSUME SystemInv, NEW e \in Job, GrantPermit(e)
  PROVE  JobMoves(e) /\ OnlyJob(e)
<1> DEFINE row == [job[e] EXCEPT !.permit = TRUE]
           box == [outbox[e] EXCEPT !["start-permit"] = IF @ = "none" THEN "pending" ELSE @]
           got == receipt[e] \cup {"start-request"}
<1>1. /\ row.state = job[e].state /\ row.permit
      /\ row.verdict = job[e].verdict /\ row.report = job[e].report
  BY JobFacts DEF Row
<1>2. /\ job' = [job EXCEPT ![e] = row] /\ outbox' = [outbox EXCEPT ![e] = box]
      /\ receipt' = [receipt EXCEPT ![e] = got]
  BY JobFacts DEF GrantPermit, Posted, Receive
<1>3. \A k \in CommandKind : outbox[e][k] # "none" => box[k] # "none"
  BY JobFacts DEF CommandKind, Box
<1>4. /\ receipt[e] \subseteq got /\ {"completed", "cancel-confirmed"} \cap (got \ receipt[e]) = {}
      /\ job[e].state \in Assigned /\ ~job[e].permit
  BY DEF GrantPermit, AwaitsStart, Assigned
<1> HIDE DEF row, box, got
<1>5. OnlyJob(e) /\ job'[e] = row /\ outbox'[e] = box /\ receipt'[e] = got
  BY <1>2, OneRow
<1> QED BY <1>1, <1>3, <1>4, <1>5 DEF JobMoves, Records, Grants

\* A refusal is recorded for a job that goes on being assigned.
LEMMA RefusalMoves ==
  ASSUME SystemInv, NEW e \in Job, RecordStartRejection(e)
  PROVE  JobMoves(e) /\ OnlyJob(e)
<1> DEFINE row == [job[e] EXCEPT !.refusal = refusing[e]]
           box == [outbox[e] EXCEPT !["start-rejected"] = IF @ = "none" THEN "pending" ELSE @]
           got == receipt[e] \cup {"start-request"}
<1>1. /\ row.state = job[e].state /\ row.permit = job[e].permit
      /\ row.verdict = job[e].verdict /\ row.report = job[e].report
  BY JobFacts DEF Row
<1>2. /\ job' = [job EXCEPT ![e] = row] /\ outbox' = [outbox EXCEPT ![e] = box]
      /\ receipt' = [receipt EXCEPT ![e] = got]
  BY JobFacts DEF RecordStartRejection, Posted, Receive
<1>3. /\ box \in Box /\ box["start-permit"] = outbox[e]["start-permit"]
      /\ \A k \in CommandKind : outbox[e][k] # "none" => box[k] # "none"
  BY JobFacts DEF CommandKind, Box
<1>4. /\ receipt[e] \subseteq got /\ {"completed", "cancel-confirmed"} \cap (got \ receipt[e]) = {}
      /\ job[e].report # "none" => outbox[e]["delivery"] # "none"
      /\ job[e].state \in Assigned
  BY JobFacts DEF Delivered, RecordStartRejection, AwaitsStart, Assigned
<1> HIDE DEF row, box, got
<1> QED BY <1>1, <1>2, <1>3, <1>4, StaysMoves

\* A start that is reported makes a permitted job run.
LEMMA StartedMoves ==
  ASSUME SystemInv, NEW e \in Job, HandleStarted(e)
  PROVE  JobMoves(e) /\ OnlyJob(e)
<1> DEFINE row == [job[e] EXCEPT !.state = "running"]
           got == receipt[e] \cup {"started"}
<1>1. /\ row.state \in Assigned /\ row.permit = job[e].permit
      /\ row.verdict = job[e].verdict /\ row.report = job[e].report
  BY JobFacts DEF Row, Assigned
<1>2. /\ job' = [job EXCEPT ![e] = row] /\ outbox' = [outbox EXCEPT ![e] = outbox[e]]
      /\ receipt' = [receipt EXCEPT ![e] = got]
  BY JobFacts DEF HandleStarted, Receive
<1>3. /\ receipt[e] \subseteq got /\ {"completed", "cancel-confirmed"} \cap (got \ receipt[e]) = {}
      /\ job[e].report # "none" => outbox[e]["delivery"] # "none"
      /\ job[e].state \in Assigned /\ outbox[e] \in Box
  BY JobFacts DEF Delivered, HandleStarted
<1> HIDE DEF row, got
<1> QED BY <1>1, <1>2, <1>3, StaysMoves

\* A report is archived for a job that was handed out, before or after its end.
LEMMA UploadMoves ==
  ASSUME SystemInv, NEW e \in Job, NEW h \in Hash, Upload(e, h), Reported(e)
  PROVE  JobMoves(e) /\ OnlyJob(e)
<1> DEFINE row == [job[e] EXCEPT !.report = "archived", !.hash = h, !.result = FALSE]
<1>1. /\ row.state = job[e].state /\ row.permit = job[e].permit
      /\ row.verdict = job[e].verdict /\ row.report = "archived"
  BY JobFacts DEF Row
<1>2. /\ job' = [job EXCEPT ![e] = row] /\ outbox' = [outbox EXCEPT ![e] = outbox[e]]
      /\ receipt' = [receipt EXCEPT ![e] = receipt[e]]
  BY JobFacts DEF Upload
<1>3. outbox[e]["delivery"] # "none"
  BY JobFacts, RowFacts DEF SystemInv, Delivered, Reported, CallSound, Concluded
<1> HIDE DEF row
<1>4. row.report \in Kept /\ outbox[e] \in Box
  BY <1>1, JobFacts DEF Kept
<1> QED BY <1>1, <1>2, <1>3, <1>4, StaysMoves

\* The retention expires an archived report.
LEMMA RetireMoves ==
  ASSUME SystemInv, NEW e \in Job, Retire(e)
  PROVE  JobMoves(e) /\ OnlyJob(e)
<1> DEFINE row == [job[e] EXCEPT !.report = "expired"]
<1>1. /\ row.state = job[e].state /\ row.permit = job[e].permit
      /\ row.verdict = job[e].verdict /\ row.report = "expired"
  BY JobFacts DEF Row
<1>2. /\ job' = [job EXCEPT ![e] = row] /\ outbox' = [outbox EXCEPT ![e] = outbox[e]]
      /\ receipt' = [receipt EXCEPT ![e] = receipt[e]]
  BY JobFacts DEF Retire
<1>3. outbox[e]["delivery"] # "none" /\ outbox[e] \in Box
  BY JobFacts DEF Retire, Delivered
<1> HIDE DEF row
<1>4. row.report \in Kept
  BY <1>1 DEF Kept
<1> QED BY <1>1, <1>2, <1>3, <1>4, StaysMoves

\* An acknowledged command is still one that was posted.
LEMMA AcknowledgeMoves ==
  ASSUME SystemInv, NEW e \in Job, NEW k \in CommandKind, Acknowledge(e, k)
  PROVE  JobMoves(e) /\ OnlyJob(e)
<1> DEFINE box == [outbox[e] EXCEPT ![k] = IF @ = "pending" THEN "acked" ELSE @]
<1>1. /\ job' = [job EXCEPT ![e] = job[e]] /\ outbox' = [outbox EXCEPT ![e] = box]
      /\ receipt' = [receipt EXCEPT ![e] = receipt[e]]
  BY JobFacts DEF Acknowledge, Acked
<1>2. \A i \in CommandKind : outbox[e][i] = "none" <=> box[i] = "none"
  BY JobFacts DEF Box
<1>3. job[e].report # "none" => outbox[e]["delivery"] # "none"
  BY JobFacts DEF Delivered
<1> HIDE DEF box
<1>4. OnlyJob(e) /\ job'[e] = job[e] /\ outbox'[e] = box /\ receipt'[e] = receipt[e]
  BY <1>1, OneRow
<1> QED BY <1>2, <1>3, <1>4 DEF JobMoves, Records, Stays, CommandKind

\* Sessions, policies and rights mark rows or none at all.
LEMMA RegisterKeeps ==
  ASSUME SystemInv, NEW a, Register(a), NEW x \in Job
  PROVE  Still(x)
<1> DEFINE flag == job[x].orphaned \/ (job[x].agent = a /\ job[x].state \in Assigned)
<1>1. job'[x] = [job[x] EXCEPT !.orphaned = flag] /\ UNCHANGED <<outbox, receipt>>
  BY DEF Register
<1> HIDE DEF flag
<1> QED BY <1>1, JobFacts DEF Row, Still

LEMMA ChangePolicyKeeps ==
  ASSUME SystemInv, ChangePolicy, NEW x \in Job
  PROVE  Still(x)
<1> DEFINE flag == job[x].stale \/ job[x].state \in Live
<1>1. job'[x] = [job[x] EXCEPT !.stale = flag] /\ UNCHANGED <<outbox, receipt>>
  BY DEF ChangePolicy
<1> HIDE DEF flag
<1> QED BY <1>1, JobFacts DEF Row, Still

LEMMA RowsStill ==
  ASSUME UNCHANGED rows, NEW x \in Job
  PROVE  Still(x)
  BY DEF rows, Still

\* One step of the service moves one job, or marks rows.
LEMMA ServiceMoves ==
  ASSUME SystemInv, ServerStep
  PROVE  (\E e \in Job : JobMoves(e) /\ OnlyJob(e)) \/ \A x \in Job : Still(x)
<1>1. ASSUME NEW e \in Job, QueueStep(e)
      PROVE  (JobMoves(e) /\ OnlyJob(e)) \/ \A x \in Job : Still(x)
  <2>1. CASE Submit(e, Runner)
    BY <2>1, SubmitMoves
  <2>2. CASE QueueDeadlinePasses(e)
    BY <2>2, DeadlineMoves
  <2>3. CASE Cancel(e)
    BY <2>3, CancelMoves
  <2>4. CASE ExpireQueued(e) \/ RejectQueued(e)
    <3>1. /\ End(e, "rejected", NoHash, FALSE)
          /\ job[e].state = "queued" /\ UNCHANGED receipt
      BY <2>4 DEF ExpireQueued, RejectQueued
    <3> QED BY <3>1, EndQueuedMoves
  <2>5. CASE Claim(e)
    BY <2>5, ClaimMoves
  <2>6. CASE ClaimDenied(e) \/ RejectionOvertaken(e) \/ StartRejectionOvertaken(e)
    BY <2>6, RowsStill DEF ClaimDenied, RejectionOvertaken, StartRejectionOvertaken
  <2>7. CASE RecordStartRejection(e)
    BY <2>7, RefusalMoves
  <2>8. CASE Retire(e)
    BY <2>8, RetireMoves
  <2> QED
    BY <1>1, <2>1, <2>2, <2>3, <2>4, <2>5, <2>6, <2>7, <2>8 DEF QueueStep
<1>2. ASSUME NEW e \in Job, Store(e)
      PROVE  JobMoves(e) /\ OnlyJob(e)
  BY <1>2, UploadMoves DEF Store
<1>3. ASSUME NEW e \in Job, NEW k \in MessageKind \ {"cancel-confirmed"}, Handle(e, k)
      PROVE  (JobMoves(e) /\ OnlyJob(e)) \/ \A x \in Job : Still(x)
  <2>1. CASE k = "accepted"
    BY <1>3, <2>1, AcceptedMoves DEF Handle
  <2>2. CASE k = "start-request"
    BY <1>3, <2>2, GrantMoves, RowsStill DEF Handle, DenyStart
  <2>3. CASE k = "started"
    BY <1>3, <2>3, StartedMoves DEF Handle
  <2>4. CASE k = "completed"
    BY <1>3, <2>4, CompletedMoves DEF Handle
  <2> QED BY <2>1, <2>2, <2>3, <2>4 DEF MessageKind
<1>4. ASSUME NEW e \in Job, NEW k \in CommandKind, Apply(e, k)
      PROVE  JobMoves(e) /\ OnlyJob(e)
  BY <1>4, AcknowledgeMoves DEF Apply
<1>5. ASSUME AdminStep
      PROVE  \A x \in Job : Still(x)
  BY <1>5, ChangePolicyKeeps, RowsStill DEF AdminStep, SetIntake, Deny, Allow, ServerRestart
<1> QED BY <1>1, <1>2, <1>3, <1>4, <1>5 DEF ServerStep

\* What the service does is a step of JobControl.
LEMMA ServiceStep ==
  ASSUME SystemInv, ServerStep
  PROVE  Inv'
<1>1. ASSUME NEW e \in Job, QueueStep(e)
      PROVE  Next
  BY <1>1, RunnerAssumption DEF QueueStep, Next, Queueing, Starting, Settling
<1>2. ASSUME NEW e \in Job, Store(e)
      PROVE  Next
  BY <1>2 DEF Store, Next, Settling
<1>3. ASSUME NEW e \in Job, NEW k \in MessageKind \ {"cancel-confirmed"}, Handle(e, k)
      PROVE  Next
  <2>1. CASE k \in {"accepted", "start-request", "started"}
    BY <1>3, <2>1 DEF Handle, Next, Starting
  <2>2. CASE k = "completed"
    <3>1. PICK h \in Hash : HandleCompleted(e, ledger[e].verdict, h)
      BY <1>3, <2>2 DEF Handle
    <3>2. ledger[e].settled
      BY <1>3, <2>2, JobFacts DEF Handle, Agreed
    <3>3. ledger[e].verdict \in Verdict
      BY <3>2, RowFacts DEF SystemInv, CallSound, Concluded, Intent
    <3> QED BY <3>1, <3>3 DEF Next, Settling
  <2> QED BY <2>1, <2>2 DEF MessageKind
<1>4. ASSUME NEW e \in Job, NEW k \in CommandKind, Apply(e, k)
      PROVE  Next
  BY <1>4 DEF Apply, Next, Settling
<1>5. ASSUME AdminStep
      PROVE  Next
  BY <1>5, RunnerAssumption DEF AdminStep, Next, Administration
<1>6. Next
  BY <1>1, <1>2, <1>3, <1>4, <1>5 DEF ServerStep
<1> QED BY <1>6, NextInv DEF SystemInv

\* A job's move leaves the two sides tied.
LEMMA JobKeepsJoint ==
  ASSUME SystemInv, NEW e \in Job, JobMoves(e), UNCHANGED agentVars
  PROVE  Delivered(e)' /\ Agreed(e)'
<1>1. /\ Delivered(e) /\ Agreed(e) /\ Records(e)
      /\ ledger'[e] = ledger[e] /\ out'[e] = out[e] /\ (Permitted(e)' <=> Permitted(e))
  BY JobFacts DEF JobMoves, agentVars, Permitted
<1>2. /\ job[e].permit => job'[e].permit
      /\ job[e].state = "ended" => job'[e].state = "ended" /\ job'[e].verdict = job[e].verdict
      /\ job[e].report \in Kept => job'[e].report \in Kept
      /\ job'[e].state \in Assigned \/ job'[e].report # "none" => outbox'[e]["delivery"] # "none"
  BY <1>1 DEF JobMoves, Records, Stays, Submits, Claims, Grants, EndsQueued, EndsAssigned,
              Assigned, Delivered, CommandKind
<1>3. Delivered(e)'
  BY <1>1, <1>2 DEF Delivered, Records, CommandKind
<1>4. Agreed(e)'
  BY <1>1, <1>2 DEF Agreed, Records, EndsAssigned
<1> QED BY <1>3, <1>4

\* Every step of the service keeps the invariant.
LEMMA ServerKeepsInv ==
  ASSUME SystemInv, ServerStep, UNCHANGED agentVars
  PROVE  SystemInv'
<1>1. \A x \in Job : JobMoves(x)
  BY ServiceMoves, StillMoves DEF OnlyJob
<1>2. Joint'
  BY <1>1, JobKeepsJoint DEF Joint
<1>3. AgentInv'
  BY StutterInv DEF SystemInv
<1> QED BY <1>2, <1>3, ServiceStep DEF SystemInv
-----------------------------------------------------------------------------
(***************************************************************************)
(* What a step of the agent does to a job                                  *)
(***************************************************************************)

\* What the agent learns comes from the service's outbox, receipts or rows.
Learns(e) ==
  /\ Concludes(e)
  /\ ledger'[e].known => ledger[e].known \/ outbox[e]["delivery"] # "none"
  /\ Permitted(e)' => Permitted(e) \/ outbox[e]["start-permit"] # "none"
  /\ out[e] \ receipt[e] \subseteq out'[e]
  /\ ledger'[e].report = "archived" => ledger[e].report = "archived" \/ job[e].report \in Kept

\* A move without a cause teaches nothing.
LEMMA MovesLearn ==
  ASSUME NEW e \in Job, Moves(e, "none") \/ Moves(e, "run")
  PROVE  Learns(e)
  BY DEF Moves, Learns

LEMMA ObeyLearns ==
  ASSUME SystemInv, NEW e \in Job, NEW k \in CommandKind, Obey(e, k), NEW x \in Job
  PROVE  Learns(x) /\ AgentInv'
<1>1. AgentInv /\ outbox[e][k] # "none"
  BY DEF SystemInv, Obey
<1>2. CASE k = "delivery"
  <2>1. ReceiveDelivery(e)
    BY <1>2 DEF Obey
  <2>2. Moves(x, "delivery") /\ (x # e => Moves(x, "none"))
    BY <1>1, <2>1, DeliveryMoves
  <2> QED BY <1>1, <1>2, <2>1, <2>2, ReceiveDeliveryStep DEF Moves, Learns
<1>3. CASE k = "cancel"
  <2>1. CancelCommand(e)
    BY <1>3 DEF Obey
  <2> QED BY <1>1, <2>1, CommandMoves, MovesLearn, CancelCommandStep
<1>4. CASE k = "start-permit"
  <2>1. PermitCommand(e)
    BY <1>4 DEF Obey
  <2>2. Moves(x, "permit") /\ (x # e => Moves(x, "none"))
    BY <1>1, <2>1, PermitMoves
  <2> QED BY <1>1, <1>4, <2>1, <2>2, PermitCommandStep DEF Moves, Learns
<1>5. CASE k = "start-rejected"
  <2>1. RefuseCommand(e, job[e].refusal)
    BY <1>5 DEF Obey
  <2>2. job[e].refusal \in DenialReason
    BY <2>1 DEF RefuseCommand, Understood, DenialReason
  <2> QED BY <1>1, <2>1, <2>2, CommandMoves, MovesLearn, RefuseCommandStep
<1> QED BY <1>2, <1>3, <1>4, <1>5 DEF CommandKind

LEMMA ConfirmLearns ==
  ASSUME SystemInv, NEW e \in Job, NEW k \in MessageKind, Confirm(e, k), NEW x \in Job
  PROVE  Learns(x) /\ AgentInv'
<1>1. AgentInv /\ MessageConfirmed(e, k) /\ k \in receipt[e]
  BY DEF SystemInv, Confirm
<1>2. /\ Moves(x, "receipt") /\ (x # e => Moves(x, "none")) /\ out[x] \ {k} \subseteq out'[x]
  BY <1>1, ReceiptMoves
<1>3. AgentInv'
  BY <1>1, EnvironmentInv DEF Environment
<1> QED BY <1>1, <1>2, <1>3 DEF Moves, Learns

LEMMA ArchivedLearns ==
  ASSUME SystemInv, NEW e \in Job, Archived(e), NEW x \in Job
  PROVE  Learns(x) /\ AgentInv'
<1>1. AgentInv /\ ReportArchived(e) /\ job[e].report \in Kept
  BY DEF SystemInv, Archived, Kept
<1>2. Moves(x, "archive") /\ (x # e => Moves(x, "none"))
  BY <1>1, ArchiveMoves
<1>3. AgentInv'
  BY <1>1, ReportArchivedStep
<1> QED BY <1>1, <1>2, <1>3 DEF Moves, Learns

\* Every step of the agent.
LEMMA AgentLearns ==
  ASSUME SystemInv, AgentStep \/ Exit \/ Crash, NEW x \in Job
  PROVE  Learns(x) /\ AgentInv'
<1>0. AgentInv
  BY DEF SystemInv
<1>1. ASSUME NEW e \in Job, ExecutionStep(e)
      PROVE  Learns(x) /\ AgentInv'
  BY <1>0, <1>1, ExecutionMoves, ExecutionInv, MovesLearn
<1>2. ASSUME NEW e \in Job, NEW k \in CommandKind, Applied(e, k)
      PROVE  Learns(x) /\ AgentInv'
  BY <1>0, <1>2, AcksMoves, AcksAppliedStep, MovesLearn DEF Applied
<1>3. ASSUME ProcessStep
      PROVE  Learns(x) /\ AgentInv'
  BY <1>0, <1>3, ProcessMoves, ProcessInv, MovesLearn
<1> QED BY <1>1, <1>2, <1>3, ObeyLearns, ConfirmLearns, ArchivedLearns DEF AgentStep, ProcessStep

\* What the agent learns leaves the two sides tied.
LEMMA AgentKeepsInv ==
  ASSUME SystemInv, AgentStep \/ Exit \/ Crash, UNCHANGED vars
  PROVE  SystemInv'
<1>1. ASSUME NEW x \in Job
      PROVE  Delivered(x)' /\ Agreed(x)'
  <2>1. /\ Delivered(x) /\ Agreed(x) /\ Learns(x)
        /\ UNCHANGED <<job, outbox, receipt>>
    BY JobFacts, AgentLearns DEF vars
  <2>2. Delivered(x)'
    BY <2>1 DEF Delivered, Learns
  <2>3. Agreed(x)'
    BY <2>1 DEF Agreed, Learns, Concludes
  <2> QED BY <2>2, <2>3
<1>2. Inv'
  BY NextInv DEF SystemInv
<1>3. AgentInv'
  <2>1. CASE Job = {}
    <3>1. UNCHANGED agentVars \/ ProcessStep
      BY <2>1 DEF AgentStep, ProcessStep
    <3> QED BY <3>1, StutterInv, ProcessInv DEF SystemInv
  <2>2. CASE Job # {}
    BY <2>2, AgentLearns
  <2> QED BY <2>1, <2>2
<1> QED BY <1>1, <1>2, <1>3 DEF SystemInv, Joint

\* A new session only marks what was assigned before.
LEMMA EnrollKeepsInv ==
  ASSUME SystemInv, Enroll
  PROVE  SystemInv'
<1>1. \A x \in Job : JobMoves(x)
  BY RegisterKeeps, StillMoves DEF Enroll
<1>2. Joint'
  BY <1>1, JobKeepsJoint DEF Joint, Enroll
<1>3. Inv'
  BY RunnerAssumption, NextInv DEF SystemInv, Enroll, Next, Administration
<1>4. AgentInv'
  BY StutterInv DEF SystemInv, Enroll
<1> QED BY <1>2, <1>3, <1>4 DEF SystemInv

\* At the start no job is submitted and no execution known.
LEMMA SystemInitInv == SystemInit => SystemInv
<1> SUFFICES ASSUME SystemInit PROVE SystemInv
  OBVIOUS
<1>1. Inv /\ AgentInv
  BY InitInv, AgentInitInv DEF SystemInit
<1>2. ASSUME NEW e \in Job
      PROVE  Delivered(e) /\ Agreed(e)
  <2>1. /\ ledger[e] = NoIntent /\ call[e] = NoCall /\ out[e] = {}
        /\ job[e] = NoRow /\ receipt[e] = {} /\ \A k \in CommandKind : outbox[e][k] = "none"
    BY DEF SystemInit, Init, AgentInit
  <2>2. /\ ~ledger[e].known /\ ledger[e].fact = "not-started" /\ call[e].phase = "none"
        /\ ~ledger[e].settled /\ ledger[e].report = "none"
        /\ job[e].state = "absent" /\ job[e].report = "none"
    BY <2>1 DEF NoIntent, NoCall, NoRow
  <2> QED BY <2>1, <2>2 DEF Delivered, Agreed, Permitted, Started, Assigned, CommandKind
<1> QED BY <1>1, <1>2 DEF SystemInv, Joint

\* Every step of the system keeps the invariant.
LEMMA SystemNextInv == SystemInv /\ [SystemNext]_systemVars => SystemInv'
<1> SUFFICES ASSUME SystemInv, [SystemNext]_systemVars PROVE SystemInv'
  OBVIOUS
<1>1. CASE Server(ServerStep)
  BY <1>1, ServerKeepsInv DEF Server
<1>2. CASE AgentDoes(AgentStep)
  BY <1>2, AgentKeepsInv DEF AgentDoes
<1>3. CASE Enroll
  BY <1>3, EnrollKeepsInv
<1>4. CASE ProcessEnds
  BY <1>4, AgentKeepsInv DEF ProcessEnds
<1>5. CASE UNCHANGED systemVars
  <2>1. UNCHANGED vars /\ UNCHANGED agentVars
    BY <1>5 DEF systemVars
  <2>2. Inv' /\ AgentInv'
    BY <2>1, NextInv, StutterInv DEF SystemInv
  <2>3. \A x \in Job : JobMoves(x)
    BY <2>1, StillMoves DEF vars, Still
  <2> QED BY <2>1, <2>2, <2>3, JobKeepsJoint DEF SystemInv, Joint
<1> QED BY <1>1, <1>2, <1>3, <1>4, <1>5 DEF SystemNext

\* The two sides stay tied throughout: polling, heartbeats, messages, uploads,
\* stops and restarts in any order (transport/control.ts, RunnerControlService).
THEOREM SystemInductiveInvariant == SystemSpec => []SystemInv
  BY SystemInitInv, SystemNextInv, PTL DEF SystemSpec

\* A slot the service has released is free at the agent, and both sides have
\* recorded the same conclusion (JobRepo.end, supervisor.finish).
THEOREM ReleasedHaveStopped == SystemSpec => []ReleasedMeansStopped
<1>1. SystemInv => ReleasedMeansStopped
  <2> SUFFICES ASSUME SystemInv, NEW e \in Job, job[e].state = "ended",
                      outbox[e]["delivery"] # "none"
               PROVE  /\ ~Active(e) /\ ~InQueue(e) /\ worker[e] = "none"
                      /\ ledger[e].settled /\ ledger[e].verdict = job[e].verdict
    BY DEF ReleasedMeansStopped
  <2>1. "completed" \in receipt[e]
    BY JobFacts DEF Sound, Over, Agreed
  <2>2. ledger[e].settled /\ ledger[e].verdict = job[e].verdict
    BY <2>1, JobFacts DEF Agreed
  <2>3. ~Active(e) /\ ~InQueue(e) /\ worker[e] = "none"
    BY <2>2, RowFacts DEF SystemInv, CallSound, Employed
  <2> QED BY <2>2, <2>3
<1> QED BY <1>1, SystemInductiveInvariant, PTL

\* A conclusion that is still to be received is one the service will take
\* (RunnerControlService.messages, ledger.settle).
THEOREM CompletionsAreAcceptable == SystemSpec => []CompletedIsAcceptable
<1>1. SystemInv => CompletedIsAcceptable
  <2> SUFFICES ASSUME SystemInv, NEW e \in Job, "completed" \in out[e] \ receipt[e]
               PROVE  /\ job[e].state \in Assigned
                      /\ ledger[e].verdict \in Conclusive => job[e].permit
    BY DEF CompletedIsAcceptable
  <2>1. /\ ledger[e].settled /\ ledger[e].known
        /\ ledger[e].verdict \in Conclusive => ledger[e].fact = "started"
    BY JobFacts, RowFacts DEF SystemInv, Agreed, CallSound, Concluded
  <2>2. outbox[e]["delivery"] # "none" /\ "completed" \notin receipt[e]
    BY <2>1, JobFacts DEF Delivered
  <2>3. job[e].state \in Assigned
    BY <2>2, JobFacts DEF Sound, Untouched, Over, Agreed, Row, Live, CommandKind
  <2>4. ledger[e].verdict \in Conclusive => job[e].permit
    BY <2>1, JobFacts DEF Delivered, Permitted
  <2> QED BY <2>3, <2>4
<1> QED BY <1>1, SystemInductiveInvariant, PTL

\* The agent drops a report only when the service stores it, and the service
\* waits only for one the agent still has (acknowledgeReport, archive).
THEOREM NoReportIsLost == SystemSpec => []NoReportLost
<1>1. SystemInv => NoReportLost
  <2> SUFFICES ASSUME SystemInv, NEW e \in Job
               PROVE  /\ ledger[e].report = "archived" => job[e].report \in {"archived", "expired"}
                      /\ job[e].state = "ended" /\ job[e].report = "pending" => Reported(e)
    BY DEF NoReportLost
  <2>1. ledger[e].report = "archived" => job[e].report \in Kept
    BY JobFacts DEF Agreed
  <2>2. ASSUME job[e].state = "ended", job[e].report = "pending"
        PROVE  Reported(e)
    <3>1. "completed" \in receipt[e]
      BY <2>2, JobFacts DEF Delivered, Sound, Over, Agreed
    <3>2. ledger[e].report # "none" /\ ledger[e].report \in {"none", "pending", "archived"}
      BY <3>1, JobFacts, RowFacts DEF SystemInv, Agreed, CallSound, Concluded, Intent
    <3> QED BY <2>1, <2>2, <3>2 DEF Reported, Kept
  <2> QED BY <2>1, <2>2 DEF Kept
<1> QED BY <1>1, SystemInductiveInvariant, PTL
-----------------------------------------------------------------------------
(***************************************************************************)
(* Every step is a step of the contract, or none                           *)
(***************************************************************************)

\* What a job shows of itself in the contract.
Shown(e) == Stage(e)' = Stage(e) /\ job'[e].verdict = job[e].verdict

\* One job changes its stage, and Core is not called.
LEMMA StageMove ==
  ASSUME NEW e \in Job, \A x \in Job \ {e} : Shown(x), UNCHANGED runs,
         NEW from, NEW to, Stage(e) = from, Stage(e)' = to
  PROVE  /\ C!Move(e, from, to) /\ {x \in Job : runs[x] > 0}' = {x \in Job : runs[x] > 0}
         /\ job'[e].verdict = job[e].verdict =>
              [x \in Job |-> job[x].verdict]' = [x \in Job |-> job[x].verdict]
         /\ [x \in Job |-> job[x].verdict]' =
              [[x \in Job |-> job[x].verdict] EXCEPT ![e] = job'[e].verdict]
  BY DEF C!Move, Shown

\* Nothing the contract speaks of has changed.
LEMMA NothingShown ==
  ASSUME \A x \in Job : Shown(x), \A x \in Job : runs'[x] = runs[x]
  PROVE  UNCHANGED C!contract
  BY DEF C!contract, Shown

\* A step of the service enqueues, assigns, permits or concludes one job, or
\* shows nothing; a business conclusion stands for a run that took place.
LEMMA JobKeepsContract ==
  ASSUME SystemInv, NEW e \in Job, JobMoves(e), OnlyJob(e), UNCHANGED agentVars
  PROVE  [C!ContractNext]_(C!contract)
<1>1. /\ \A x \in Job \ {e} : Shown(x)
      /\ UNCHANGED runs /\ \A x \in Job : runs'[x] = runs[x]
  BY DEF OnlyJob, Still, Shown, Stage, agentVars
<1>2. CASE Stays(e)
  <2>1. Shown(e)
    BY <1>2 DEF Stays, Shown, Stage, Assigned
  <2> QED BY <1>1, <2>1, NothingShown
<1>3. CASE Submits(e)
  <2>1. Stage(e) = "none" /\ Stage(e)' = "queued" /\ job'[e].verdict = job[e].verdict
    BY <1>3 DEF Submits, Stage, Assigned
  <2>2. C!Enqueue(e)
    BY <1>1, <2>1, StageMove DEF C!Enqueue
  <2> QED BY <2>2 DEF C!ContractNext
<1>4. CASE Claims(e)
  <2>1. ~job[e].permit
    BY <1>4, JobFacts DEF Claims, Sound, Untouched
  <2>2. Stage(e) = "queued" /\ Stage(e)' = "assigned" /\ job'[e].verdict = job[e].verdict
    BY <1>4, <2>1 DEF Claims, Stage, Assigned
  <2>3. C!Assign(e)
    BY <1>1, <2>2, StageMove DEF C!Assign
  <2> QED BY <2>3 DEF C!ContractNext
<1>5. CASE Grants(e)
  <2>1. Stage(e) = "assigned" /\ Stage(e)' = "permitted" /\ job'[e].verdict = job[e].verdict
    BY <1>5 DEF Grants, Stage, Assigned
  <2>2. C!Permit(e)
    BY <1>1, <2>1, StageMove DEF C!Permit
  <2> QED BY <2>2 DEF C!ContractNext
<1>6. CASE EndsQueued(e)
  <2>1. Stage(e) = "queued" /\ Stage(e)' = "ended"
    BY <1>6 DEF EndsQueued, Stage, Assigned
  <2>2. PICK verdict \in {"rejected", "cancelled"} : job'[e].verdict = verdict
    BY <1>6 DEF EndsQueued
  <2>3. C!Conclude(e, verdict)
    BY <1>1, <2>1, <2>2, StageMove DEF C!Conclude, C!Move, C!Conclusive
  <2> QED BY <2>3 DEF C!ContractNext, C!Verdict
<1>7. CASE EndsAssigned(e)
  <2>1. Stage(e) \in {"assigned", "permitted"} /\ Stage(e)' = "ended"
    BY <1>7 DEF EndsAssigned, Stage, Assigned
  <2>2. ledger[e].settled /\ job'[e].verdict = ledger[e].verdict
    BY <1>7, JobFacts DEF EndsAssigned, Agreed
  <2>3. /\ ledger[e].verdict \in Verdict
        /\ ledger[e].verdict \in Conclusive => runs[e] > 0
    BY <2>2, RowFacts DEF SystemInv, CallSound, Concluded, Truthful, Intent
  <2>4. PICK verdict \in Verdict : verdict = ledger[e].verdict
    BY <2>3
  <2>5. C!Conclude(e, verdict)
    BY <1>1, <2>1, <2>2, <2>3, <2>4, StageMove DEF C!Conclude, C!Move, C!Conclusive, Conclusive
  <2> QED BY <2>5 DEF C!ContractNext, C!Verdict, Verdict
<1> QED BY <1>2, <1>3, <1>4, <1>5, <1>6, <1>7 DEF JobMoves

\* Only the worker's call of Core is a run.
LEMMA AgentRuns ==
  ASSUME SystemInv, AgentStep \/ Exit \/ Crash
  PROVE  (\A x \in Job : runs'[x] = runs[x]) \/ \E e \in Job : BusinessStart(e)
<1>0. AgentInv
  BY DEF SystemInv
<1>1. ASSUME NEW e \in Job, ExecutionStep(e)
      PROVE  (\A x \in Job : runs'[x] = runs[x]) \/ BusinessStart(e)
  BY <1>0, <1>1, ExecutionMoves DEF Moves
<1>2. ASSUME NEW e \in Job, NEW k \in CommandKind, Obey(e, k) \/ Applied(e, k)
      PROVE  UNCHANGED runs
  BY <1>2 DEF Obey, Applied, CommandKind, ReceiveDelivery, CancelCommand, PermitCommand,
              RefuseCommand, AcksApplied
<1>4. ASSUME NEW e \in Job, NEW k \in MessageKind, Confirm(e, k)
      PROVE  UNCHANGED runs
  BY <1>4 DEF Confirm, MessageConfirmed
<1>3. ASSUME ProcessStep
      PROVE  UNCHANGED runs
  BY <1>3 DEF ProcessStep, Pump, Shutdown, Exit, Crash, Stop, Restart
<1>5. ASSUME NEW e \in Job, Archived(e)
      PROVE  UNCHANGED runs
  BY <1>5 DEF Archived, ReportArchived
<1> QED BY <1>1, <1>2, <1>3, <1>4, <1>5 DEF AgentStep, ProcessStep

\* A step of the agent shows nothing unless a worker calls Core, and then it
\* does so for a job that is permitted, has not ended and has not run before.
LEMMA AgentKeepsContract ==
  ASSUME SystemInv, AgentStep \/ Exit \/ Crash, UNCHANGED vars
  PROVE  [C!ContractNext]_(C!contract)
<1>1. \A x \in Job : Shown(x)
  BY DEF Shown, Stage, vars
<1>2. CASE \A x \in Job : runs'[x] = runs[x]
  BY <1>1, <1>2, NothingShown
<1>3. ASSUME NEW e \in Job, BusinessStart(e)
      PROVE  C!Run(e)
  <2>0. worker[e] = "invoked" /\ runs' = [runs EXCEPT ![e] = runs[e] + 1]
    BY <1>3 DEF BusinessStart
  <2>1. /\ runs[e] = 0 /\ ledger[e].known /\ ~ledger[e].settled /\ Permitted(e)
    BY <2>0, RowFacts DEF SystemInv, CallSound, Truthful, Employed, Permitted
  <2>2. outbox[e]["delivery"] # "none" /\ job[e].permit /\ "completed" \notin receipt[e]
    BY <2>1, JobFacts DEF Delivered, Agreed
  <2>3. job[e].state \in Assigned
    BY <2>2, JobFacts DEF Sound, Untouched, Over, Agreed, Row, Live, CommandKind
  <2>4. Stage(e) = "permitted"
    BY <2>2, <2>3 DEF Stage, Assigned
  <2>5. {x \in Job : runs[x] > 0}' = {x \in Job : runs[x] > 0} \cup {e}
    <3>1. runs \in [Job -> 0..2] /\ runs[e] + 1 = 1
      BY <2>1 DEF SystemInv, AgentInv, AgentTypeOK
    <3> QED BY <2>0, <3>1
  <2> QED BY <1>1, <2>1, <2>4, <2>5 DEF C!Run, Shown
<1>4. (\A x \in Job : runs'[x] = runs[x]) \/ \E e \in Job : BusinessStart(e)
  BY AgentRuns
<1> QED BY <1>2, <1>3, <1>4 DEF C!ContractNext

\* Every step of the system keeps the contract.
LEMMA StepKeepsContract ==
  ASSUME SystemInv, [SystemNext]_systemVars
  PROVE  [C!ContractNext]_(C!contract)
<1>1. CASE Server(ServerStep)
  <2>1. UNCHANGED agentVars
    BY <1>1 DEF Server
  <2>2. CASE \A x \in Job : Still(x)
    <3>1. \A x \in Job : Shown(x) /\ runs'[x] = runs[x]
      BY <2>1, <2>2 DEF Still, Shown, Stage, agentVars
    <3> QED BY <3>1, NothingShown
  <2> QED BY <1>1, <2>1, <2>2, ServiceMoves, JobKeepsContract DEF Server
<1>2. CASE AgentDoes(AgentStep)
  BY <1>2, AgentKeepsContract DEF AgentDoes
<1>3. CASE Enroll
  <2>1. \A x \in Job : Still(x) /\ runs'[x] = runs[x]
    BY <1>3, RegisterKeeps DEF Enroll, agentVars
  <2>2. \A x \in Job : Shown(x)
    BY <2>1 DEF Still, Shown, Stage
  <2> QED BY <2>1, <2>2, NothingShown
<1>4. CASE ProcessEnds
  BY <1>4, AgentKeepsContract DEF ProcessEnds
<1>5. CASE UNCHANGED systemVars
  <2>1. \A x \in Job : Shown(x) /\ runs'[x] = runs[x]
    BY <1>5 DEF systemVars, vars, agentVars, Shown, Stage
  <2> QED BY <2>1, NothingShown
<1> QED BY <1>1, <1>2, <1>3, <1>4, <1>5 DEF SystemNext

\* Service and agent together implement the contract: at most one run per
\* job, under its permit, none after the end was announced, and no business
\* conclusion without a run, over any number of stops and repeated messages.
THEOREM ContractIsKept == SystemSpec => Contract
<1>1. SystemInit => C!ContractInit
  <2> SUFFICES ASSUME SystemInit PROVE C!ContractInit
    OBVIOUS
  <2>0. \A e \in Job : job[e] = NoRow /\ runs[e] = 0
    BY DEF SystemInit, Init, AgentInit
  <2>1. ASSUME NEW e \in Job
        PROVE  job[e].state = "absent" /\ job[e].verdict = "none" /\ ~(runs[e] > 0)
    <3>1. NoRow.state = "absent" /\ NoRow.verdict = "none"
      BY DEF NoRow
    <3>2. ~(runs[e] > 0)
      BY <2>0
    <3> QED BY <2>0, <3>1, <3>2
  <2>2. \A e \in Job : Stage(e) = "none"
    BY <2>1 DEF Stage, Assigned
  <2> QED BY <2>1, <2>2 DEF C!ContractInit
<1>2. SystemInv /\ [SystemNext]_systemVars => [C!ContractNext]_(C!contract)
  BY StepKeepsContract
<1> QED BY <1>1, <1>2, SystemInductiveInvariant, PTL DEF SystemSpec, Contract, C!ContractSpec
=============================================================================
