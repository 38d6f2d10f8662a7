-------------------------- MODULE JobControlProofs --------------------------
(***************************************************************************)
(* What holds of the control service for every set of jobs, agents and     *)
(* digests, every capacity and every limit.                                *)
(*                                                                         *)
(* The invariants of JobControl are not inductive as they stand: that an   *)
(* end settles everything needs to be known of the rows that have not      *)
(* ended yet.  Sound says, of one row with its outbox and its receipts,    *)
(* what every state of the job's life guarantees; a step changes one row   *)
(* (OneJobChanges), or one flag of many rows, so each action has a lemma   *)
(* of its own that rebuilds Sound for the row it writes.  The reservations *)
(* relate the rows of one agent and are counted apart.                     *)
(***************************************************************************)
EXTENDS JobControl, FiniteSetTheorems, TLAPS

Box == [CommandKind -> {"none", "pending", "acked"}]

\* Before a claim a row holds nothing, and nothing was said about it.
Untouched(row, box, got) ==
  row.state \in {"absent", "queued"} =>
    /\ ~row.permit /\ row.refusal = "none" /\ row.cancel = "none" /\ row.verdict = "none"
    /\ ~row.input /\ ~row.result /\ row.report = "none" /\ row.hash = NoHash
    /\ got = {} /\ \A k \in CommandKind : box[k] = "none"

\* While assigned it has no conclusion, and a report to come or archived.
Placed(row) ==
  row.state \in Assigned =>
    /\ row.verdict = "none" /\ row.cancel # "confirmed"
    /\ row.report \in {"pending", "archived"}

\* Once ended it owes nothing, and who was assigned has confirmed the end.
Over(row, box, got) ==
  row.state = "ended" =>
    /\ ~row.input
    /\ \A k \in CommandKind : box[k] # "pending"
    /\ box["delivery"] # "none" => got \cap {"completed", "cancel-confirmed"} # {}

\* Permit and refusal both use up the one start request.
Decided(row, got) ==
  /\ row.permit \/ row.refusal # "none" => "start-request" \in got
  /\ ~(row.permit /\ row.refusal # "none")

\* Room for a report is held exactly as long as it is still to come.
Stored(row) == row.result <=> row.report = "pending"

Earned(row) ==
  /\ row.verdict \in Conclusive => row.permit
  /\ row.cancel = "confirmed" <=> row.verdict = "cancelled"

Sound(row, box, got) ==
  /\ row.state # "absent" => row.agent \in Agent
  /\ Untouched(row, box, got) /\ Placed(row) /\ Over(row, box, got)
  /\ Decided(row, got) /\ Stored(row) /\ Earned(row)

AllSound == \A j \in Job : Sound(job[j], outbox[j], receipt[j])

\* The inductive invariant.
Inv == TypeOK /\ AllSound /\ ReservationsFit

RowsTyped ==
  /\ job \in [Job -> Row] /\ outbox \in [Job -> Box] /\ receipt \in [Job -> SUBSET MessageKind]
-----------------------------------------------------------------------------
(***************************************************************************)
(* Steps that write one row                                                *)
(***************************************************************************)

\* If the row, outbox and receipts a step writes are sound, all still are.
LEMMA OneJobChanges ==
  ASSUME RowsTyped, AllSound, NEW j \in Job,
         NEW row \in Row, NEW box \in Box, NEW got \in SUBSET MessageKind,
         job' = [job EXCEPT ![j] = row],
         outbox' = [outbox EXCEPT ![j] = box],
         receipt' = [receipt EXCEPT ![j] = got],
         Sound(row, box, got)
  PROVE  RowsTyped' /\ AllSound'
  BY DEF RowsTyped, AllSound

\* A submission turns a blank row into a queued one.
LEMMA SubmitSound ==
  ASSUME RowsTyped, AllSound, NEW j \in Job, NEW a \in Agent, Submit(j, a)
  PROVE  RowsTyped' /\ AllSound'
<1> DEFINE old == job[j]
           row == [old EXCEPT !.state = "queued", !.agent = a]
<1>1. /\ old \in Row /\ outbox[j] \in Box /\ receipt[j] \in SUBSET MessageKind
      /\ Sound(old, outbox[j], receipt[j])
      /\ old.state = "absent"
  BY DEF RowsTyped, AllSound, Submit
<1>2. /\ row \in Row
      /\ row.state = "queued" /\ row.agent = a
      /\ row.permit = old.permit /\ row.refusal = old.refusal /\ row.cancel = old.cancel
      /\ row.verdict = old.verdict /\ row.input = old.input /\ row.result = old.result
      /\ row.report = old.report /\ row.hash = old.hash
  BY <1>1 DEF Row, Live, Assigned
<1>3. /\ job' = [job EXCEPT ![j] = row]
      /\ outbox' = [outbox EXCEPT ![j] = outbox[j]]
      /\ receipt' = [receipt EXCEPT ![j] = receipt[j]]
  BY <1>1 DEF RowsTyped, Submit
<1>4. Sound(row, outbox[j], receipt[j])
  <2> HIDE DEF row, old
  <2> QED BY <1>1, <1>2 DEF Sound, Untouched, Placed, Over, Decided, Stored, Earned, Assigned
<1> QED BY <1>1, <1>2, <1>3, <1>4, OneJobChanges

\* The passing of the queue deadline is a flag and nothing else.
LEMMA DeadlineSound ==
  ASSUME RowsTyped, AllSound, NEW j \in Job, QueueDeadlinePasses(j)
  PROVE  RowsTyped' /\ AllSound'
<1> DEFINE old == job[j]
           row == [old EXCEPT !.overdue = TRUE]
<1>1. /\ old \in Row /\ outbox[j] \in Box /\ receipt[j] \in SUBSET MessageKind
      /\ Sound(old, outbox[j], receipt[j])
      /\ old.state \in Live
  BY DEF RowsTyped, AllSound, QueueDeadlinePasses
<1>2. /\ row \in Row
      /\ row.state = old.state /\ row.agent = old.agent /\ row.permit = old.permit
      /\ row.refusal = old.refusal /\ row.cancel = old.cancel /\ row.verdict = old.verdict
      /\ row.input = old.input /\ row.result = old.result /\ row.report = old.report
      /\ row.hash = old.hash
  BY <1>1 DEF Row, Live, Assigned
<1>3. /\ job' = [job EXCEPT ![j] = row]
      /\ outbox' = [outbox EXCEPT ![j] = outbox[j]]
      /\ receipt' = [receipt EXCEPT ![j] = receipt[j]]
  BY <1>1 DEF RowsTyped, QueueDeadlinePasses
<1>4. Sound(row, outbox[j], receipt[j])
  <2> HIDE DEF row, old
  <2> QED BY <1>1, <1>2 DEF Sound, Untouched, Placed, Over, Decided, Stored, Earned
<1> QED BY <1>1, <1>2, <1>3, <1>4, OneJobChanges

\* A claim takes its two reservations and posts the delivery at once.
LEMMA ClaimSound ==
  ASSUME RowsTyped, AllSound, NEW j \in Job, Claim(j)
  PROVE  RowsTyped' /\ AllSound'
<1> DEFINE old == job[j]
           row == [old EXCEPT !.state = "preparing", !.report = "pending",
                              !.input = TRUE, !.result = TRUE]
           box == [outbox[j] EXCEPT !["delivery"] = IF @ = "none" THEN "pending" ELSE @]
<1>1. /\ old \in Row /\ outbox[j] \in Box /\ receipt[j] \in SUBSET MessageKind
      /\ Sound(old, outbox[j], receipt[j])
      /\ old.state = "queued"
  BY DEF RowsTyped, AllSound, Claim
<1>2. /\ row \in Row
      /\ row.state = "preparing" /\ row.report = "pending" /\ row.input = TRUE /\ row.result = TRUE
      /\ row.agent = old.agent /\ row.permit = old.permit /\ row.refusal = old.refusal
      /\ row.cancel = old.cancel /\ row.verdict = old.verdict /\ row.hash = old.hash
  BY <1>1 DEF Row, Live, Assigned
<1>3. box \in Box
  BY <1>1 DEF Box
<1>4. /\ job' = [job EXCEPT ![j] = row]
      /\ outbox' = [outbox EXCEPT ![j] = box]
      /\ receipt' = [receipt EXCEPT ![j] = receipt[j]]
  BY <1>1 DEF RowsTyped, Claim, Posted
<1>5. Sound(row, box, receipt[j])
  <2> HIDE DEF row, old
  <2> QED BY <1>1, <1>2, <1>3
        DEF Sound, Untouched, Placed, Over, Decided, Stored, Earned, Assigned, CommandKind, Box, Conclusive
<1> QED BY <1>1, <1>2, <1>3, <1>4, <1>5, OneJobChanges

\* A cancel request leaves an assigned job where it is.
LEMMA CancelRequestSound ==
  ASSUME RowsTyped, AllSound, NEW j \in Job, job[j].state \in Assigned,
         job' = [job EXCEPT ![j].cancel = "requested"],
         outbox' = Posted(j, "cancel"), UNCHANGED receipt
  PROVE  RowsTyped' /\ AllSound'
<1> DEFINE old == job[j]
           row == [old EXCEPT !.cancel = "requested"]
           box == [outbox[j] EXCEPT !["cancel"] = IF @ = "none" THEN "pending" ELSE @]
<1>1. /\ old \in Row /\ outbox[j] \in Box /\ receipt[j] \in SUBSET MessageKind
      /\ Sound(old, outbox[j], receipt[j])
      /\ old.state \in Assigned
  BY DEF RowsTyped, AllSound, Assigned
<1>2. /\ row \in Row
      /\ row.cancel = "requested"
      /\ row.state = old.state /\ row.agent = old.agent /\ row.permit = old.permit
      /\ row.refusal = old.refusal /\ row.verdict = old.verdict /\ row.input = old.input
      /\ row.result = old.result /\ row.report = old.report /\ row.hash = old.hash
  BY <1>1 DEF Row, Live, Assigned
<1>3. box \in Box
  BY <1>1 DEF Box
<1>4. /\ job' = [job EXCEPT ![j] = row]
      /\ outbox' = [outbox EXCEPT ![j] = box]
      /\ receipt' = [receipt EXCEPT ![j] = receipt[j]]
  BY <1>1 DEF RowsTyped, Posted
<1>5. Sound(row, box, receipt[j])
  <2> HIDE DEF row, old
  <2> QED BY <1>1, <1>2, <1>3
        DEF Sound, Untouched, Placed, Over, Decided, Stored, Earned, Assigned, CommandKind, Box
<1> QED BY <1>1, <1>2, <1>3, <1>4, <1>5, OneJobChanges

\* Taking over acknowledges the delivery; the job has not ended.
LEMMA AcceptedSound ==
  ASSUME RowsTyped, AllSound, NEW j \in Job, HandleAccepted(j)
  PROVE  RowsTyped' /\ AllSound'
<1> DEFINE old == job[j]
           row == [old EXCEPT !.accepted = old.accepted \/ old.state = "preparing"]
           box == [outbox[j] EXCEPT !["delivery"] = IF @ = "pending" THEN "acked" ELSE @]
           got == receipt[j] \cup {"accepted"}
<1>1. /\ old \in Row /\ outbox[j] \in Box /\ receipt[j] \in SUBSET MessageKind
      /\ Sound(old, outbox[j], receipt[j])
      /\ old.state \in Assigned
  BY DEF RowsTyped, AllSound, HandleAccepted, Held, Row, Live, Assigned
<1>2. /\ row \in Row
      /\ row.state = old.state /\ row.agent = old.agent /\ row.permit = old.permit
      /\ row.refusal = old.refusal /\ row.cancel = old.cancel /\ row.verdict = old.verdict
      /\ row.input = old.input /\ row.result = old.result /\ row.report = old.report
      /\ row.hash = old.hash
  BY <1>1 DEF Row, Live, Assigned
<1>3. box \in Box /\ got \in SUBSET MessageKind
  BY <1>1 DEF Box, MessageKind
<1>4. /\ job' = [job EXCEPT ![j] = row]
      /\ outbox' = [outbox EXCEPT ![j] = box]
      /\ receipt' = [receipt EXCEPT ![j] = got]
  BY <1>1 DEF RowsTyped, HandleAccepted, Acked, Receive
<1>5. Sound(row, box, got)
  <2> HIDE DEF row, old
  <2> QED BY <1>1, <1>2, <1>3
        DEF Sound, Untouched, Placed, Over, Decided, Stored, Earned, Assigned, CommandKind, Box
<1> QED BY <1>1, <1>2, <1>3, <1>4, <1>5, OneJobChanges

\* A permit uses up the start request, so that no refusal can be there.
LEMMA GrantSound ==
  ASSUME RowsTyped, AllSound, NEW j \in Job, GrantPermit(j)
  PROVE  RowsTyped' /\ AllSound'
<1> DEFINE old == job[j]
           row == [old EXCEPT !.permit = TRUE]
           box == [outbox[j] EXCEPT !["start-permit"] = IF @ = "none" THEN "pending" ELSE @]
           got == receipt[j] \cup {"start-request"}
<1>1. /\ old \in Row /\ outbox[j] \in Box /\ receipt[j] \in SUBSET MessageKind
      /\ Sound(old, outbox[j], receipt[j])
      /\ old.state = "preparing" /\ "start-request" \notin receipt[j]
  BY DEF RowsTyped, AllSound, GrantPermit, AwaitsStart, Fresh
<1>2. /\ row \in Row
      /\ row.permit = TRUE
      /\ row.state = old.state /\ row.agent = old.agent /\ row.refusal = old.refusal
      /\ row.cancel = old.cancel /\ row.verdict = old.verdict /\ row.input = old.input
      /\ row.result = old.result /\ row.report = old.report /\ row.hash = old.hash
  BY <1>1 DEF Row, Live, Assigned
<1>3. box \in Box /\ got \in SUBSET MessageKind
  BY <1>1 DEF Box, MessageKind
<1>4. /\ job' = [job EXCEPT ![j] = row]
      /\ outbox' = [outbox EXCEPT ![j] = box]
      /\ receipt' = [receipt EXCEPT ![j] = got]
  BY <1>1 DEF RowsTyped, GrantPermit, Posted, Receive
<1>5. Sound(row, box, got)
  <2> HIDE DEF row, old
  <2> QED BY <1>1, <1>2, <1>3
        DEF Sound, Untouched, Placed, Over, Decided, Stored, Earned, Assigned, CommandKind, Box
<1> QED BY <1>1, <1>2, <1>3, <1>4, <1>5, OneJobChanges

\* A refusal uses up the start request, so that no permit can be there.
LEMMA RefuseSound ==
  ASSUME RowsTyped, AllSound, NEW j \in Job, refusing[j] \in DenialReason, RecordStartRejection(j)
  PROVE  RowsTyped' /\ AllSound'
<1> DEFINE old == job[j]
           row == [old EXCEPT !.refusal = refusing[j]]
           box == [outbox[j] EXCEPT !["start-rejected"] = IF @ = "none" THEN "pending" ELSE @]
           got == receipt[j] \cup {"start-request"}
<1>1. /\ old \in Row /\ outbox[j] \in Box /\ receipt[j] \in SUBSET MessageKind
      /\ Sound(old, outbox[j], receipt[j])
      /\ old.state = "preparing" /\ "start-request" \notin receipt[j]
  BY DEF RowsTyped, AllSound, RecordStartRejection, AwaitsStart, Fresh
<1>2. /\ row \in Row
      /\ row.refusal = refusing[j]
      /\ row.state = old.state /\ row.agent = old.agent /\ row.permit = old.permit
      /\ row.cancel = old.cancel /\ row.verdict = old.verdict /\ row.input = old.input
      /\ row.result = old.result /\ row.report = old.report /\ row.hash = old.hash
  BY <1>1 DEF Row, Live, Assigned
<1>3. box \in Box /\ got \in SUBSET MessageKind
  BY <1>1 DEF Box, MessageKind
<1>4. /\ job' = [job EXCEPT ![j] = row]
      /\ outbox' = [outbox EXCEPT ![j] = box]
      /\ receipt' = [receipt EXCEPT ![j] = got]
  BY <1>1 DEF RowsTyped, RecordStartRejection, Posted, Receive
<1>5. Sound(row, box, got)
  <2> HIDE DEF row, old
  <2> QED BY <1>1, <1>2, <1>3
        DEF Sound, Untouched, Placed, Over, Decided, Stored, Earned, Assigned, CommandKind, Box
<1> QED BY <1>1, <1>2, <1>3, <1>4, <1>5, OneJobChanges

\* A start moves the job within the assigned states.
LEMMA StartedSound ==
  ASSUME RowsTyped, AllSound, NEW j \in Job, HandleStarted(j)
  PROVE  RowsTyped' /\ AllSound'
<1> DEFINE old == job[j]
           row == [old EXCEPT !.state = "running"]
           got == receipt[j] \cup {"started"}
<1>1. /\ old \in Row /\ outbox[j] \in Box /\ receipt[j] \in SUBSET MessageKind
      /\ Sound(old, outbox[j], receipt[j])
      /\ old.state \in Assigned
  BY DEF RowsTyped, AllSound, HandleStarted
<1>2. /\ row \in Row
      /\ row.state = "running"
      /\ row.agent = old.agent /\ row.permit = old.permit /\ row.refusal = old.refusal
      /\ row.cancel = old.cancel /\ row.verdict = old.verdict /\ row.input = old.input
      /\ row.result = old.result /\ row.report = old.report /\ row.hash = old.hash
  BY <1>1 DEF Row, Live, Assigned
<1>3. got \in SUBSET MessageKind
  BY <1>1 DEF MessageKind
<1>4. /\ job' = [job EXCEPT ![j] = row]
      /\ outbox' = [outbox EXCEPT ![j] = outbox[j]]
      /\ receipt' = [receipt EXCEPT ![j] = got]
  BY <1>1 DEF RowsTyped, HandleStarted, Receive
<1>5. Sound(row, outbox[j], got)
  <2> HIDE DEF row, old
  <2> QED BY <1>1, <1>2, <1>3
        DEF Sound, Untouched, Placed, Over, Decided, Stored, Earned, Assigned
<1> QED BY <1>1, <1>2, <1>3, <1>4, <1>5, OneJobChanges

\* An archived report gives its reservation back.
LEMMA UploadSound ==
  ASSUME RowsTyped, AllSound, NEW j \in Job, NEW h \in Hash, Upload(j, h)
  PROVE  RowsTyped' /\ AllSound'
<1> DEFINE old == job[j]
           row == [old EXCEPT !.report = "archived", !.hash = h, !.result = FALSE]
<1>1. /\ old \in Row /\ outbox[j] \in Box /\ receipt[j] \in SUBSET MessageKind
      /\ Sound(old, outbox[j], receipt[j])
      /\ old.state \in Assigned \cup {"ended"}
  BY DEF RowsTyped, AllSound, Upload, Held, Row, Live, Assigned
<1>2. /\ row \in Row
      /\ row.report = "archived" /\ row.hash = h /\ row.result = FALSE
      /\ row.state = old.state /\ row.agent = old.agent /\ row.permit = old.permit
      /\ row.refusal = old.refusal /\ row.cancel = old.cancel /\ row.verdict = old.verdict
      /\ row.input = old.input
  BY <1>1 DEF Row, Live, Assigned
<1>3. /\ job' = [job EXCEPT ![j] = row]
      /\ outbox' = [outbox EXCEPT ![j] = outbox[j]]
      /\ receipt' = [receipt EXCEPT ![j] = receipt[j]]
  BY <1>1 DEF RowsTyped, Upload
<1>4. Sound(row, outbox[j], receipt[j])
  <2> HIDE DEF row, old
  <2> QED BY <1>1, <1>2 DEF Sound, Untouched, Placed, Over, Decided, Stored, Earned, Assigned
<1> QED BY <1>1, <1>2, <1>3, <1>4, OneJobChanges

\* Only a pending command can be acknowledged, and none is after the end.
LEMMA AcknowledgeSound ==
  ASSUME RowsTyped, AllSound, NEW j \in Job, NEW k \in CommandKind, Acknowledge(j, k)
  PROVE  RowsTyped' /\ AllSound'
<1> DEFINE old == job[j]
           box == [outbox[j] EXCEPT ![k] = IF @ = "pending" THEN "acked" ELSE @]
<1>1. /\ old \in Row /\ outbox[j] \in Box /\ receipt[j] \in SUBSET MessageKind
      /\ Sound(old, outbox[j], receipt[j])
      /\ outbox[j][k] = "pending"
  BY DEF RowsTyped, AllSound, Acknowledge
<1>2. box \in Box
  BY <1>1 DEF Box
<1>3. /\ job' = [job EXCEPT ![j] = old]
      /\ outbox' = [outbox EXCEPT ![j] = box]
      /\ receipt' = [receipt EXCEPT ![j] = receipt[j]]
  BY <1>1 DEF RowsTyped, Acknowledge, Acked
<1>4. Sound(old, box, receipt[j])
  <2> HIDE DEF old
  <2> QED BY <1>1, <1>2
        DEF Sound, Untouched, Placed, Over, Decided, Stored, Earned, Box, CommandKind
<1> QED BY <1>1, <1>2, <1>3, <1>4, OneJobChanges

\* Retention ends what is archived, and an archived report holds no room.
LEMMA RetireSound ==
  ASSUME RowsTyped, AllSound, NEW j \in Job, Retire(j)
  PROVE  RowsTyped' /\ AllSound'
<1> DEFINE old == job[j]
           row == [old EXCEPT !.report = "expired"]
<1>1. /\ old \in Row /\ outbox[j] \in Box /\ receipt[j] \in SUBSET MessageKind
      /\ Sound(old, outbox[j], receipt[j])
      /\ old.state = "ended" /\ old.report = "archived"
  BY DEF RowsTyped, AllSound, Retire
<1>2. /\ row \in Row
      /\ row.report = "expired"
      /\ row.state = old.state /\ row.agent = old.agent /\ row.permit = old.permit
      /\ row.refusal = old.refusal /\ row.cancel = old.cancel /\ row.verdict = old.verdict
      /\ row.input = old.input /\ row.result = old.result /\ row.hash = old.hash
  BY <1>1 DEF Row, Live, Assigned
<1>3. /\ job' = [job EXCEPT ![j] = row]
      /\ outbox' = [outbox EXCEPT ![j] = outbox[j]]
      /\ receipt' = [receipt EXCEPT ![j] = receipt[j]]
  BY <1>1 DEF RowsTyped, Retire
<1>4. Sound(row, outbox[j], receipt[j])
  <2> HIDE DEF row, old
  <2> QED BY <1>1, <1>2 DEF Sound, Untouched, Placed, Over, Decided, Stored, Earned, Assigned
<1> QED BY <1>1, <1>2, <1>3, <1>4, OneJobChanges

\* The row JobRepo.end writes is a row, built one field at a time.
LEMMA EndedRow ==
  ASSUME NEW row \in Row, NEW v \in Verdict, NEW h \in Hash \cup {NoHash},
         NEW transfer \in {"none", "pending", "archived"},
         NEW cancel \in {"none", "requested", "confirmed"}
  PROVE  [row EXCEPT !.state = "ended", !.verdict = v, !.hash = h, !.report = transfer,
                     !.input = FALSE, !.result = row.result /\ transfer = "pending",
                     !.cancel = cancel] \in Row
<1> DEFINE kept == row.result /\ transfer = "pending"
           r1 == [row EXCEPT !.state = "ended", !.input = FALSE]
           r2 == [r1 EXCEPT !.verdict = v]
           r3 == [r2 EXCEPT !.hash = h]
           r4 == [r3 EXCEPT !.report = transfer]
           r5 == [r4 EXCEPT !.result = kept]
           r6 == [r5 EXCEPT !.cancel = cancel]
<1>1. r1 \in Row  BY DEF Row
<1>2. r2 \in Row
  <2> HIDE DEF r1
  <2> QED BY <1>1 DEF Row
<1>3. r3 \in Row
  <2> HIDE DEF r2
  <2> QED BY <1>2 DEF Row
<1>4. r4 \in Row
  <2> HIDE DEF r3
  <2> QED BY <1>3 DEF Row
<1>5. r5 \in Row
  <2>1. kept \in BOOLEAN  BY DEF Row
  <2> HIDE DEF r4, kept
  <2> QED BY <1>4, <2>1 DEF Row
<1>6. r6 \in Row
  <2> HIDE DEF r5
  <2> QED BY <1>5 DEF Row
<1>7. r6 = [row EXCEPT !.state = "ended", !.verdict = v, !.hash = h, !.report = transfer,
                       !.input = FALSE, !.result = row.result /\ transfer = "pending",
                       !.cancel = cancel]
  BY DEF Row
<1> QED BY <1>6, <1>7

\* An end settles the row, provided it was queued or its agent confirms it.
LEMMA EndSound ==
  ASSUME RowsTyped, AllSound, NEW j \in Job,
         NEW v \in Verdict, NEW h \in Hash \cup {NoHash}, NEW c \in BOOLEAN,
         NEW got \in SUBSET MessageKind, receipt[j] \subseteq got,
         End(j, v, h, c), receipt' = [receipt EXCEPT ![j] = got],
         c <=> v = "cancelled", v \in Conclusive => job[j].permit,
         job[j].state = "queued" => h = NoHash,
         job[j].state # "queued" => got \cap {"completed", "cancel-confirmed"} # {}
  PROVE  RowsTyped' /\ AllSound'
<1> DEFINE old == job[j]
           transfer == IF old.report = "archived" THEN "archived"
                  ELSE IF old.state # "queued" \/ h # NoHash THEN "pending" ELSE "none"
           result == old.result /\ transfer = "pending"
           cancel == IF c THEN "confirmed" ELSE old.cancel
           row == [old EXCEPT !.state = "ended", !.verdict = v, !.hash = h,
                             !.report = transfer, !.input = FALSE,
                             !.result = result, !.cancel = cancel]
           box == [k \in CommandKind |-> IF outbox[j][k] = "pending" THEN "acked"
                                           ELSE outbox[j][k]]
<1>1. /\ old \in Row /\ outbox[j] \in Box /\ receipt[j] \in SUBSET MessageKind
      /\ Sound(old, outbox[j], receipt[j])
      /\ old.state \in Live
  BY DEF RowsTyped, AllSound, End
<1>2. /\ transfer \in {"none", "pending", "archived"}
      /\ result \in BOOLEAN /\ cancel \in {"none", "requested", "confirmed"}
  BY <1>1 DEF Row
<1>3. /\ row \in Row
      /\ row.state = "ended" /\ row.verdict = v /\ row.hash = h
      /\ row.report = transfer /\ ~row.input /\ row.result = result
      /\ row.cancel = cancel /\ row.agent = old.agent
      /\ row.permit = old.permit /\ row.refusal = old.refusal
  <2> HIDE DEF transfer, cancel, old
  <2>1. row \in Row
    BY <1>1, <1>2, EndedRow
  <2>2. /\ row.state = "ended" /\ row.verdict = v /\ row.hash = h
        /\ row.report = transfer /\ row.cancel = cancel /\ row.agent = old.agent
    BY <1>1 DEF Row
  <2>3. ~row.input /\ row.result = result
    BY <1>1 DEF Row
  <2>4. row.permit = old.permit /\ row.refusal = old.refusal
    BY <1>1 DEF Row
  <2> QED BY <2>1, <2>2, <2>3, <2>4
<1>4. /\ box \in Box
      /\ \A k \in CommandKind : box[k] # "pending" /\ (outbox[j][k] = "none" => box[k] = "none")
  BY <1>1 DEF Box, CommandKind
<1>5. /\ job' = [job EXCEPT ![j] = row]
      /\ outbox' = [outbox EXCEPT ![j] = box]
  BY DEF End
<1>6. result <=> transfer = "pending"
  BY <1>1 DEF Sound, Untouched, Placed, Stored, Live, Assigned
<1>7. old.refusal \in DenialReason \cup {"none"} /\ old.cancel # "confirmed" /\ old.agent \in Agent
  BY <1>1 DEF Row, Sound, Untouched, Placed, Live, Assigned
<1>8. Over(row, box, got)
  <2> HIDE DEF row, box
  <2> QED BY <1>1, <1>3, <1>4 DEF Over, Sound, Untouched, CommandKind
<1>9. Untouched(row, box, got) /\ Placed(row) /\ Stored(row) /\ Earned(row) /\ Decided(row, got)
  <2> HIDE DEF row, box, transfer, result
  <2> QED BY <1>1, <1>3, <1>6, <1>7
        DEF Untouched, Placed, Stored, Earned, Assigned, Sound, Conclusive, Decided
<1>10. Sound(row, box, got)
  <2> HIDE DEF row, box
  <2> QED BY <1>3, <1>7, <1>8, <1>9 DEF Sound
<1> QED BY <1>3, <1>4, <1>5, <1>10, OneJobChanges

-----------------------------------------------------------------------------
(***************************************************************************)
(* Steps that mark many rows, and the steps of Next                        *)
(***************************************************************************)

\* A new session only marks assigned rows as orphaned.
LEMMA RegisterSound ==
  ASSUME RowsTyped, AllSound, NEW a \in Agent, Register(a)
  PROVE  RowsTyped' /\ AllSound'
<1>1. ASSUME NEW j \in Job
      PROVE  /\ job'[j] \in Row
             /\ Sound(job'[j], outbox[j], receipt[j])
  <2> DEFINE old == job[j]
             flag == old.orphaned \/ (old.agent = a /\ old.state \in Assigned)
             row == [old EXCEPT !.orphaned = flag]
  <2>1. old \in Row /\ Sound(old, outbox[j], receipt[j]) /\ job'[j] = row
    BY DEF RowsTyped, AllSound, Register
  <2>2. row \in Row
    <3>1. flag \in BOOLEAN  BY <2>1 DEF Row
    <3> HIDE DEF flag, old
    <3> QED BY <2>1, <3>1 DEF Row
  <2>3. Sound(row, outbox[j], receipt[j])
    <3>1. /\ row.state = old.state /\ row.agent = old.agent /\ row.permit = old.permit
          /\ row.refusal = old.refusal /\ row.cancel = old.cancel /\ row.verdict = old.verdict
          /\ row.input = old.input /\ row.result = old.result /\ row.report = old.report
          /\ row.hash = old.hash
      <4> HIDE DEF flag, old
      <4> QED BY <2>1 DEF Row
    <3> HIDE DEF row, old
    <3> QED BY <2>1, <3>1 DEF Sound, Untouched, Placed, Over, Decided, Stored, Earned
  <2> QED BY <2>1, <2>2, <2>3
<1>2. job' = [j \in Job |-> job'[j]]
  BY DEF Register
<1> QED BY <1>1, <1>2 DEF RowsTyped, AllSound, Register

\* A new policy version only marks live rows as stale.
LEMMA ChangePolicySound ==
  ASSUME RowsTyped, AllSound, ChangePolicy
  PROVE  RowsTyped' /\ AllSound'
<1>1. ASSUME NEW j \in Job
      PROVE  /\ job'[j] \in Row
             /\ Sound(job'[j], outbox[j], receipt[j])
  <2> DEFINE old == job[j]
             flag == old.stale \/ old.state \in Live
             row == [old EXCEPT !.stale = flag]
  <2>1. old \in Row /\ Sound(old, outbox[j], receipt[j]) /\ job'[j] = row
    BY DEF RowsTyped, AllSound, ChangePolicy
  <2>2. row \in Row
    <3>1. flag \in BOOLEAN  BY <2>1 DEF Row
    <3> HIDE DEF flag, old
    <3> QED BY <2>1, <3>1 DEF Row
  <2>3. Sound(row, outbox[j], receipt[j])
    <3>1. /\ row.state = old.state /\ row.agent = old.agent /\ row.permit = old.permit
          /\ row.refusal = old.refusal /\ row.cancel = old.cancel /\ row.verdict = old.verdict
          /\ row.input = old.input /\ row.result = old.result /\ row.report = old.report
          /\ row.hash = old.hash
      <4> HIDE DEF flag, old
      <4> QED BY <2>1 DEF Row
    <3> HIDE DEF row, old
    <3> QED BY <2>1, <3>1 DEF Sound, Untouched, Placed, Over, Decided, Stored, Earned
  <2> QED BY <2>1, <2>2, <2>3
<1>2. job' = [j \in Job |-> job'[j]]
  BY DEF ChangePolicy
<1> QED BY <1>1, <1>2 DEF RowsTyped, AllSound, ChangePolicy

\* Steps that touch no row.
LEMMA RowsKept ==
  ASSUME RowsTyped, AllSound, UNCHANGED rows
  PROVE  RowsTyped' /\ AllSound'
  BY DEF RowsTyped, AllSound, rows

\* The queue: what ends there was never assigned, so needs no confirmation.
LEMMA QueueingSound ==
  ASSUME RowsTyped, AllSound, Queueing
  PROVE  RowsTyped' /\ AllSound'
<1> SUFFICES ASSUME NEW j \in Job,
                    \/ \E a \in Agent : Submit(j, a)
                    \/ QueueDeadlinePasses(j) \/ ExpireQueued(j) \/ Claim(j) \/ Cancel(j)
                    \/ ClaimDenied(j) \/ RejectQueued(j) \/ RejectionOvertaken(j)
             PROVE  RowsTyped' /\ AllSound'
  BY DEF Queueing
<1>0. /\ receipt[j] \in SUBSET MessageKind
      /\ (UNCHANGED receipt => receipt' = [receipt EXCEPT ![j] = receipt[j]])
  BY DEF RowsTyped
<1>1. CASE \E a \in Agent : Submit(j, a)
  BY <1>1, SubmitSound
<1>2. CASE QueueDeadlinePasses(j)
  BY <1>2, DeadlineSound
<1>3. CASE ExpireQueued(j)
  <2>1. End(j, "rejected", NoHash, FALSE) /\ UNCHANGED receipt /\ job[j].state = "queued"
    BY <1>3 DEF ExpireQueued
  <2> QED BY <1>0, <2>1, EndSound DEF Verdict, Conclusive
<1>4. CASE Claim(j)
  BY <1>4, ClaimSound
<1>5. CASE Cancel(j)
  <2>1. CASE job[j].state = "queued" /\ End(j, "cancelled", NoHash, TRUE)
    <3>1. UNCHANGED receipt  BY <1>5 DEF Cancel
    <3> QED BY <1>0, <2>1, <3>1, EndSound DEF Verdict, Conclusive
  <2>2. CASE /\ job[j].state \in Assigned /\ job[j].cancel = "none"
             /\ job' = [job EXCEPT ![j].cancel = "requested"]
             /\ outbox' = Posted(j, "cancel")
    <3>1. UNCHANGED receipt  BY <1>5 DEF Cancel
    <3> QED BY <2>2, <3>1, CancelRequestSound
  <2> QED BY <1>5, <2>1, <2>2 DEF Cancel
<1>6. CASE ClaimDenied(j)
  BY <1>6, RowsKept DEF ClaimDenied
<1>7. CASE RejectQueued(j)
  <2>1. End(j, "rejected", NoHash, FALSE) /\ UNCHANGED receipt /\ job[j].state = "queued"
    BY <1>7 DEF RejectQueued
  <2> QED BY <1>0, <2>1, EndSound DEF Verdict, Conclusive
<1>8. CASE RejectionOvertaken(j)
  BY <1>8, RowsKept DEF RejectionOvertaken
<1> QED BY <1>1, <1>2, <1>3, <1>4, <1>5, <1>6, <1>7, <1>8

\* The start decision.
LEMMA StartingSound ==
  ASSUME RowsTyped, AllSound, refusing \in [Job -> DenialReason \cup {"none"}], Starting
  PROVE  RowsTyped' /\ AllSound'
<1> SUFFICES ASSUME NEW j \in Job,
                    \/ HandleAccepted(j) \/ GrantPermit(j) \/ DenyStart(j) \/ HandleStarted(j)
                    \/ RecordStartRejection(j) \/ StartRejectionOvertaken(j)
             PROVE  RowsTyped' /\ AllSound'
  BY DEF Starting
<1>1. CASE HandleAccepted(j)
  BY <1>1, AcceptedSound
<1>2. CASE GrantPermit(j)
  BY <1>2, GrantSound
<1>3. CASE DenyStart(j)
  BY <1>3, RowsKept DEF DenyStart
<1>4. CASE HandleStarted(j)
  BY <1>4, StartedSound
<1>5. CASE RecordStartRejection(j)
  <2>1. refusing[j] \in DenialReason
    BY <1>5 DEF RecordStartRejection
  <2> QED BY <1>5, <2>1, RefuseSound
<1>6. CASE StartRejectionOvertaken(j)
  BY <1>6, RowsKept DEF StartRejectionOvertaken
<1> QED BY <1>1, <1>2, <1>3, <1>4, <1>5, <1>6

\* The agent's conclusions, reports and acknowledgements, and retention.
LEMMA SettlingSound ==
  ASSUME RowsTyped, AllSound, Settling
  PROVE  RowsTyped' /\ AllSound'
<1> SUFFICES ASSUME NEW j \in Job,
                    \/ \E v \in Verdict, h \in Hash \cup {NoHash} : HandleCompleted(j, v, h)
                    \/ HandleCancelConfirmed(j)
                    \/ \E h \in Hash : Upload(j, h)
                    \/ \E k \in CommandKind : Acknowledge(j, k)
                    \/ Retire(j)
             PROVE  RowsTyped' /\ AllSound'
  BY DEF Settling
<1>0. job[j] \in Row /\ receipt[j] \in SUBSET MessageKind
  BY DEF RowsTyped
<1>1. ASSUME NEW v \in Verdict, NEW h \in Hash \cup {NoHash}, HandleCompleted(j, v, h)
      PROVE  RowsTyped' /\ AllSound'
  <2> DEFINE got == receipt[j] \cup {"completed"}
             stopped == v = "cancelled"
  <2>1. got \in SUBSET MessageKind /\ got \cap {"completed", "cancel-confirmed"} # {}
    BY <1>0 DEF MessageKind
  <2>2. receipt' = [receipt EXCEPT ![j] = got] /\ stopped \in BOOLEAN
    BY <1>1 DEF HandleCompleted, Receive
  <2>3. /\ End(j, v, h, stopped)
        /\ v \in Conclusive => job[j].permit
        /\ job[j].state # "queued"
    BY <1>1 DEF HandleCompleted, Held
  <2>4. receipt[j] \subseteq got /\ (stopped <=> v = "cancelled")
    OBVIOUS
  <2> HIDE DEF got, stopped
  <2> QED BY <2>1, <2>2, <2>3, <2>4, EndSound
<1>2. CASE HandleCancelConfirmed(j)
  <2> DEFINE got == receipt[j] \cup {"cancel-confirmed"}
             kept == IF job[j].report = "archived" THEN job[j].hash ELSE NoHash
  <2>1. got \in SUBSET MessageKind /\ got \cap {"completed", "cancel-confirmed"} # {}
    BY <1>0 DEF MessageKind
  <2>2. receipt' = [receipt EXCEPT ![j] = got]
    BY <1>2 DEF HandleCancelConfirmed, Receive
  <2>3. End(j, "cancelled", kept, TRUE) /\ job[j].state # "queued"
    BY <1>2 DEF HandleCancelConfirmed, Held
  <2>4. receipt[j] \subseteq got /\ kept \in Hash \cup {NoHash}
    BY <1>0 DEF Row
  <2> HIDE DEF got, kept
  <2> QED BY <2>1, <2>2, <2>3, <2>4, EndSound DEF Verdict, Conclusive
<1>3. ASSUME NEW h \in Hash, Upload(j, h)
      PROVE  RowsTyped' /\ AllSound'
  BY <1>3, UploadSound
<1>4. ASSUME NEW k \in CommandKind, Acknowledge(j, k)
      PROVE  RowsTyped' /\ AllSound'
  BY <1>4, AcknowledgeSound
<1>5. CASE Retire(j)
  BY <1>5, RetireSound
<1> QED BY <1>1, <1>2, <1>3, <1>4, <1>5

\* Administrators and restarts change rights and flags, never a row's life.
LEMMA AdministrationSound ==
  ASSUME RowsTyped, AllSound, Administration
  PROVE  RowsTyped' /\ AllSound'
<1>1. CASE \E a \in Agent : Register(a)
  BY <1>1, RegisterSound
<1>2. CASE ChangePolicy
  BY <1>2, ChangePolicySound
<1>3. CASE UNCHANGED rows
  BY <1>3, RowsKept
<1> QED BY <1>1, <1>2, <1>3 DEF Administration, SetIntake, SetLimit, Deny, Allow, ServerRestart

-----------------------------------------------------------------------------
(***************************************************************************)
(* The other variables, and the reservations                               *)
(***************************************************************************)

OthersTyped ==
  /\ rejecting \subseteq Job /\ refusing \in [Job -> DenialReason \cup {"none"}]
  /\ registered \subseteq Agent /\ intake \in [Agent -> {"accepting", "paused", "revoked"}]
  /\ limit \in [Agent -> Limit] /\ denied \subseteq Job

\* The type invariant is that of the rows and that of the rest.
LEMMA TypeSplits == TypeOK <=> RowsTyped /\ OthersTyped
  BY DEF TypeOK, RowsTyped, OthersTyped, Box

\* The rest keeps its type in every step.
LEMMA OthersKeepType ==
  ASSUME OthersTyped, Next
  PROVE  OthersTyped'
<1>1. CASE Queueing
  BY <1>1 DEF OthersTyped, Queueing, Submit, QueueDeadlinePasses, ExpireQueued, Claim, Cancel,
              ClaimDenied, RejectQueued, RejectionOvertaken, gaps, admin
<1>2. CASE Starting
  BY <1>2 DEF OthersTyped, Starting, HandleAccepted, GrantPermit, DenyStart, HandleStarted,
              RecordStartRejection, StartRejectionOvertaken, StartDenials, gaps, admin
<1>3. CASE Settling
  BY <1>3 DEF OthersTyped, Settling, HandleCompleted, HandleCancelConfirmed, Upload,
              Acknowledge, Retire, gaps, admin
<1>4. CASE Administration
  BY <1>4 DEF OthersTyped, Administration, Register, SetIntake, SetLimit, ChangePolicy,
              Deny, Allow, ServerRestart, gaps, admin
<1> QED BY <1>1, <1>2, <1>3, <1>4 DEF Next

\* No row gains a reservation, and none moves to another agent.
NothingReserved ==
  \A j \in Job :
    /\ job'[j].input => job[j].input /\ job'[j].agent = job[j].agent
    /\ job'[j].result => job[j].result /\ job'[j].agent = job[j].agent

\* A step that reserves nothing cannot exceed a budget.
LEMMA FewerReservations ==
  ASSUME TypeOK, ReservationsFit, NothingReserved
  PROVE  ReservationsFit'
<1> SUFFICES ASSUME NEW a \in Agent
             PROVE  /\ Cardinality(ResultsHeld(a)') <= ResultCapacity
                    /\ Cardinality(InputsHeld(a)') <= InputCapacity
  BY DEF ReservationsFit
<1>1. ResultsHeld(a)' \subseteq ResultsHeld(a) /\ InputsHeld(a)' \subseteq InputsHeld(a)
  BY DEF NothingReserved, ResultsHeld, InputsHeld
<1>2. IsFiniteSet(ResultsHeld(a)) /\ IsFiniteSet(InputsHeld(a))
  BY JobAssumption, FS_Subset DEF ResultsHeld, InputsHeld
<1>3. /\ Cardinality(ResultsHeld(a)') <= Cardinality(ResultsHeld(a))
      /\ Cardinality(InputsHeld(a)') <= Cardinality(InputsHeld(a))
  BY <1>1, <1>2, FS_Subset
<1>4. /\ Cardinality(ResultsHeld(a)) \in Nat /\ Cardinality(InputsHeld(a)) \in Nat
      /\ Cardinality(ResultsHeld(a)') \in Nat /\ Cardinality(InputsHeld(a)') \in Nat
  BY <1>1, <1>2, FS_Subset, FS_CardinalityType
<1>5. /\ Cardinality(ResultsHeld(a)) <= ResultCapacity
      /\ Cardinality(InputsHeld(a)) <= InputCapacity
  BY DEF ReservationsFit
<1> QED BY <1>3, <1>4, <1>5, CapacityAssumption

\* One more element is at most one more in number.
LEMMA OneMore ==
  ASSUME NEW S, IsFiniteSet(S), NEW x
  PROVE  /\ IsFiniteSet(S \cup {x})
         /\ Cardinality(S \cup {x}) \in Nat
         /\ Cardinality(S \cup {x}) <= Cardinality(S) + 1
<1>1. IsFiniteSet(S \cup {x}) /\ Cardinality(S) \in Nat
  BY FS_AddElement, FS_CardinalityType
<1>2. Cardinality(S \cup {x}) = IF x \in S THEN Cardinality(S) ELSE Cardinality(S) + 1
  BY FS_AddElement
<1> QED BY <1>1, <1>2

\* A claim counts under the agent's lock before it reserves one of each.
LEMMA ClaimFits ==
  ASSUME TypeOK, ReservationsFit, NEW j \in Job, Claim(j)
  PROVE  ReservationsFit'
<1> SUFFICES ASSUME NEW a \in Agent
             PROVE  /\ Cardinality(ResultsHeld(a)') <= ResultCapacity
                    /\ Cardinality(InputsHeld(a)') <= InputCapacity
  BY DEF ReservationsFit
<1>1. \A i \in Job : i # j => job'[i] = job[i]
  BY DEF Claim, TypeOK
<1>2. job'[j].agent = job[j].agent
  BY DEF Claim, TypeOK, Row
<1>3. /\ IsFiniteSet(ResultsHeld(a)) /\ IsFiniteSet(InputsHeld(a))
      /\ Cardinality(ResultsHeld(a)) \in Nat /\ Cardinality(InputsHeld(a)) \in Nat
  BY JobAssumption, FS_Subset, FS_CardinalityType DEF ResultsHeld, InputsHeld
<1>4. CASE a = job[j].agent
  <2>1. /\ ResultsHeld(a)' \subseteq ResultsHeld(a) \cup {j}
        /\ InputsHeld(a)' \subseteq InputsHeld(a) \cup {j}
    BY <1>1, <1>2 DEF ResultsHeld, InputsHeld
  <2>2. /\ IsFiniteSet(ResultsHeld(a) \cup {j}) /\ IsFiniteSet(InputsHeld(a) \cup {j})
        /\ Cardinality(ResultsHeld(a) \cup {j}) <= Cardinality(ResultsHeld(a)) + 1
        /\ Cardinality(InputsHeld(a) \cup {j}) <= Cardinality(InputsHeld(a)) + 1
    BY <1>3, OneMore
  <2>3. /\ Cardinality(ResultsHeld(a)) < ResultCapacity
        /\ Cardinality(InputsHeld(a)) < InputCapacity
    BY <1>4 DEF Claim
  <2>4. /\ Cardinality(ResultsHeld(a)') <= Cardinality(ResultsHeld(a) \cup {j})
        /\ Cardinality(InputsHeld(a)') <= Cardinality(InputsHeld(a) \cup {j})
        /\ Cardinality(ResultsHeld(a)') \in Nat /\ Cardinality(InputsHeld(a)') \in Nat
        /\ Cardinality(ResultsHeld(a) \cup {j}) \in Nat
        /\ Cardinality(InputsHeld(a) \cup {j}) \in Nat
    BY <2>1, <2>2, FS_Subset, FS_CardinalityType
  <2> QED BY <1>3, <2>2, <2>3, <2>4, CapacityAssumption
<1>5. CASE a # job[j].agent
  <2>1. ResultsHeld(a)' = ResultsHeld(a) /\ InputsHeld(a)' = InputsHeld(a)
    BY <1>1, <1>2, <1>5 DEF ResultsHeld, InputsHeld
  <2> QED BY <2>1 DEF ReservationsFit
<1> QED BY <1>4, <1>5

\* An end gives back, and never takes.
LEMMA EndReservesNothing ==
  ASSUME TypeOK, NEW j \in Job, NEW v, NEW h, NEW c, End(j, v, h, c)
  PROVE  NothingReserved
<1>1. \A i \in Job : i # j => job'[i] = job[i]
  BY DEF End, TypeOK
<1>2. job'[j].agent = job[j].agent /\ ~job'[j].input /\ (job'[j].result => job[j].result)
  BY DEF End, TypeOK, Row
<1> QED BY <1>1, <1>2 DEF NothingReserved

\* Of the queue's steps only a claim reserves.
LEMMA QueueingFits ==
  ASSUME TypeOK, AllSound, ReservationsFit, Queueing
  PROVE  ReservationsFit'
<1>1. ASSUME NEW j \in Job, NEW a \in Agent, Submit(j, a)
      PROVE  NothingReserved
  <2>1. ~job[j].input /\ ~job[j].result
    BY <1>1 DEF Submit, AllSound, Sound, Untouched
  <2>2. job'[j].input = job[j].input /\ job'[j].result = job[j].result
    BY <1>1 DEF Submit, TypeOK, Row
  <2>3. \A i \in Job : i # j => job'[i] = job[i]
    BY <1>1 DEF Submit, TypeOK
  <2> QED BY <2>1, <2>2, <2>3 DEF NothingReserved
<1>2. ASSUME NEW j \in Job, QueueDeadlinePasses(j)
      PROVE  NothingReserved
  BY <1>2 DEF QueueDeadlinePasses, NothingReserved, TypeOK, Row
<1>3. ASSUME NEW j \in Job, ExpireQueued(j) \/ RejectQueued(j)
      PROVE  NothingReserved
  BY <1>3, EndReservesNothing DEF ExpireQueued, RejectQueued
<1>4. ASSUME NEW j \in Job, Cancel(j)
      PROVE  NothingReserved
  <2>1. CASE End(j, "cancelled", NoHash, TRUE)
    BY <2>1, EndReservesNothing
  <2>2. CASE job' = [job EXCEPT ![j].cancel = "requested"]
    BY <2>2 DEF NothingReserved, TypeOK, Row
  <2> QED BY <1>4, <2>1, <2>2 DEF Cancel
<1>5. ASSUME NEW j \in Job, ClaimDenied(j) \/ RejectionOvertaken(j)
      PROVE  NothingReserved
  BY <1>5 DEF ClaimDenied, RejectionOvertaken, rows, NothingReserved
<1> QED BY <1>1, <1>2, <1>3, <1>4, <1>5, FewerReservations, ClaimFits DEF Queueing

\* The start decision reserves nothing.
LEMMA StartingFits ==
  ASSUME TypeOK, ReservationsFit, Starting
  PROVE  ReservationsFit'
<1>1. ASSUME NEW j \in Job,
             HandleAccepted(j) \/ GrantPermit(j) \/ HandleStarted(j) \/ RecordStartRejection(j)
      PROVE  NothingReserved
  <2>1. \A i \in Job : i # j => job'[i] = job[i]
    BY <1>1 DEF HandleAccepted, GrantPermit, HandleStarted, RecordStartRejection, TypeOK
  <2>2. /\ job'[j].input = job[j].input /\ job'[j].result = job[j].result
        /\ job'[j].agent = job[j].agent
    BY <1>1 DEF HandleAccepted, GrantPermit, HandleStarted, RecordStartRejection, TypeOK, Row
  <2> QED BY <2>1, <2>2 DEF NothingReserved
<1>2. ASSUME NEW j \in Job, DenyStart(j) \/ StartRejectionOvertaken(j)
      PROVE  NothingReserved
  BY <1>2 DEF DenyStart, StartRejectionOvertaken, rows, NothingReserved
<1> QED BY <1>1, <1>2, FewerReservations DEF Starting

\* Conclusions and uploads reserve nothing.
LEMMA SettlingFits ==
  ASSUME TypeOK, ReservationsFit, Settling
  PROVE  ReservationsFit'
<1>1. ASSUME NEW j \in Job, NEW v \in Verdict, NEW h \in Hash \cup {NoHash},
             HandleCompleted(j, v, h)
      PROVE  NothingReserved
  <2> DEFINE stopped == v = "cancelled"
  <2>1. End(j, v, h, stopped)
    BY <1>1 DEF HandleCompleted
  <2> HIDE DEF stopped
  <2> QED BY <2>1, EndReservesNothing
<1>2. ASSUME NEW j \in Job, HandleCancelConfirmed(j)
      PROVE  NothingReserved
  <2> DEFINE kept == IF job[j].report = "archived" THEN job[j].hash ELSE NoHash
  <2>1. End(j, "cancelled", kept, TRUE)
    BY <1>2 DEF HandleCancelConfirmed
  <2> HIDE DEF kept
  <2> QED BY <2>1, EndReservesNothing
<1>3. ASSUME NEW j \in Job, NEW h \in Hash, Upload(j, h)
      PROVE  NothingReserved
  BY <1>3 DEF Upload, NothingReserved, TypeOK, Row
<1>4. ASSUME NEW j \in Job, NEW k \in CommandKind, Acknowledge(j, k)
      PROVE  NothingReserved
  BY <1>4 DEF Acknowledge, NothingReserved
<1>5. ASSUME NEW j \in Job, Retire(j)
      PROVE  NothingReserved
  BY <1>5 DEF Retire, NothingReserved, TypeOK, Row
<1> QED BY <1>1, <1>2, <1>3, <1>4, <1>5, FewerReservations DEF Settling

\* Administration reserves nothing, and a lower limit takes nothing back.
LEMMA AdministrationFits ==
  ASSUME TypeOK, ReservationsFit, Administration
  PROVE  ReservationsFit'
<1>1. ASSUME NEW a \in Agent, Register(a)
      PROVE  NothingReserved
  <2> SUFFICES ASSUME NEW j \in Job
               PROVE  /\ job'[j].input = job[j].input /\ job'[j].result = job[j].result
                      /\ job'[j].agent = job[j].agent
    BY DEF NothingReserved
  <2> DEFINE flag == job[j].orphaned \/ (job[j].agent = a /\ job[j].state \in Assigned)
  <2>1. job[j] \in Row /\ job'[j] = [job[j] EXCEPT !.orphaned = flag]
    BY <1>1 DEF Register, TypeOK
  <2> HIDE DEF flag
  <2> QED BY <2>1 DEF Row
<1>2. ASSUME ChangePolicy
      PROVE  NothingReserved
  <2> SUFFICES ASSUME NEW j \in Job
               PROVE  /\ job'[j].input = job[j].input /\ job'[j].result = job[j].result
                      /\ job'[j].agent = job[j].agent
    BY DEF NothingReserved
  <2> DEFINE flag == job[j].stale \/ job[j].state \in Live
  <2>1. job[j] \in Row /\ job'[j] = [job[j] EXCEPT !.stale = flag]
    BY <1>2 DEF ChangePolicy, TypeOK
  <2> HIDE DEF flag
  <2> QED BY <2>1 DEF Row
<1>3. CASE UNCHANGED job
  BY <1>3, FewerReservations DEF NothingReserved
<1> QED
  BY <1>1, <1>2, <1>3, FewerReservations
     DEF Administration, SetIntake, SetLimit, Deny, Allow, ServerRestart, rows

-----------------------------------------------------------------------------
(***************************************************************************)
(* What a step may do to a job that has ended                              *)
(***************************************************************************)

Final(j) ==
  /\ job'[j].state = "ended"
  /\ job'[j].verdict = job[j].verdict /\ job'[j].cancel = job[j].cancel
  /\ job[j].hash # NoHash => job'[j].hash = job[j].hash
  /\ job[j].report = "expired" => job'[j].report = "expired"
  /\ job[j].report = "archived" => job'[j].report \in {"archived", "expired"}

\* Ending a job leaves the ended ones alone, since it needs a live one.
LEMMA EndKeepsEnded ==
  ASSUME TypeOK, NEW i \in Job, NEW v, NEW h, NEW c, End(i, v, h, c),
         NEW j \in Job, job[j].state = "ended"
  PROVE  Final(j)
<1>1. i # j
  BY DEF End, Live, Assigned
<1>2. job'[j] = job[j]
  BY <1>1 DEF End, TypeOK
<1> QED BY <1>2 DEF Final

\* The queue's steps are about queued and assigned jobs.
LEMMA QueueingKeepsEnded ==
  ASSUME TypeOK, Queueing, NEW j \in Job, job[j].state = "ended"
  PROVE  Final(j)
<1> PICK i \in Job :
      \/ \E a \in Agent : Submit(i, a)
      \/ QueueDeadlinePasses(i) \/ ExpireQueued(i) \/ Claim(i) \/ Cancel(i)
      \/ ClaimDenied(i) \/ RejectQueued(i) \/ RejectionOvertaken(i)
  BY DEF Queueing
<1>1. CASE (\E a \in Agent : Submit(i, a)) \/ QueueDeadlinePasses(i) \/ Claim(i)
  <2>1. i # j
    BY <1>1 DEF Submit, QueueDeadlinePasses, Claim, Live, Assigned
  <2>2. job'[j] = job[j]
    BY <1>1, <2>1 DEF Submit, QueueDeadlinePasses, Claim, TypeOK
  <2> QED BY <2>2 DEF Final
<1>2. CASE ExpireQueued(i) \/ RejectQueued(i)
  BY <1>2, EndKeepsEnded DEF ExpireQueued, RejectQueued
<1>3. CASE Cancel(i)
  <2>1. CASE End(i, "cancelled", NoHash, TRUE)
    BY <2>1, EndKeepsEnded
  <2>2. CASE job[i].state \in Assigned /\ job' = [job EXCEPT ![i].cancel = "requested"]
    BY <2>2 DEF Final, Assigned, TypeOK
  <2> QED BY <1>3, <2>1, <2>2 DEF Cancel
<1>4. CASE ClaimDenied(i) \/ RejectionOvertaken(i)
  BY <1>4 DEF ClaimDenied, RejectionOvertaken, rows, Final
<1> QED BY <1>1, <1>2, <1>3, <1>4

\* A start is decided for jobs that are being prepared.
LEMMA StartingKeepsEnded ==
  ASSUME TypeOK, Starting, NEW j \in Job, job[j].state = "ended"
  PROVE  Final(j)
<1> PICK i \in Job :
      \/ HandleAccepted(i) \/ GrantPermit(i) \/ DenyStart(i) \/ HandleStarted(i)
      \/ RecordStartRejection(i) \/ StartRejectionOvertaken(i)
  BY DEF Starting
<1>1. CASE HandleAccepted(i) \/ GrantPermit(i) \/ HandleStarted(i) \/ RecordStartRejection(i)
  <2>1. i # j
    BY <1>1 DEF HandleAccepted, GrantPermit, HandleStarted, RecordStartRejection, AwaitsStart,
                Assigned
  <2>2. job'[j] = job[j]
    BY <1>1, <2>1 DEF HandleAccepted, GrantPermit, HandleStarted, RecordStartRejection, TypeOK
  <2> QED BY <2>2 DEF Final
<1>2. CASE DenyStart(i) \/ StartRejectionOvertaken(i)
  BY <1>2 DEF DenyStart, StartRejectionOvertaken, rows, Final
<1> QED BY <1>1, <1>2

\* Only an upload and the retention touch an ended job: the one stores a
\* report under the digest it was announced with, the other expires it.
LEMMA SettlingKeepsEnded ==
  ASSUME TypeOK, Settling, NEW j \in Job, job[j].state = "ended"
  PROVE  Final(j)
<1>1. ASSUME NEW i \in Job, NEW v \in Verdict, NEW h \in Hash \cup {NoHash},
             HandleCompleted(i, v, h)
      PROVE  Final(j)
  <2> DEFINE stopped == v = "cancelled"
  <2>1. End(i, v, h, stopped)
    BY <1>1 DEF HandleCompleted
  <2> HIDE DEF stopped
  <2> QED BY <2>1, EndKeepsEnded
<1>2. ASSUME NEW i \in Job, HandleCancelConfirmed(i)
      PROVE  Final(j)
  <2> DEFINE kept == IF job[i].report = "archived" THEN job[i].hash ELSE NoHash
  <2>1. End(i, "cancelled", kept, TRUE)
    BY <1>2 DEF HandleCancelConfirmed
  <2> HIDE DEF kept
  <2> QED BY <2>1, EndKeepsEnded
<1>3. ASSUME NEW i \in Job, NEW h \in Hash, Upload(i, h)
      PROVE  Final(j)
  <2>1. CASE i = j
    BY <1>3, <2>1 DEF Upload, Final, TypeOK, Row
  <2>2. CASE i # j
    BY <1>3, <2>2 DEF Upload, Final, TypeOK
  <2> QED BY <2>1, <2>2
<1>4. ASSUME NEW i \in Job, NEW k \in CommandKind, Acknowledge(i, k)
      PROVE  Final(j)
  BY <1>4 DEF Acknowledge, Final
<1>5. ASSUME NEW i \in Job, Retire(i)
      PROVE  Final(j)
  BY <1>5 DEF Retire, Final, TypeOK, Row
<1> QED BY <1>1, <1>2, <1>3, <1>4, <1>5 DEF Settling

\* Administration only marks live rows.
LEMMA AdministrationKeepsEnded ==
  ASSUME TypeOK, Administration, NEW j \in Job, job[j].state = "ended"
  PROVE  Final(j)
<1>1. ASSUME NEW a \in Agent, Register(a)
      PROVE  Final(j)
  <2> DEFINE flag == job[j].orphaned \/ (job[j].agent = a /\ job[j].state \in Assigned)
  <2>1. job[j] \in Row /\ job'[j] = [job[j] EXCEPT !.orphaned = flag]
    BY <1>1 DEF Register, TypeOK
  <2> HIDE DEF flag
  <2> QED BY <2>1 DEF Row, Final
<1>2. ASSUME ChangePolicy
      PROVE  Final(j)
  <2> DEFINE flag == job[j].stale \/ job[j].state \in Live
  <2>1. job[j] \in Row /\ job'[j] = [job[j] EXCEPT !.stale = flag]
    BY <1>2 DEF ChangePolicy, TypeOK
  <2> HIDE DEF flag
  <2> QED BY <2>1 DEF Row, Final
<1>3. CASE UNCHANGED job
  BY <1>3 DEF Final
<1> QED
  BY <1>1, <1>2, <1>3 DEF Administration, SetIntake, SetLimit, Deny, Allow, ServerRestart, rows

-----------------------------------------------------------------------------
(***************************************************************************)
(* What a step may do to the jobs of a revoked agent                       *)
(***************************************************************************)

Mute(j) ==
  /\ receipt'[j] = receipt[j] /\ job'[j].permit = job[j].permit
  /\ job[j].state \in Assigned => job'[j].state = job[j].state
  /\ job'[j].report # job[j].report => job'[j].report = "expired"

Revoked(j) == job[j].state # "absent" /\ intake[job[j].agent] = "revoked"

\* A queued job may still end, by its user, its deadline or a denial; it has
\* neither permit nor report.
LEMMA QueueingIsMute ==
  ASSUME TypeOK, AllSound, Queueing, NEW j \in Job, Revoked(j)
  PROVE  Mute(j)
<1> PICK i \in Job :
      \/ \E a \in Agent : Submit(i, a)
      \/ QueueDeadlinePasses(i) \/ ExpireQueued(i) \/ Claim(i) \/ Cancel(i)
      \/ ClaimDenied(i) \/ RejectQueued(i) \/ RejectionOvertaken(i)
  BY DEF Queueing
<1>0. receipt' = receipt
  BY DEF Submit, QueueDeadlinePasses, ExpireQueued, Claim, Cancel, ClaimDenied,
         RejectQueued, RejectionOvertaken, rows
<1>1. CASE i # j
  <2>1. job'[j] = job[j]
    BY <1>1 DEF Submit, QueueDeadlinePasses, ExpireQueued, Claim, Cancel, ClaimDenied,
                RejectQueued, RejectionOvertaken, rows, End, TypeOK
  <2> QED BY <1>0, <2>1 DEF Mute
<1>2. ASSUME i = j, NEW c \in BOOLEAN, NEW v, job[j].state = "queued", End(j, v, NoHash, c)
      PROVE  Mute(j)
  <2>1. job[j].report = "none"
    BY <1>2 DEF AllSound, Sound, Untouched
  <2>2. job'[j].permit = job[j].permit /\ job'[j].report = "none"
    BY <1>2, <2>1 DEF End, TypeOK, Row
  <2> QED BY <1>0, <1>2, <2>1, <2>2 DEF Mute, Assigned
<1>3. CASE i = j /\ (ExpireQueued(j) \/ RejectQueued(j))
  BY <1>2, <1>3 DEF ExpireQueued, RejectQueued
<1>4. CASE i = j /\ Cancel(j)
  <2>1. CASE job[j].state = "queued" /\ End(j, "cancelled", NoHash, TRUE)
    BY <1>2, <1>4, <2>1
  <2>2. CASE job' = [job EXCEPT ![j].cancel = "requested"]
    BY <1>0, <2>2 DEF Mute, TypeOK, Row
  <2> QED BY <1>4, <2>1, <2>2 DEF Cancel
<1>5. CASE i = j /\ QueueDeadlinePasses(j)
  BY <1>0, <1>5 DEF Mute, QueueDeadlinePasses, TypeOK, Row
<1>6. CASE i = j /\ (ClaimDenied(j) \/ RejectionOvertaken(j))
  BY <1>0, <1>6 DEF Mute, ClaimDenied, RejectionOvertaken, rows
<1>7. CASE i = j /\ ((\E a \in Agent : Submit(j, a)) \/ Claim(j))
  BY <1>7 DEF Revoked, Submit, Claim, Usable
<1> QED BY <1>1, <1>3, <1>4, <1>5, <1>6, <1>7

\* A start decision takes the agent's identity anew in its own transaction.
LEMMA StartingIsMute ==
  ASSUME TypeOK, Starting, NEW j \in Job, Revoked(j)
  PROVE  Mute(j)
<1> PICK i \in Job :
      \/ HandleAccepted(i) \/ GrantPermit(i) \/ DenyStart(i) \/ HandleStarted(i)
      \/ RecordStartRejection(i) \/ StartRejectionOvertaken(i)
  BY DEF Starting
<1>1. CASE HandleAccepted(i) \/ GrantPermit(i) \/ HandleStarted(i) \/ RecordStartRejection(i)
  <2>1. Held(i)
    BY <1>1 DEF HandleAccepted, GrantPermit, HandleStarted, RecordStartRejection, AwaitsStart
  <2>2. i # j
    BY <2>1 DEF Held, Revoked
  <2>3. job'[j] = job[j] /\ receipt'[j] = receipt[j]
    BY <1>1, <2>2 DEF HandleAccepted, GrantPermit, HandleStarted, RecordStartRejection,
                      Receive, TypeOK
  <2> QED BY <2>3 DEF Mute
<1>2. CASE DenyStart(i) \/ StartRejectionOvertaken(i)
  BY <1>2 DEF DenyStart, StartRejectionOvertaken, rows, Mute
<1> QED BY <1>1, <1>2

\* So does every conclusion and upload; what is left is the retention.
LEMMA SettlingIsMute ==
  ASSUME TypeOK, Settling, NEW j \in Job, Revoked(j)
  PROVE  Mute(j)
<1>1. ASSUME NEW i \in Job, NEW v \in Verdict, NEW h \in Hash \cup {NoHash},
             HandleCompleted(i, v, h)
      PROVE  Mute(j)
  <2>1. i # j
    BY <1>1 DEF HandleCompleted, Held, Revoked
  <2>2. job'[j] = job[j] /\ receipt'[j] = receipt[j]
    BY <1>1, <2>1 DEF HandleCompleted, End, Receive, TypeOK
  <2> QED BY <2>2 DEF Mute
<1>2. ASSUME NEW i \in Job, HandleCancelConfirmed(i)
      PROVE  Mute(j)
  <2>1. i # j
    BY <1>2 DEF HandleCancelConfirmed, Held, Revoked
  <2>2. job'[j] = job[j] /\ receipt'[j] = receipt[j]
    BY <1>2, <2>1 DEF HandleCancelConfirmed, End, Receive, TypeOK
  <2> QED BY <2>2 DEF Mute
<1>3. ASSUME NEW i \in Job, NEW h \in Hash, Upload(i, h)
      PROVE  Mute(j)
  <2>1. i # j
    BY <1>3 DEF Upload, Held, Revoked
  <2> QED BY <1>3, <2>1 DEF Upload, Mute, TypeOK
<1>4. ASSUME NEW i \in Job, NEW k \in CommandKind, Acknowledge(i, k)
      PROVE  Mute(j)
  BY <1>4 DEF Acknowledge, Mute
<1>5. ASSUME NEW i \in Job, Retire(i)
      PROVE  Mute(j)
  BY <1>5 DEF Retire, Mute, TypeOK, Row
<1> QED BY <1>1, <1>2, <1>3, <1>4, <1>5 DEF Settling

\* Administration only marks rows.
LEMMA AdministrationIsMute ==
  ASSUME TypeOK, Administration, NEW j \in Job
  PROVE  Mute(j)
<1>1. ASSUME NEW a \in Agent, Register(a)
      PROVE  Mute(j)
  <2> DEFINE flag == job[j].orphaned \/ (job[j].agent = a /\ job[j].state \in Assigned)
  <2>1. /\ job[j] \in Row /\ job'[j] = [job[j] EXCEPT !.orphaned = flag]
        /\ receipt' = receipt
    BY <1>1 DEF Register, TypeOK
  <2> HIDE DEF flag
  <2> QED BY <2>1 DEF Row, Mute
<1>2. ASSUME ChangePolicy
      PROVE  Mute(j)
  <2> DEFINE flag == job[j].stale \/ job[j].state \in Live
  <2>1. /\ job[j] \in Row /\ job'[j] = [job[j] EXCEPT !.stale = flag]
        /\ receipt' = receipt
    BY <1>2 DEF ChangePolicy, TypeOK
  <2> HIDE DEF flag
  <2> QED BY <2>1 DEF Row, Mute
<1>3. CASE UNCHANGED <<job, receipt>>
  BY <1>3 DEF Mute
<1> QED
  BY <1>1, <1>2, <1>3 DEF Administration, SetIntake, SetLimit, Deny, Allow, ServerRestart, rows

-----------------------------------------------------------------------------
(***************************************************************************)
(* Who takes a slot                                                        *)
(***************************************************************************)

\* No job comes to be assigned, and none moves to another agent.
NoneAssigned ==
  \A j \in Job : job'[j].state \in Assigned =>
    job[j].state \in Assigned /\ job'[j].agent = job[j].agent

WithinLimit(a) ==
  Cardinality(Occupied(a)') > Cardinality(Occupied(a)) => Cardinality(Occupied(a)') <= limit[a]

\* Then no agent has more than before.
LEMMA NoneAssignedWithinLimit ==
  ASSUME NoneAssigned, NEW a \in Agent
  PROVE  WithinLimit(a)
<1>1. Occupied(a)' \subseteq Occupied(a) /\ IsFiniteSet(Occupied(a))
  BY JobAssumption, FS_Subset DEF NoneAssigned, Occupied
<1>2. /\ Cardinality(Occupied(a)') <= Cardinality(Occupied(a))
      /\ Cardinality(Occupied(a)') \in Nat /\ Cardinality(Occupied(a)) \in Nat
  BY <1>1, FS_Subset, FS_CardinalityType
<1> QED BY <1>2 DEF WithinLimit

\* A claim counts the slots and takes one under the same lock.
LEMMA ClaimWithinLimit ==
  ASSUME TypeOK, NEW j \in Job, Claim(j), NEW a \in Agent
  PROVE  WithinLimit(a)
<1>1. (\A i \in Job : i # j => job'[i] = job[i]) /\ job'[j].agent = job[j].agent
  BY DEF Claim, TypeOK, Row
<1>2. IsFiniteSet(Occupied(a)) /\ Cardinality(Occupied(a)) \in Nat /\ limit[a] \in Nat
  BY JobAssumption, CapacityAssumption, FS_Subset, FS_CardinalityType DEF Occupied, TypeOK
<1>3. CASE a = job[j].agent
  <2>1. Occupied(a)' \subseteq Occupied(a) \cup {j}
    BY <1>1 DEF Occupied
  <2>2. /\ IsFiniteSet(Occupied(a) \cup {j}) /\ Cardinality(Occupied(a) \cup {j}) \in Nat
        /\ Cardinality(Occupied(a) \cup {j}) <= Cardinality(Occupied(a)) + 1
    BY <1>2, OneMore
  <2>3. /\ Cardinality(Occupied(a)') <= Cardinality(Occupied(a) \cup {j})
        /\ Cardinality(Occupied(a)') \in Nat
    BY <2>1, <2>2, FS_Subset, FS_CardinalityType
  <2>4. Cardinality(Occupied(a)) < limit[a]
    BY <1>3 DEF Claim
  <2> QED BY <1>2, <2>2, <2>3, <2>4 DEF WithinLimit
<1>4. CASE a # job[j].agent
  <2>1. Occupied(a)' = Occupied(a)
    BY <1>1, <1>4 DEF Occupied
  <2> QED BY <1>2, <2>1 DEF WithinLimit
<1> QED BY <1>3, <1>4

\* An end assigns nothing.
LEMMA EndAssignsNone ==
  ASSUME TypeOK, NEW j \in Job, NEW v, NEW h, NEW c, End(j, v, h, c)
  PROVE  NoneAssigned
<1>1. \A i \in Job : i # j => job'[i] = job[i]
  BY DEF End, TypeOK
<1>2. job'[j].state = "ended"
  BY DEF End, TypeOK, Row
<1> QED BY <1>1, <1>2 DEF NoneAssigned, Assigned

\* Of all steps only a claim assigns a job.
LEMMA OnlyClaimsAssign ==
  ASSUME TypeOK, Next
  PROVE  NoneAssigned \/ \E j \in Job : Claim(j)
<1>1. ASSUME NEW j \in Job, (\E a \in Agent : Submit(j, a)) \/ QueueDeadlinePasses(j)
      PROVE  NoneAssigned
  <2>1. \A i \in Job : i # j => job'[i] = job[i]
    BY <1>1 DEF Submit, QueueDeadlinePasses, TypeOK
  <2>2. CASE \E a \in Agent : Submit(j, a)
    <3>1. job'[j].state = "queued"
      BY <2>2 DEF Submit, TypeOK, Row
    <3> QED BY <2>1, <3>1 DEF NoneAssigned, Assigned
  <2>3. CASE QueueDeadlinePasses(j)
    <3>1. job'[j].state = job[j].state /\ job'[j].agent = job[j].agent
      BY <2>3 DEF QueueDeadlinePasses, TypeOK, Row
    <3> QED BY <2>1, <3>1 DEF NoneAssigned
  <2> QED BY <1>1, <2>2, <2>3
<1>2. ASSUME NEW j \in Job, ExpireQueued(j) \/ RejectQueued(j) \/ Cancel(j)
      PROVE  NoneAssigned
  <2>1. CASE job' = [job EXCEPT ![j].cancel = "requested"]
    BY <2>1 DEF NoneAssigned, TypeOK, Row
  <2>2. CASE \E v \in Verdict, c \in BOOLEAN : End(j, v, NoHash, c)
    BY <2>2, EndAssignsNone
  <2> QED BY <1>2, <2>1, <2>2 DEF ExpireQueued, RejectQueued, Cancel, Verdict
<1>3. ASSUME NEW j \in Job, HandleAccepted(j) \/ GrantPermit(j) \/ RecordStartRejection(j)
      PROVE  NoneAssigned
  <2>1. \A i \in Job : i # j => job'[i] = job[i]
    BY <1>3 DEF HandleAccepted, GrantPermit, RecordStartRejection, TypeOK
  <2>2. job'[j].state = job[j].state /\ job'[j].agent = job[j].agent
    BY <1>3 DEF HandleAccepted, GrantPermit, RecordStartRejection, TypeOK, Row
  <2> QED BY <2>1, <2>2 DEF NoneAssigned
<1>4. ASSUME NEW j \in Job, HandleStarted(j)
      PROVE  NoneAssigned
  BY <1>4 DEF HandleStarted, NoneAssigned, TypeOK, Row
<1>5. ASSUME NEW j \in Job, NEW v \in Verdict, NEW h \in Hash \cup {NoHash},
             HandleCompleted(j, v, h)
      PROVE  NoneAssigned
  <2> DEFINE stopped == v = "cancelled"
  <2>1. End(j, v, h, stopped)
    BY <1>5 DEF HandleCompleted
  <2> HIDE DEF stopped
  <2> QED BY <2>1, EndAssignsNone
<1>6. ASSUME NEW j \in Job, HandleCancelConfirmed(j)
      PROVE  NoneAssigned
  <2> DEFINE kept == IF job[j].report = "archived" THEN job[j].hash ELSE NoHash
  <2>1. End(j, "cancelled", kept, TRUE)
    BY <1>6 DEF HandleCancelConfirmed
  <2> HIDE DEF kept
  <2> QED BY <2>1, EndAssignsNone
<1>7. ASSUME NEW j \in Job, (\E h \in Hash : Upload(j, h)) \/ Retire(j)
      PROVE  NoneAssigned
  <2>1. \A i \in Job : i # j => job'[i] = job[i]
    BY <1>7 DEF Upload, Retire, TypeOK
  <2>2. job'[j].state = job[j].state /\ job'[j].agent = job[j].agent
    <3>1. CASE Retire(j)
      BY <3>1 DEF Retire, TypeOK, Row
    <3>2. ASSUME NEW h \in Hash, Upload(j, h)
          PROVE  job'[j].state = job[j].state /\ job'[j].agent = job[j].agent
      BY <3>2 DEF Upload, TypeOK, Row
    <3> QED BY <1>7, <3>1, <3>2
  <2> QED BY <2>1, <2>2 DEF NoneAssigned
<1>8. ASSUME NEW a \in Agent, Register(a)
      PROVE  NoneAssigned
  <2> SUFFICES ASSUME NEW j \in Job
               PROVE  job'[j].state = job[j].state /\ job'[j].agent = job[j].agent
    BY DEF NoneAssigned
  <2> DEFINE flag == job[j].orphaned \/ (job[j].agent = a /\ job[j].state \in Assigned)
  <2>1. job[j] \in Row /\ job'[j] = [job[j] EXCEPT !.orphaned = flag]
    BY <1>8 DEF Register, TypeOK
  <2> HIDE DEF flag
  <2> QED BY <2>1 DEF Row
<1>9. ASSUME ChangePolicy
      PROVE  NoneAssigned
  <2> SUFFICES ASSUME NEW j \in Job
               PROVE  job'[j].state = job[j].state /\ job'[j].agent = job[j].agent
    BY DEF NoneAssigned
  <2> DEFINE flag == job[j].stale \/ job[j].state \in Live
  <2>1. job[j] \in Row /\ job'[j] = [job[j] EXCEPT !.stale = flag]
    BY <1>9 DEF ChangePolicy, TypeOK
  <2> HIDE DEF flag
  <2> QED BY <2>1 DEF Row
<1>10. CASE UNCHANGED job
  BY <1>10 DEF NoneAssigned
<1>11. CASE Queueing
  BY <1>1, <1>2, <1>10, <1>11 DEF Queueing, ClaimDenied, RejectionOvertaken, rows
<1>12. CASE Starting
  BY <1>3, <1>4, <1>10, <1>12 DEF Starting, DenyStart, StartRejectionOvertaken, rows
<1>13. CASE Settling
  BY <1>5, <1>6, <1>7, <1>10, <1>13 DEF Settling, Acknowledge
<1>14. CASE Administration
  BY <1>8, <1>9, <1>10, <1>14 DEF Administration, SetIntake, SetLimit, Deny, Allow,
                                  ServerRestart, rows
<1> QED BY <1>11, <1>12, <1>13, <1>14 DEF Next

-----------------------------------------------------------------------------
(***************************************************************************)
(* The theorems                                                            *)
(***************************************************************************)

\* No job has been submitted yet.
LEMMA InitInv == Init => Inv
<1> SUFFICES ASSUME Init PROVE Inv
  OBVIOUS
<1>1. TypeOK
  BY JobAssumption, AgentAssumption DEF Init, TypeOK, NoRow, Row, Live, Assigned
<1>2. AllSound
  BY DEF Init, NoRow, AllSound, Sound, Untouched, Placed, Over, Decided, Stored, Earned,
         Assigned, Conclusive
<1>3. ReservationsFit
  <2> SUFFICES ASSUME NEW a \in Agent
               PROVE  Cardinality(ResultsHeld(a)) = 0 /\ Cardinality(InputsHeld(a)) = 0
    BY CapacityAssumption DEF ReservationsFit
  <2>1. ResultsHeld(a) = {} /\ InputsHeld(a) = {}
    BY DEF Init, NoRow, ResultsHeld, InputsHeld
  <2> QED BY <2>1, FS_EmptySet
<1> QED BY <1>1, <1>2, <1>3 DEF Inv

\* Every step keeps the invariant.
LEMMA NextInv == Inv /\ [Next]_vars => Inv'
<1> SUFFICES ASSUME Inv, [Next]_vars PROVE Inv'
  OBVIOUS
<1>1. CASE Next
  <2>1. RowsTyped /\ OthersTyped /\ AllSound /\ ReservationsFit /\ TypeOK
    BY TypeSplits DEF Inv
  <2>2. RowsTyped' /\ AllSound'
    BY <1>1, <2>1, QueueingSound, StartingSound, SettlingSound, AdministrationSound
       DEF Next, OthersTyped
  <2>3. OthersTyped'
    BY <1>1, <2>1, OthersKeepType
  <2>4. TypeOK'
    BY <2>2, <2>3 DEF TypeOK, RowsTyped, OthersTyped, Box
  <2>5. ReservationsFit'
    BY <1>1, <2>1, QueueingFits, StartingFits, SettlingFits, AdministrationFits DEF Next
  <2> QED BY <2>2, <2>4, <2>5 DEF Inv
<1>2. CASE UNCHANGED vars
  BY <1>2 DEF vars, Inv, TypeOK, AllSound, ReservationsFit, ResultsHeld, InputsHeld
<1> QED BY <1>1, <1>2

\* The inductive invariant holds throughout (every transaction of JobService,
\* RunnerControlService and the retention cleanup).
THEOREM InductiveInvariant == Spec => []Inv
  BY InitInv, NextInv, PTL DEF Spec

\* Every row, outbox and receipt keeps its type.
THEOREM TypeCorrect == Spec => []TypeOK
<1>1. Inv => TypeOK  BY DEF Inv
<1> QED BY <1>1, InductiveInvariant, PTL

\* However many copies of a start request race with the recording of a
\* denial, no job gets both a permit and a refusal (start, recordStartRejection).
THEOREM StartIsDecidedOnce == Spec => []StartDecidedOnce
<1>1. Inv => StartDecidedOnce
  BY DEF Inv, AllSound, Sound, Decided, StartDecidedOnce
<1> QED BY <1>1, InductiveInvariant, PTL

\* A job that was assigned ends only on a message of its own agent: no expiry,
\* no late rejection and no cancel releases it (exchange, JobRepo.end).
THEOREM OnlyTheAgentReleases == Spec => []ReleaseIsConfirmed
<1>1. Inv => ReleaseIsConfirmed
  BY DEF Inv, AllSound, Sound, Over, ReleaseIsConfirmed
<1> QED BY <1>1, InductiveInvariant, PTL

\* An ended job has no pending command, no input reservation, and room for a
\* report only while that report is still to come (JobRepo.end, archive).
THEOREM EndSettles == Spec => []EndedIsSettled
<1>1. Inv => EndedIsSettled
  BY DEF Inv, AllSound, Sound, Over, Stored, EndedIsSettled
<1> QED BY <1>1, InductiveInvariant, PTL

\* No conclusion about a run without a permit, and cancelled is shown exactly
\* for what ended cancelled (completed, cancel).
THEOREM VerdictsAreEarned == Spec => []VerdictIsEarned
<1>1. Inv => VerdictIsEarned
  BY DEF Inv, AllSound, Sound, Earned, VerdictIsEarned
<1> QED BY <1>1, InductiveInvariant, PTL

\* The bytes an agent has promised never exceed its budget, for every number
\* of jobs and agents and every capacity (claim, end, archive).
THEOREM ReservationsAlwaysFit == Spec => []ReservationsFit
<1>1. Inv => ReservationsFit  BY DEF Inv
<1> QED BY <1>1, InductiveInvariant, PTL

\* A report that is still to come has its room, also after the execution was
\* released (JobRepo.end, archive).
THEOREM ReportsHaveRoom == Spec => []ReportHasRoom
<1>1. Inv => ReportHasRoom
  BY DEF Inv, AllSound, Sound, Stored, ReportHasRoom
<1> QED BY <1>1, InductiveInvariant, PTL

\* Nothing that comes late changes a conclusion: neither a message, an upload
\* of another report, a cancel, a rejection nor the retention (JobRepo.end,
\* archive, ExecutionRetentionCleanup.cleanup).
THEOREM EndsAreFinal == Spec => EndIsFinal
<1>1. TypeOK /\ [Next]_vars =>
        [\A j \in Job : job[j].state = "ended" => Final(j)]_vars
  BY QueueingKeepsEnded, StartingKeepsEnded, SettlingKeepsEnded, AdministrationKeepsEnded DEF Next
<1>2. [\A j \in Job : job[j].state = "ended" => Final(j)]_vars
        => [\A j \in Job : job[j].state = "ended" =>
             /\ job'[j].state = "ended"
             /\ job'[j].verdict = job[j].verdict /\ job'[j].cancel = job[j].cancel
             /\ job[j].hash # NoHash => job'[j].hash = job[j].hash
             /\ job[j].report = "expired" => job'[j].report = "expired"
             /\ job[j].report = "archived" => job'[j].report \in {"archived", "expired"}]_vars
  BY DEF Final
<1> QED BY <1>1, <1>2, TypeCorrect, PTL DEF Spec, EndIsFinal

\* Whatever is under way when an agent is revoked, its jobs are neither
\* started, concluded nor archived afterwards (lockAssignment, requireUsable).
THEOREM RevokedAgentsAreMute == Spec => RevokedAgentIsMute
<1>1. Inv /\ [Next]_vars => [\A j \in Job : Revoked(j) => Mute(j)]_vars
  BY QueueingIsMute, StartingIsMute, SettlingIsMute, AdministrationIsMute DEF Next, Inv
<1>2. [\A j \in Job : Revoked(j) => Mute(j)]_vars
        => [\A j \in Job : job[j].state # "absent" /\ intake[job[j].agent] = "revoked" =>
             /\ receipt'[j] = receipt[j] /\ job'[j].permit = job[j].permit
             /\ job[j].state \in Assigned => job'[j].state = job[j].state
             /\ job'[j].report # job[j].report => job'[j].report = "expired"]_vars
  BY DEF Revoked, Mute
<1> QED BY <1>1, <1>2, InductiveInvariant, PTL DEF Spec, RevokedAgentIsMute

\* An agent is handed no job beyond the limit in force at that instant, for
\* any number of exchanges that claim for it (claim, occupied).
THEOREM ClaimsRespectLimits == Spec => ClaimRespectsLimit
<1>1. TypeOK /\ [Next]_vars => [\A a \in Agent : WithinLimit(a)]_vars
  BY OnlyClaimsAssign, NoneAssignedWithinLimit, ClaimWithinLimit
<1>2. [\A a \in Agent : WithinLimit(a)]_vars
        => [\A a \in Agent :
             Cardinality(Occupied(a)') > Cardinality(Occupied(a))
               => Cardinality(Occupied(a)') <= limit[a]]_vars
  BY DEF WithinLimit
<1> QED BY <1>1, <1>2, TypeCorrect, PTL DEF Spec, ClaimRespectsLimit
=============================================================================
