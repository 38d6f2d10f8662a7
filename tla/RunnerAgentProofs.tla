-------------------------- MODULE RunnerAgentProofs --------------------------
(***************************************************************************)
(* What holds of the runner agent for every set of executions and every    *)
(* number of slots, report budgets and stops.                              *)
(*                                                                         *)
(* CallSound says of one execution how its call, its intent in the ledger, its *)
(* worker and its place in the queue fit together; the properties of the   *)
(* agent are read off it.  A step writes the row of one execution, except  *)
(* for the pump, the shutdown, a stop and a restart, which have a lemma of *)
(* their own.  The slots are counted apart: the reports an agent owes are  *)
(* counted by what the ledger says (Owed), because a crash empties the     *)
(* calls and the restart that follows brings their reports back.           *)
(***************************************************************************)
EXTENDS RunnerAgent, FiniteSetTheorems, SequenceTheorems, TLAPS

Started == {"starting", "announced", "launched", "ending"}

\* What is open is in the queue or in the hands of a call, and not in both;
\* a stopped process has neither.
Tended(c, intent, queued, m) ==
  /\ intent.known /\ ~intent.settled /\ m # "down" => c.phase # "none" \/ queued
  /\ c.phase # "none" \/ queued => intent.known /\ ~intent.settled /\ m # "down"
  /\ ~(c.phase # "none" /\ queued)
  /\ queued => ~intent.budget

\* What the ledger says of the start is true of the worker and of Core.
Truthful(intent, w, ran) ==
  /\ ran \in {0, 1}
  /\ intent.fact = "not-started" => ran = 0 /\ w \notin {"invoked", "business"}
  /\ intent.fact = "started" => ran = 1
  /\ w = "invoked" => ran = 0
  /\ w = "business" => ran = 1

\* A worker belongs to a call that has its permit, or to a process that died.
Employed(c, intent, w, queued, m) ==
  /\ w # "none" => intent.known /\ ~intent.settled
  /\ w # "none" /\ m # "down" => c.phase \in Started
  /\ queued \/ ~intent.known => intent.fact = "not-started"
  /\ c.phase \in {"loading", "cleaning", "requested", "starting", "announced"}
       => intent.fact = "not-started"
  /\ c.phase \in {"launched", "ending"} => intent.fact # "not-started"

\* A conclusion is written with its report, once, and a business conclusion
\* only after the start was confirmed.
Concluded(c, intent) ==
  /\ intent.settled \/ intent.budget => intent.known
  /\ intent.settled <=> intent.verdict # "none"
  /\ intent.settled <=> intent.report # "none"
  /\ c.output # "none" => c.phase = "ending" /\ intent.fact = "started"
  /\ intent.verdict \in Conclusive => intent.fact = "started"

CallSound(c, intent, w, ran, queued, m) ==
  /\ Tended(c, intent, queued, m) /\ Truthful(intent, w, ran)
  /\ Employed(c, intent, w, queued, m) /\ Concluded(c, intent)

AllCallsSound == \A e \in Job : CallSound(call[e], ledger[e], worker[e], runs[e], InQueue(e), mode)

\* No execution waits in the queue twice.
QueuedOnce == \A i, k \in 1..Len(queue) : queue[i] = queue[k] => i = k

\* Known executions are finitely many, the reports owed fit the budget, the
\* calls fit the slots, and a process that is closing has a stop left.
Known == {e \in Job : ledger[e].known}
Owed == {e \in Job : ledger[e].budget /\ ledger[e].report # "archived"}
Counted ==
  /\ IsFiniteSet(Known) /\ Cardinality(Owed) <= ResultSlots /\ Cardinality(HeldSlots) <= MaxSlots
  /\ mode = "closing" => stops < MaxStops

\* The inductive invariant.
AgentInv == AgentTypeOK /\ AllCallsSound /\ QueuedOnce /\ Counted
-----------------------------------------------------------------------------
(***************************************************************************)
(* Steps that write the row of one execution                               *)
(***************************************************************************)

WorkerState == {"none", "booting", "ready", "invoked", "business"}

\* Counts that can only become smaller stay within their bounds.
LEMMA CountsShrink ==
  ASSUME AgentInv, Known' = Known, Owed' \subseteq Owed, HeldSlots' \subseteq HeldSlots,
         mode' = "closing" => stops' < MaxStops
  PROVE  Counted'
<1>1. Owed \subseteq Known /\ HeldSlots \subseteq Known
  BY DEF AgentInv, AllCallsSound, CallSound, Tended, Concluded, Owed, Known, HeldSlots, Active
<1>2. IsFiniteSet(Owed) /\ IsFiniteSet(HeldSlots)
  BY <1>1, FS_Subset DEF AgentInv, Counted
<1>3. /\ Cardinality(Owed') \in Nat /\ Cardinality(Owed) \in Nat
      /\ Cardinality(Owed') <= Cardinality(Owed)
      /\ Cardinality(HeldSlots') \in Nat /\ Cardinality(HeldSlots) \in Nat
      /\ Cardinality(HeldSlots') <= Cardinality(HeldSlots)
  BY <1>2, FS_Subset, FS_CardinalityType
<1> QED BY <1>3, AgentLimits DEF AgentInv, Counted

\* If the row a step writes is sound, owes no more and holds no slot it did not
\* hold before, the invariant is kept.
LEMMA RowStep ==
  ASSUME AgentInv, NEW e \in Job, NEW c \in Call, NEW intent \in Intent,
         NEW sent \in SUBSET MessageKind, NEW w \in WorkerState, NEW ran \in 0..2,
         call' = [call EXCEPT ![e] = c], ledger' = [ledger EXCEPT ![e] = intent],
         out' = [out EXCEPT ![e] = sent], worker' = [worker EXCEPT ![e] = w],
         runs' = [runs EXCEPT ![e] = ran],
         acks' \subseteq CommandKind \X Job, UNCHANGED <<mode, stops, queue>>,
         CallSound(c, intent, w, ran, InQueue(e), mode),
         intent.known = ledger[e].known,
         intent.budget /\ intent.report # "archived" =>
           ledger[e].budget /\ ledger[e].report # "archived",
         c.phase # "none" => Active(e)
  PROVE  AgentInv'
<1>1. AgentTypeOK'
  BY DEF AgentInv, AgentTypeOK, WorkerState
<1>2. /\ \A x \in Job : InQueue(x)' = InQueue(x)
      /\ \A x \in Job : x # e => /\ call'[x] = call[x] /\ ledger'[x] = ledger[x]
                                /\ worker'[x] = worker[x] /\ runs'[x] = runs[x]
      /\ call'[e] = c /\ ledger'[e] = intent /\ worker'[e] = w /\ runs'[e] = ran
  BY DEF InQueue, AgentInv, AgentTypeOK
<1>3. AllCallsSound'
  BY <1>2 DEF AllCallsSound, AgentInv
<1>4. QueuedOnce'
  BY DEF AgentInv, QueuedOnce
<1>5. Known' = Known /\ Owed' \subseteq Owed /\ HeldSlots' \subseteq HeldSlots
  BY <1>2 DEF Known, Owed, HeldSlots, Active
<1>6. Counted'
  BY <1>5, CountsShrink DEF AgentInv, Counted
<1> QED BY <1>1, <1>3, <1>4, <1>6 DEF AgentInv

\* An intent that is settled for good, once its call and its worker are gone.
LEMMA SettledSound ==
  ASSUME NEW c \in Call, NEW intent \in Intent, NEW ran \in 0..2, NEW q, NEW m,
         NEW w \in WorkerState, CallSound(c, intent, w, ran, q, m),
         intent.known, ~intent.settled, NEW v \in Verdict,
         v \in Conclusive => intent.fact = "started"
  PROVE  /\ Settled(intent, v) \in Intent
         /\ Settled(intent, v).known = intent.known
         /\ Settled(intent, v).budget = intent.budget
         /\ Settled(intent, v).report = "pending" /\ intent.report = "none"
         /\ CallSound(NoCall, Settled(intent, v), "none", ran, FALSE, m)
<1> DEFINE new == Settled(intent, v)
<1>1. /\ new \in Intent /\ new.known = intent.known /\ new.budget = intent.budget
      /\ new.fact = intent.fact /\ new.settled /\ new.verdict = v /\ new.report = "pending"
  BY DEF Settled, Intent
<1>2. /\ NoCall \in Call /\ NoCall.phase = "none" /\ NoCall.output = "none"
  BY DEF NoCall, Call, Phase
<1>3. intent.report = "none" /\ v # "none"
  BY DEF CallSound, Concluded, Verdict
<1>4. CallSound(NoCall, new, "none", ran, FALSE, m)
  <2> HIDE DEF new
  <2> QED BY <1>1, <1>2, <1>3 DEF CallSound, Tended, Truthful, Employed, Concluded, Started
<1> QED BY <1>1, <1>3, <1>4

\* Finishing a call whose worker has left keeps the invariant.
LEMMA FinishStep ==
  ASSUME AgentInv, NEW e \in Job, NEW v \in Verdict, Finish(e, v), Active(e), worker[e] = "none",
         v \in Conclusive => ledger[e].fact = "started",
         acks' \subseteq CommandKind \X Job, UNCHANGED <<mode, stops, queue, worker, runs>>
  PROVE  AgentInv'
<1>1. /\ call[e] \in Call /\ ledger[e] \in Intent /\ runs[e] \in 0..2 /\ out[e] \in SUBSET MessageKind
      /\ worker[e] \in WorkerState
      /\ CallSound(call[e], ledger[e], worker[e], runs[e], InQueue(e), mode)
  BY DEF AgentInv, AgentTypeOK, AllCallsSound, WorkerState
<1>2. ledger[e].known /\ ~ledger[e].settled /\ InQueue(e) = FALSE
  BY <1>1 DEF CallSound, Tended, Active, InQueue
<1> DEFINE new == Settled(ledger[e], v)
<1>3. /\ new \in Intent /\ new.known = ledger[e].known /\ new.budget = ledger[e].budget
      /\ new.report = "pending" /\ ledger[e].report = "none"
      /\ CallSound(NoCall, new, "none", runs[e], FALSE, mode)
  BY <1>1, <1>2, SettledSound
<1>4. /\ NoCall \in Call /\ NoCall.phase = "none"
  BY DEF NoCall, Call, Phase
<1>5. /\ call' = [call EXCEPT ![e] = NoCall] /\ ledger' = [ledger EXCEPT ![e] = new]
      /\ out' = [out EXCEPT ![e] = out[e] \cup {"completed"}]
      /\ worker' = [worker EXCEPT ![e] = "none"] /\ runs' = [runs EXCEPT ![e] = runs[e]]
      /\ out[e] \cup {"completed"} \in SUBSET MessageKind
  BY <1>1 DEF Finish, AgentInv, AgentTypeOK, MessageKind
<1> HIDE DEF new
<1>6. CallSound(NoCall, new, "none", runs[e], InQueue(e), mode)
  BY <1>2, <1>3 DEF CallSound, Tended, Employed
<1>7. "none" \in WorkerState  BY DEF WorkerState
<1>8. /\ new.budget /\ new.report # "archived" =>
           ledger[e].budget /\ ledger[e].report # "archived"
      /\ NoCall.phase # "none" => Active(e)
      /\ UNCHANGED <<mode, stops, queue>>
  BY <1>3, <1>4
<1> QED
  <2> HIDE DEF WorkerState
  <2> QED BY <1>1, <1>3, <1>4, <1>5, <1>6, <1>7, <1>8, RowStep

\* What the invariant says of the row of one execution.
LEMMA RowFacts ==
  ASSUME AgentInv, NEW e \in Job
  PROVE  /\ call[e] \in Call /\ ledger[e] \in Intent /\ out[e] \in SUBSET MessageKind
         /\ worker[e] \in WorkerState /\ runs[e] \in 0..2
         /\ CallSound(call[e], ledger[e], worker[e], runs[e], InQueue(e), mode)
         /\ Active(e) => ledger[e].known /\ ~ledger[e].settled /\ ~InQueue(e) /\ mode # "down"
         /\ InQueue(e) => ledger[e].known /\ ~ledger[e].settled /\ ~Active(e)
                          /\ worker[e] = "none" /\ ~ledger[e].budget
         /\ acks \subseteq CommandKind \X Job
<1>1. /\ call[e] \in Call /\ ledger[e] \in Intent /\ out[e] \in SUBSET MessageKind
      /\ worker[e] \in WorkerState /\ runs[e] \in 0..2 /\ acks \subseteq CommandKind \X Job
      /\ CallSound(call[e], ledger[e], worker[e], runs[e], InQueue(e), mode)
  BY DEF AgentInv, AgentTypeOK, AllCallsSound, WorkerState
<1>2. /\ Active(e) => ledger[e].known /\ ~ledger[e].settled /\ ~InQueue(e) /\ mode # "down"
      /\ InQueue(e) => ledger[e].known /\ ~ledger[e].settled /\ ~Active(e)
                       /\ worker[e] = "none" /\ ~ledger[e].budget
  BY <1>1 DEF CallSound, Tended, Employed, Active, Started
<1> QED BY <1>1, <1>2

\* The step of a call that takes the permit it waits for.
PermitUsed(e) ==
  /\ call[e].phase = "requested"
  /\ call' = [call EXCEPT ![e].phase = "starting"]
  /\ worker' = [worker EXCEPT ![e] = "booting"]
  /\ acks' \subseteq CommandKind \X Job
  /\ UNCHANGED <<mode, stops, queue, durable, runs>>

\* A report that leaves the agent, before anything is pumped.
ReportLeaves(e) ==
  /\ Reported(e)
  /\ ledger' = [ledger EXCEPT ![e].report = "archived"]
  /\ UNCHANGED <<mode, stops, call, queue, acks, out, worker, runs>>

\* A receipt takes the message out of the outbox.
LEMMA MessageConfirmedStep ==
  ASSUME AgentInv, NEW e \in Job, NEW k \in MessageKind, MessageConfirmed(e, k)
  PROVE  AgentInv'
<1> DEFINE c == call[e]
           intent == ledger[e]
<1>1. /\ call[e] \in Call /\ ledger[e] \in Intent /\ out[e] \in SUBSET MessageKind
      /\ worker[e] \in WorkerState /\ runs[e] \in 0..2 /\ acks \subseteq CommandKind \X Job
      /\ CallSound(call[e], ledger[e], worker[e], runs[e], InQueue(e), mode)
  BY RowFacts
<1>2. MessageConfirmed(e, k)
  BY DEF MessageConfirmed
<1>3. /\ c \in Call /\ intent \in Intent /\ worker[e] \in WorkerState
      /\ c = call[e]
      /\ intent = ledger[e]
  BY <1>1, <1>2 DEF Call, Phase, Intent, WorkerState, Conclusive
<1>4. /\ call' = [call EXCEPT ![e] = c] /\ ledger' = [ledger EXCEPT ![e] = intent]
      /\ out' = [out EXCEPT ![e] = out[e] \ {k}] /\ worker' = [worker EXCEPT ![e] = worker[e]]
      /\ runs' = [runs EXCEPT ![e] = runs[e]] /\ UNCHANGED <<mode, stops, queue>>
      /\ acks' \subseteq CommandKind \X Job /\ (out[e] \ {k}) \in SUBSET MessageKind /\ runs[e] \in 0..2
  BY <1>1, <1>2
    DEF MessageConfirmed, AgentInv, AgentTypeOK, AgentSame, durable, volatile, MessageKind,
        CommandKind
<1>5. CallSound(c, intent, worker[e], runs[e], InQueue(e), mode)
  <2> HIDE DEF c, intent
  <2> QED BY <1>1, <1>2, <1>3
    DEF CallSound, Tended, Truthful, Employed, Concluded, Started, WorkerState, Conclusive,
        Active
<1>6. /\ intent.known = ledger[e].known /\ (c.phase # "none" => Active(e))
      /\ intent.budget /\ intent.report # "archived" =>
           ledger[e].budget /\ ledger[e].report # "archived"
  <2> HIDE DEF c, intent
  <2> QED BY <1>2, <1>3 DEF Active
<1> QED
  <2> HIDE DEF c, intent, WorkerState
  <2> QED BY <1>1, <1>3, <1>4, <1>5, <1>6, RowStep

\* A call that does not wait for its permit only notes that it was aborted.
LEMMA AbortStep ==
  ASSUME AgentInv, NEW e \in Job, NEW aborted \in Call, aborted.phase = call[e].phase,
         aborted.output = call[e].output, Active(e), call[e].phase # "requested",
         Abort(e, aborted), acks' \subseteq CommandKind \X Job, UNCHANGED <<mode, stops, queue, worker, runs>>
  PROVE  AgentInv'
<1> DEFINE c == aborted
           intent == ledger[e]
<1>1. /\ call[e] \in Call /\ ledger[e] \in Intent /\ out[e] \in SUBSET MessageKind
      /\ worker[e] \in WorkerState /\ runs[e] \in 0..2 /\ acks \subseteq CommandKind \X Job
      /\ CallSound(call[e], ledger[e], worker[e], runs[e], InQueue(e), mode)
  BY RowFacts
<1>2. /\ aborted.phase = call[e].phase /\ aborted.output = call[e].output
      /\ call[e].phase # "requested" /\ Abort(e, aborted) /\ Active(e)
  BY DEF Abort
<1>3. /\ c \in Call /\ intent \in Intent /\ worker[e] \in WorkerState
      /\ c.phase = call[e].phase /\ c.output = call[e].output
      /\ intent = ledger[e]
  BY <1>1, <1>2 DEF Call, Phase, Intent, WorkerState, Conclusive
<1>4. /\ call' = [call EXCEPT ![e] = c] /\ ledger' = [ledger EXCEPT ![e] = intent]
      /\ out' = [out EXCEPT ![e] = out[e]] /\ worker' = [worker EXCEPT ![e] = worker[e]]
      /\ runs' = [runs EXCEPT ![e] = runs[e]] /\ UNCHANGED <<mode, stops, queue>>
      /\ acks' \subseteq CommandKind \X Job /\ out[e] \in SUBSET MessageKind /\ runs[e] \in 0..2
  BY <1>1, <1>2
    DEF Abort, AgentInv, AgentTypeOK, AgentSame, durable, volatile, MessageKind, CommandKind
<1>5. CallSound(c, intent, worker[e], runs[e], InQueue(e), mode)
  <2> HIDE DEF c, intent
  <2> QED BY <1>1, <1>2, <1>3
    DEF CallSound, Tended, Truthful, Employed, Concluded, Started, WorkerState, Conclusive,
        Active
<1>6. /\ intent.known = ledger[e].known /\ (c.phase # "none" => Active(e))
      /\ intent.budget /\ intent.report # "archived" =>
           ledger[e].budget /\ ledger[e].report # "archived"
  <2> HIDE DEF c, intent
  <2> QED BY <1>2, <1>3 DEF Active
<1> QED
  <2> HIDE DEF c, intent, WorkerState
  <2> QED BY <1>1, <1>3, <1>4, <1>5, <1>6, RowStep

\* A permit that is used starts the worker.
LEMMA PermitStep ==
  ASSUME AgentInv, NEW e \in Job, PermitUsed(e)
  PROVE  AgentInv'
<1> DEFINE c == [call[e] EXCEPT !.phase = "starting"]
           intent == ledger[e]
           w == "booting"
<1>1. /\ call[e] \in Call /\ ledger[e] \in Intent /\ out[e] \in SUBSET MessageKind
      /\ worker[e] \in WorkerState /\ runs[e] \in 0..2 /\ acks \subseteq CommandKind \X Job
      /\ CallSound(call[e], ledger[e], worker[e], runs[e], InQueue(e), mode)
  BY RowFacts
<1>2. call[e].phase = "requested" /\ Active(e)
  BY DEF PermitUsed, Active
<1>3. /\ c \in Call /\ intent \in Intent /\ w \in WorkerState
      /\ w = "booting"
      /\ c.phase = "starting" /\ c.output = call[e].output
      /\ intent = ledger[e]
  BY <1>1, <1>2 DEF Call, Phase, Intent, WorkerState, Conclusive
<1>4. /\ call' = [call EXCEPT ![e] = c] /\ ledger' = [ledger EXCEPT ![e] = intent]
      /\ out' = [out EXCEPT ![e] = out[e]] /\ worker' = [worker EXCEPT ![e] = w]
      /\ runs' = [runs EXCEPT ![e] = runs[e]] /\ UNCHANGED <<mode, stops, queue>>
      /\ acks' \subseteq CommandKind \X Job /\ out[e] \in SUBSET MessageKind /\ runs[e] \in 0..2
  BY <1>1, <1>2
    DEF PermitUsed, Active, AgentInv, AgentTypeOK, AgentSame, durable, volatile, MessageKind,
        CommandKind
<1>5. CallSound(c, intent, w, runs[e], InQueue(e), mode)
  <2> HIDE DEF c, intent, w
  <2> QED BY <1>1, <1>2, <1>3
    DEF CallSound, Tended, Truthful, Employed, Concluded, Started, WorkerState, Conclusive,
        Active
<1>6. /\ intent.known = ledger[e].known /\ (c.phase # "none" => Active(e))
      /\ intent.budget /\ intent.report # "archived" =>
           ledger[e].budget /\ ledger[e].report # "archived"
  <2> HIDE DEF c, intent
  <2> QED BY <1>2, <1>3 DEF Active
<1> QED
  <2> HIDE DEF c, intent, w, WorkerState
  <2> QED BY <1>1, <1>3, <1>4, <1>5, <1>6, RowStep

\* After the last look at the abort signal the call goes on.
LEMMA CheckPreparationStep ==
  ASSUME AgentInv, NEW e \in Job, CheckPreparation(e)
  PROVE  AgentInv'
<1> DEFINE c == [call[e] EXCEPT !.phase = "cleaning"]
           intent == ledger[e]
<1>1. /\ call[e] \in Call /\ ledger[e] \in Intent /\ out[e] \in SUBSET MessageKind
      /\ worker[e] \in WorkerState /\ runs[e] \in 0..2 /\ acks \subseteq CommandKind \X Job
      /\ CallSound(call[e], ledger[e], worker[e], runs[e], InQueue(e), mode)
  BY RowFacts
<1>2. call[e].phase = "loading"
  BY DEF CheckPreparation
<1>3. /\ c \in Call /\ intent \in Intent /\ worker[e] \in WorkerState
      /\ c.phase = "cleaning" /\ c.output = call[e].output
      /\ intent = ledger[e]
  BY <1>1, <1>2 DEF Call, Phase, Intent, WorkerState, Conclusive
<1>4. /\ call' = [call EXCEPT ![e] = c] /\ ledger' = [ledger EXCEPT ![e] = intent]
      /\ out' = [out EXCEPT ![e] = out[e]] /\ worker' = [worker EXCEPT ![e] = worker[e]]
      /\ runs' = [runs EXCEPT ![e] = runs[e]] /\ UNCHANGED <<mode, stops, queue>>
      /\ acks' \subseteq CommandKind \X Job /\ out[e] \in SUBSET MessageKind /\ runs[e] \in 0..2
  BY <1>1, <1>2
    DEF CheckPreparation, AgentInv, AgentTypeOK, AgentSame, durable, volatile, MessageKind,
        CommandKind
<1>5. CallSound(c, intent, worker[e], runs[e], InQueue(e), mode)
  <2> HIDE DEF c, intent
  <2> QED BY <1>1, <1>2, <1>3
    DEF CallSound, Tended, Truthful, Employed, Concluded, Started, WorkerState, Conclusive,
        Active
<1>6. /\ intent.known = ledger[e].known /\ (c.phase # "none" => Active(e))
      /\ intent.budget /\ intent.report # "archived" =>
           ledger[e].budget /\ ledger[e].report # "archived"
  <2> HIDE DEF c, intent
  <2> QED BY <1>2, <1>3 DEF Active
<1> QED
  <2> HIDE DEF c, intent, WorkerState
  <2> QED BY <1>1, <1>3, <1>4, <1>5, <1>6, RowStep

\* The start is requested by a durable message.
LEMMA RequestStartStep ==
  ASSUME AgentInv, NEW e \in Job, RequestStart(e)
  PROVE  AgentInv'
<1> DEFINE c == [call[e] EXCEPT !.phase = "requested"]
           intent == ledger[e]
<1>1. /\ call[e] \in Call /\ ledger[e] \in Intent /\ out[e] \in SUBSET MessageKind
      /\ worker[e] \in WorkerState /\ runs[e] \in 0..2 /\ acks \subseteq CommandKind \X Job
      /\ CallSound(call[e], ledger[e], worker[e], runs[e], InQueue(e), mode)
  BY RowFacts
<1>2. call[e].phase = "cleaning"
  BY DEF RequestStart
<1>3. /\ c \in Call /\ intent \in Intent /\ worker[e] \in WorkerState
      /\ c.phase = "requested" /\ c.output = call[e].output
      /\ intent = ledger[e]
  BY <1>1, <1>2 DEF Call, Phase, Intent, WorkerState, Conclusive
<1>4. /\ call' = [call EXCEPT ![e] = c] /\ ledger' = [ledger EXCEPT ![e] = intent]
      /\ out' = [out EXCEPT ![e] = out[e] \cup {"start-request"}]
      /\ worker' = [worker EXCEPT ![e] = worker[e]]
      /\ runs' = [runs EXCEPT ![e] = runs[e]] /\ UNCHANGED <<mode, stops, queue>>
      /\ acks' \subseteq CommandKind \X Job
      /\ (out[e] \cup {"start-request"}) \in SUBSET MessageKind /\ runs[e] \in 0..2
  BY <1>1, <1>2
    DEF RequestStart, AgentInv, AgentTypeOK, AgentSame, durable, volatile, MessageKind,
        CommandKind
<1>5. CallSound(c, intent, worker[e], runs[e], InQueue(e), mode)
  <2> HIDE DEF c, intent
  <2> QED BY <1>1, <1>2, <1>3
    DEF CallSound, Tended, Truthful, Employed, Concluded, Started, WorkerState, Conclusive,
        Active
<1>6. /\ intent.known = ledger[e].known /\ (c.phase # "none" => Active(e))
      /\ intent.budget /\ intent.report # "archived" =>
           ledger[e].budget /\ ledger[e].report # "archived"
  <2> HIDE DEF c, intent
  <2> QED BY <1>2, <1>3 DEF Active
<1> QED
  <2> HIDE DEF c, intent, WorkerState
  <2> QED BY <1>1, <1>3, <1>4, <1>5, <1>6, RowStep

\* A worker that boots becomes ready, also without its supervisor.
LEMMA WorkerReadyStep ==
  ASSUME AgentInv, NEW e \in Job, WorkerReady(e)
  PROVE  AgentInv'
<1> DEFINE c == call[e]
           intent == ledger[e]
           w == "ready"
<1>1. /\ call[e] \in Call /\ ledger[e] \in Intent /\ out[e] \in SUBSET MessageKind
      /\ worker[e] \in WorkerState /\ runs[e] \in 0..2 /\ acks \subseteq CommandKind \X Job
      /\ CallSound(call[e], ledger[e], worker[e], runs[e], InQueue(e), mode)
  BY RowFacts
<1>2. worker[e] = "booting"
  BY DEF WorkerReady
<1>3. /\ c \in Call /\ intent \in Intent /\ w \in WorkerState
      /\ w = "ready"
      /\ c = call[e]
      /\ intent = ledger[e]
  BY <1>1, <1>2 DEF Call, Phase, Intent, WorkerState, Conclusive
<1>4. /\ call' = [call EXCEPT ![e] = c] /\ ledger' = [ledger EXCEPT ![e] = intent]
      /\ out' = [out EXCEPT ![e] = out[e]] /\ worker' = [worker EXCEPT ![e] = w]
      /\ runs' = [runs EXCEPT ![e] = runs[e]] /\ UNCHANGED <<mode, stops, queue>>
      /\ acks' \subseteq CommandKind \X Job /\ out[e] \in SUBSET MessageKind /\ runs[e] \in 0..2
  BY <1>1, <1>2
    DEF WorkerReady, AgentInv, AgentTypeOK, AgentSame, durable, volatile, MessageKind,
        CommandKind
<1>5. CallSound(c, intent, w, runs[e], InQueue(e), mode)
  <2> HIDE DEF c, intent, w
  <2> QED BY <1>1, <1>2, <1>3
    DEF CallSound, Tended, Truthful, Employed, Concluded, Started, WorkerState, Conclusive,
        Active
<1>6. /\ intent.known = ledger[e].known /\ (c.phase # "none" => Active(e))
      /\ intent.budget /\ intent.report # "archived" =>
           ledger[e].budget /\ ledger[e].report # "archived"
  <2> HIDE DEF c, intent
  <2> QED BY <1>2, <1>3 DEF Active
<1> QED
  <2> HIDE DEF c, intent, w, WorkerState
  <2> QED BY <1>1, <1>3, <1>4, <1>5, <1>6, RowStep

\* The start is announced while the worker waits.
LEMMA AnnounceStep ==
  ASSUME AgentInv, NEW e \in Job, Announce(e)
  PROVE  AgentInv'
<1> DEFINE c == [call[e] EXCEPT !.phase = "announced"]
           intent == ledger[e]
<1>1. /\ call[e] \in Call /\ ledger[e] \in Intent /\ out[e] \in SUBSET MessageKind
      /\ worker[e] \in WorkerState /\ runs[e] \in 0..2 /\ acks \subseteq CommandKind \X Job
      /\ CallSound(call[e], ledger[e], worker[e], runs[e], InQueue(e), mode)
  BY RowFacts
<1>2. call[e].phase = "starting" /\ worker[e] = "ready"
  BY DEF Announce
<1>3. /\ c \in Call /\ intent \in Intent /\ worker[e] \in WorkerState
      /\ c.phase = "announced" /\ c.output = call[e].output
      /\ intent = ledger[e]
  BY <1>1, <1>2 DEF Call, Phase, Intent, WorkerState, Conclusive
<1>4. /\ call' = [call EXCEPT ![e] = c] /\ ledger' = [ledger EXCEPT ![e] = intent]
      /\ out' = [out EXCEPT ![e] = out[e] \cup {"started"}]
      /\ worker' = [worker EXCEPT ![e] = worker[e]]
      /\ runs' = [runs EXCEPT ![e] = runs[e]] /\ UNCHANGED <<mode, stops, queue>>
      /\ acks' \subseteq CommandKind \X Job
      /\ (out[e] \cup {"started"}) \in SUBSET MessageKind /\ runs[e] \in 0..2
  BY <1>1, <1>2
    DEF Announce, AgentInv, AgentTypeOK, AgentSame, durable, volatile, MessageKind,
        CommandKind
<1>5. CallSound(c, intent, worker[e], runs[e], InQueue(e), mode)
  <2> HIDE DEF c, intent
  <2> QED BY <1>1, <1>2, <1>3
    DEF CallSound, Tended, Truthful, Employed, Concluded, Started, WorkerState, Conclusive,
        Active
<1>6. /\ intent.known = ledger[e].known /\ (c.phase # "none" => Active(e))
      /\ intent.budget /\ intent.report # "archived" =>
           ledger[e].budget /\ ledger[e].report # "archived"
  <2> HIDE DEF c, intent
  <2> QED BY <1>2, <1>3 DEF Active
<1> QED
  <2> HIDE DEF c, intent, WorkerState
  <2> QED BY <1>1, <1>3, <1>4, <1>5, <1>6, RowStep

\* From here on the ledger says that the business call may have happened.
LEMMA LaunchStep ==
  ASSUME AgentInv, NEW e \in Job, Launch(e)
  PROVE  AgentInv'
<1> DEFINE c == [call[e] EXCEPT !.phase = "launched"]
           intent == [ledger[e] EXCEPT !.fact = "uncertain"]
           w == IF worker[e] = "ready" THEN "invoked" ELSE worker[e]
<1>1. /\ call[e] \in Call /\ ledger[e] \in Intent /\ out[e] \in SUBSET MessageKind
      /\ worker[e] \in WorkerState /\ runs[e] \in 0..2 /\ acks \subseteq CommandKind \X Job
      /\ CallSound(call[e], ledger[e], worker[e], runs[e], InQueue(e), mode)
  BY RowFacts
<1>2. call[e].phase = "announced"
  BY DEF Launch
<1>3. /\ c \in Call /\ intent \in Intent /\ w \in WorkerState
      /\ c.phase = "launched" /\ c.output = call[e].output
      /\ w = "invoked" \/ (w = worker[e] /\ w # "ready")
      /\ w # "none" => worker[e] # "none"
      /\ intent.fact = "uncertain"
      /\ intent.known = ledger[e].known /\ intent.budget = ledger[e].budget
      /\ intent.settled = ledger[e].settled /\ intent.verdict = ledger[e].verdict
      /\ intent.report = ledger[e].report
  BY <1>1, <1>2 DEF Call, Phase, Intent, WorkerState, Conclusive
<1>4. /\ call' = [call EXCEPT ![e] = c] /\ ledger' = [ledger EXCEPT ![e] = intent]
      /\ out' = [out EXCEPT ![e] = out[e]] /\ worker' = [worker EXCEPT ![e] = w]
      /\ runs' = [runs EXCEPT ![e] = runs[e]] /\ UNCHANGED <<mode, stops, queue>>
      /\ acks' \subseteq CommandKind \X Job /\ out[e] \in SUBSET MessageKind /\ runs[e] \in 0..2
  BY <1>1, <1>2
    DEF Launch, AgentInv, AgentTypeOK, AgentSame, durable, volatile, MessageKind,
        CommandKind
<1>5. CallSound(c, intent, w, runs[e], InQueue(e), mode)
  <2> HIDE DEF c, intent, w
  <2> QED BY <1>1, <1>2, <1>3
    DEF CallSound, Tended, Truthful, Employed, Concluded, Started, WorkerState, Conclusive,
        Active
<1>6. /\ intent.known = ledger[e].known /\ (c.phase # "none" => Active(e))
      /\ intent.budget /\ intent.report # "archived" =>
           ledger[e].budget /\ ledger[e].report # "archived"
  <2> HIDE DEF c, intent
  <2> QED BY <1>2, <1>3 DEF Active
<1> QED
  <2> HIDE DEF c, intent, w, WorkerState
  <2> QED BY <1>1, <1>3, <1>4, <1>5, <1>6, RowStep

\* An invoked worker calls Core, once.
LEMMA BusinessStartStep ==
  ASSUME AgentInv, NEW e \in Job, BusinessStart(e)
  PROVE  AgentInv'
<1> DEFINE c == call[e]
           intent == ledger[e]
           w == "business"
<1>1. /\ call[e] \in Call /\ ledger[e] \in Intent /\ out[e] \in SUBSET MessageKind
      /\ worker[e] \in WorkerState /\ runs[e] \in 0..2 /\ acks \subseteq CommandKind \X Job
      /\ CallSound(call[e], ledger[e], worker[e], runs[e], InQueue(e), mode)
  BY RowFacts
<1>2. worker[e] = "invoked" /\ runs[e] = 0
  BY <1>1 DEF BusinessStart, CallSound, Truthful
<1>3. /\ c \in Call /\ intent \in Intent /\ w \in WorkerState
      /\ w = "business"
      /\ c = call[e]
      /\ intent = ledger[e]
  BY <1>1, <1>2 DEF Call, Phase, Intent, WorkerState, Conclusive
<1>4. /\ call' = [call EXCEPT ![e] = c] /\ ledger' = [ledger EXCEPT ![e] = intent]
      /\ out' = [out EXCEPT ![e] = out[e]] /\ worker' = [worker EXCEPT ![e] = w]
      /\ runs' = [runs EXCEPT ![e] = runs[e] + 1] /\ UNCHANGED <<mode, stops, queue>>
      /\ acks' \subseteq CommandKind \X Job /\ out[e] \in SUBSET MessageKind /\ (runs[e] + 1) \in 0..2
  BY <1>1, <1>2
    DEF BusinessStart, CallSound, Truthful, AgentInv, AgentTypeOK, AgentSame, durable,
        volatile, MessageKind, CommandKind
<1>5. CallSound(c, intent, w, runs[e] + 1, InQueue(e), mode)
  <2> HIDE DEF c, intent, w
  <2> QED BY <1>1, <1>2, <1>3
    DEF CallSound, Tended, Truthful, Employed, Concluded, Started, WorkerState, Conclusive,
        Active
<1>6. /\ intent.known = ledger[e].known /\ (c.phase # "none" => Active(e))
      /\ intent.budget /\ intent.report # "archived" =>
           ledger[e].budget /\ ledger[e].report # "archived"
  <2> HIDE DEF c, intent
  <2> QED BY <1>2, <1>3 DEF Active
<1> QED
  <2> HIDE DEF c, intent, w, WorkerState
  <2> QED BY <1>1, <1>3, <1>4, <1>5, <1>6, RowStep

\* The notice of a start that took place reaches the ledger.
LEMMA ConfirmStartStep ==
  ASSUME AgentInv, NEW e \in Job, ConfirmStart(e)
  PROVE  AgentInv'
<1> DEFINE c == call[e]
           intent == [ledger[e] EXCEPT !.fact = "started"]
<1>1. /\ call[e] \in Call /\ ledger[e] \in Intent /\ out[e] \in SUBSET MessageKind
      /\ worker[e] \in WorkerState /\ runs[e] \in 0..2 /\ acks \subseteq CommandKind \X Job
      /\ CallSound(call[e], ledger[e], worker[e], runs[e], InQueue(e), mode)
  BY RowFacts
<1>2. call[e].phase = "launched" /\ worker[e] = "business" /\ ledger[e].fact = "uncertain"
  BY DEF ConfirmStart
<1>3. /\ c \in Call /\ intent \in Intent /\ worker[e] \in WorkerState
      /\ c = call[e]
      /\ intent.fact = "started"
      /\ intent.known = ledger[e].known /\ intent.budget = ledger[e].budget
      /\ intent.settled = ledger[e].settled /\ intent.verdict = ledger[e].verdict
      /\ intent.report = ledger[e].report
  BY <1>1, <1>2 DEF Call, Phase, Intent, WorkerState, Conclusive
<1>4. /\ call' = [call EXCEPT ![e] = c] /\ ledger' = [ledger EXCEPT ![e] = intent]
      /\ out' = [out EXCEPT ![e] = out[e]] /\ worker' = [worker EXCEPT ![e] = worker[e]]
      /\ runs' = [runs EXCEPT ![e] = runs[e]] /\ UNCHANGED <<mode, stops, queue>>
      /\ acks' \subseteq CommandKind \X Job /\ out[e] \in SUBSET MessageKind /\ runs[e] \in 0..2
  BY <1>1, <1>2
    DEF ConfirmStart, AgentInv, AgentTypeOK, AgentSame, durable, volatile, MessageKind,
        CommandKind
<1>5. CallSound(c, intent, worker[e], runs[e], InQueue(e), mode)
  <2> HIDE DEF c, intent
  <2> QED BY <1>1, <1>2, <1>3
    DEF CallSound, Tended, Truthful, Employed, Concluded, Started, WorkerState, Conclusive,
        Active
<1>6. /\ intent.known = ledger[e].known /\ (c.phase # "none" => Active(e))
      /\ intent.budget /\ intent.report # "archived" =>
           ledger[e].budget /\ ledger[e].report # "archived"
  <2> HIDE DEF c, intent
  <2> QED BY <1>2, <1>3 DEF Active
<1> QED
  <2> HIDE DEF c, intent, WorkerState
  <2> QED BY <1>1, <1>3, <1>4, <1>5, <1>6, RowStep

\* A result with output comes from a start that was confirmed.
LEMMA WorkerDoneStep ==
  ASSUME AgentInv, NEW e \in Job, NEW output \in Conclusive \cup {"none"}, WorkerDone(e, output)
  PROVE  AgentInv'
<1> DEFINE c == [call[e] EXCEPT !.phase = "ending", !.output = output]
           intent == ledger[e]
<1>1. /\ call[e] \in Call /\ ledger[e] \in Intent /\ out[e] \in SUBSET MessageKind
      /\ worker[e] \in WorkerState /\ runs[e] \in 0..2 /\ acks \subseteq CommandKind \X Job
      /\ CallSound(call[e], ledger[e], worker[e], runs[e], InQueue(e), mode)
  BY RowFacts
<1>2. /\ call[e].phase = "launched"
      /\ output # "none" => ledger[e].fact = "started"
  BY DEF WorkerDone
<1>3. /\ c \in Call /\ intent \in Intent /\ worker[e] \in WorkerState
      /\ c.phase = "ending" /\ c.output = output
      /\ intent = ledger[e]
  BY <1>1, <1>2 DEF Call, Phase, Intent, WorkerState, Conclusive
<1>4. /\ call' = [call EXCEPT ![e] = c] /\ ledger' = [ledger EXCEPT ![e] = intent]
      /\ out' = [out EXCEPT ![e] = out[e]] /\ worker' = [worker EXCEPT ![e] = worker[e]]
      /\ runs' = [runs EXCEPT ![e] = runs[e]] /\ UNCHANGED <<mode, stops, queue>>
      /\ acks' \subseteq CommandKind \X Job /\ out[e] \in SUBSET MessageKind /\ runs[e] \in 0..2
  BY <1>1, <1>2
    DEF WorkerDone, AgentInv, AgentTypeOK, AgentSame, durable, volatile, MessageKind,
        CommandKind
<1>5. CallSound(c, intent, worker[e], runs[e], InQueue(e), mode)
  <2> HIDE DEF c, intent
  <2> QED BY <1>1, <1>2, <1>3
    DEF CallSound, Tended, Truthful, Employed, Concluded, Started, WorkerState, Conclusive,
        Active
<1>6. /\ intent.known = ledger[e].known /\ (c.phase # "none" => Active(e))
      /\ intent.budget /\ intent.report # "archived" =>
           ledger[e].budget /\ ledger[e].report # "archived"
  <2> HIDE DEF c, intent
  <2> QED BY <1>2, <1>3 DEF Active
<1> QED
  <2> HIDE DEF c, intent, WorkerState
  <2> QED BY <1>1, <1>3, <1>4, <1>5, <1>6, RowStep

\* A worker may leave at any time.
LEMMA WorkerExitStep ==
  ASSUME AgentInv, NEW e \in Job, WorkerExit(e)
  PROVE  AgentInv'
<1> DEFINE c == call[e]
           intent == ledger[e]
           w == "none"
<1>1. /\ call[e] \in Call /\ ledger[e] \in Intent /\ out[e] \in SUBSET MessageKind
      /\ worker[e] \in WorkerState /\ runs[e] \in 0..2 /\ acks \subseteq CommandKind \X Job
      /\ CallSound(call[e], ledger[e], worker[e], runs[e], InQueue(e), mode)
  BY RowFacts
<1>2. worker[e] # "none"
  BY DEF WorkerExit
<1>3. /\ c \in Call /\ intent \in Intent /\ w \in WorkerState
      /\ w = "none"
      /\ c = call[e]
      /\ intent = ledger[e]
  BY <1>1, <1>2 DEF Call, Phase, Intent, WorkerState, Conclusive
<1>4. /\ call' = [call EXCEPT ![e] = c] /\ ledger' = [ledger EXCEPT ![e] = intent]
      /\ out' = [out EXCEPT ![e] = out[e]] /\ worker' = [worker EXCEPT ![e] = w]
      /\ runs' = [runs EXCEPT ![e] = runs[e]] /\ UNCHANGED <<mode, stops, queue>>
      /\ acks' \subseteq CommandKind \X Job /\ out[e] \in SUBSET MessageKind /\ runs[e] \in 0..2
  BY <1>1, <1>2
    DEF WorkerExit, AgentInv, AgentTypeOK, AgentSame, durable, volatile, MessageKind,
        CommandKind
<1>5. CallSound(c, intent, w, runs[e], InQueue(e), mode)
  <2> HIDE DEF c, intent, w
  <2> QED BY <1>1, <1>2, <1>3
    DEF CallSound, Tended, Truthful, Employed, Concluded, Started, WorkerState, Conclusive,
        Active
<1>6. /\ intent.known = ledger[e].known /\ (c.phase # "none" => Active(e))
      /\ intent.budget /\ intent.report # "archived" =>
           ledger[e].budget /\ ledger[e].report # "archived"
  <2> HIDE DEF c, intent
  <2> QED BY <1>2, <1>3 DEF Active
<1> QED
  <2> HIDE DEF c, intent, w, WorkerState
  <2> QED BY <1>1, <1>3, <1>4, <1>5, <1>6, RowStep

\* A report that was archived is no longer owed.
LEMMA ArchivedStep ==
  ASSUME AgentInv, NEW e \in Job, ReportLeaves(e)
  PROVE  AgentInv'
<1> DEFINE c == call[e]
           intent == [ledger[e] EXCEPT !.report = "archived"]
<1>1. /\ call[e] \in Call /\ ledger[e] \in Intent /\ out[e] \in SUBSET MessageKind
      /\ worker[e] \in WorkerState /\ runs[e] \in 0..2 /\ acks \subseteq CommandKind \X Job
      /\ CallSound(call[e], ledger[e], worker[e], runs[e], InQueue(e), mode)
  BY RowFacts
<1>2. ledger[e].report = "pending"
  BY DEF ReportLeaves, Reported
<1>3. /\ c \in Call /\ intent \in Intent /\ worker[e] \in WorkerState
      /\ c = call[e]
      /\ intent.report = "archived"
      /\ intent.known = ledger[e].known /\ intent.budget = ledger[e].budget
      /\ intent.settled = ledger[e].settled /\ intent.verdict = ledger[e].verdict
      /\ intent.fact = ledger[e].fact
  BY <1>1, <1>2 DEF Call, Phase, Intent, WorkerState, Conclusive
<1>4. /\ call' = [call EXCEPT ![e] = c] /\ ledger' = [ledger EXCEPT ![e] = intent]
      /\ out' = [out EXCEPT ![e] = out[e]] /\ worker' = [worker EXCEPT ![e] = worker[e]]
      /\ runs' = [runs EXCEPT ![e] = runs[e]] /\ UNCHANGED <<mode, stops, queue>>
      /\ acks' \subseteq CommandKind \X Job /\ out[e] \in SUBSET MessageKind /\ runs[e] \in 0..2
  BY <1>1, <1>2
    DEF ReportLeaves, Reported, AgentInv, AgentTypeOK, AgentSame, durable, volatile,
        MessageKind, CommandKind
<1>5. CallSound(c, intent, worker[e], runs[e], InQueue(e), mode)
  <2> HIDE DEF c, intent
  <2> QED BY <1>1, <1>2, <1>3
    DEF CallSound, Tended, Truthful, Employed, Concluded, Started, WorkerState, Conclusive,
        Active
<1>6. /\ intent.known = ledger[e].known /\ (c.phase # "none" => Active(e))
      /\ intent.budget /\ intent.report # "archived" =>
           ledger[e].budget /\ ledger[e].report # "archived"
  <2> HIDE DEF c, intent
  <2> QED BY <1>2, <1>3 DEF Active
<1> QED
  <2> HIDE DEF c, intent, WorkerState
  <2> QED BY <1>1, <1>3, <1>4, <1>5, <1>6, RowStep

\* A report is promised only while the budget has room for it.
LEMMA ReserveStep ==
  ASSUME AgentInv, NEW e \in Job, Reserve(e)
  PROVE  AgentInv'
<1> DEFINE intent == [ledger[e] EXCEPT !.budget = TRUE]
<1>1. /\ ledger[e] \in Intent /\ call[e].phase = "loading"
      /\ ~ledger[e].budget /\ Cardinality(Results) < ResultSlots
      /\ ledger' = [ledger EXCEPT ![e] = intent]
      /\ UNCHANGED <<mode, stops, call, queue, acks, out, worker, runs>>
      /\ CallSound(call[e], ledger[e], worker[e], runs[e], InQueue(e), mode)
  BY RowFacts DEF Reserve, AgentSame
<1>2. /\ intent \in Intent /\ intent.known = ledger[e].known /\ intent.budget
      /\ intent.settled = ledger[e].settled /\ intent.verdict = ledger[e].verdict
      /\ intent.fact = ledger[e].fact /\ intent.report = ledger[e].report
  BY <1>1 DEF Intent
<1>3. CallSound(call[e], intent, worker[e], runs[e], InQueue(e), mode)
  <2> HIDE DEF intent
  <2> QED BY <1>1, <1>2 DEF CallSound, Tended, Truthful, Employed, Concluded
<1>4. AgentTypeOK'
  <2> HIDE DEF intent
  <2> QED BY <1>1, <1>2 DEF AgentInv, AgentTypeOK
<1>5. /\ \A x \in Job : InQueue(x)' = InQueue(x) /\ Active(x)' = Active(x)
      /\ \A x \in Job : x # e => ledger'[x] = ledger[x]
      /\ ledger'[e] = intent
  BY <1>1 DEF AgentInv, AgentTypeOK, InQueue, Active
<1>6. AllCallsSound' /\ QueuedOnce'
  <2> HIDE DEF intent
  <2> QED BY <1>1, <1>3, <1>5 DEF AgentInv, AllCallsSound, QueuedOnce
<1>7. /\ Known' = Known /\ HeldSlots' = HeldSlots
      /\ Owed' \subseteq Owed \cup {e}
  <2> HIDE DEF intent
  <2> QED BY <1>2, <1>5 DEF Known, HeldSlots, Owed
<1>8. Results = Owed
  <2>1. mode # "down"
    BY DEF Reserve
  <2>2. ASSUME NEW x \in Job
        PROVE  ledger[x].budget =>
                 (ledger[x].report # "archived" <=> Active(x) \/ Reported(x))
    <3>1. /\ ledger[x] \in Intent
          /\ CallSound(call[x], ledger[x], worker[x], runs[x], InQueue(x), mode)
      BY RowFacts
    <3>2. ledger[x].report \in {"none", "pending", "archived"}
      BY <3>1 DEF Intent
    <3> QED BY <2>1, <3>1, <3>2 DEF CallSound, Tended, Concluded, Active, Reported
  <2> QED BY <2>2 DEF Results, Owed
<1>9. Counted'
  <2>1. IsFiniteSet(Owed)
    <3>1. Owed \subseteq Known
      BY DEF AgentInv, AllCallsSound, CallSound, Concluded, Owed, Known
    <3> QED BY <3>1, FS_Subset DEF AgentInv, Counted
  <2>2. IsFiniteSet(Owed \cup {e}) /\ Cardinality(Owed \cup {e}) <= Cardinality(Owed) + 1
    <3>1. Cardinality(Owed) \in Nat
      BY <2>1, FS_CardinalityType
    <3> QED BY <2>1, <3>1, FS_AddElement
  <2>3. IsFiniteSet(Owed') /\ Cardinality(Owed') <= Cardinality(Owed \cup {e})
    BY <1>7, <2>2, FS_Subset
  <2>4. Cardinality(Owed) \in Nat /\ Cardinality(Owed') \in Nat /\ Cardinality(Owed \cup {e}) \in Nat
    BY <2>1, <2>2, <2>3, FS_CardinalityType
  <2>5. Cardinality(Owed') <= ResultSlots
    BY <1>1, <1>8, <2>2, <2>3, <2>4, AgentLimits
  <2> QED BY <1>1, <1>7, <2>5 DEF AgentInv, Counted
<1> QED BY <1>4, <1>6, <1>9 DEF AgentInv
-----------------------------------------------------------------------------
(***************************************************************************)
(* Ends of a call                                                          *)
(***************************************************************************)

\* A call that waits for anything but a worker has none.
LEMMA NoWorkerYet ==
  ASSUME AgentInv, NEW e \in Job, call[e].phase \in {"loading", "cleaning", "requested"}
  PROVE  Active(e) /\ worker[e] = "none"
<1>1. CallSound(call[e], ledger[e], worker[e], runs[e], InQueue(e), mode)
  BY RowFacts
<1> QED BY <1>1 DEF CallSound, Tended, Employed, Started, Active

\* Whatever is aborted is settled on the spot or noted.
LEMMA AbortedStep ==
  ASSUME AgentInv, NEW e \in Job, NEW aborted \in Call, Active(e), aborted.phase = call[e].phase,
         aborted.output = call[e].output, Abort(e, aborted),
         acks' \subseteq CommandKind \X Job, UNCHANGED <<mode, stops, queue, worker, runs>>
  PROVE  AgentInv'
<1>1. CASE call[e].phase = "requested"
  <2> DEFINE v == IF aborted.timedOut THEN "timed-out" ELSE "cancelled"
  <2>1. v \in Verdict /\ v \notin Conclusive
    BY DEF Verdict, Conclusive
  <2>2. Finish(e, v)
    BY <1>1 DEF Abort
  <2> HIDE DEF v
  <2> QED BY <1>1, <2>1, <2>2, NoWorkerYet, FinishStep
<1>2. CASE call[e].phase # "requested"
  BY <1>2, AbortStep
<1> QED BY <1>1, <1>2

LEMMA DeadlineStep ==
  ASSUME AgentInv, NEW e \in Job, Deadline(e)
  PROVE  AgentInv'
<1> DEFINE aborted == [call[e] EXCEPT !.timedOut = TRUE]
<1>1. call[e] \in Call /\ acks \subseteq CommandKind \X Job
  BY RowFacts
<1>2. aborted \in Call /\ aborted.phase = call[e].phase /\ aborted.output = call[e].output
  BY <1>1 DEF Call
<1>3. /\ Active(e) /\ Abort(e, aborted)
      /\ acks' \subseteq CommandKind \X Job /\ UNCHANGED <<mode, stops, queue, worker, runs>>
  BY <1>1 DEF Deadline, AgentSame
<1> HIDE DEF aborted
<1> QED BY <1>2, <1>3, AbortedStep

LEMMA FailPreparationStep ==
  ASSUME AgentInv, NEW e \in Job, FailPreparation(e)
  PROVE  AgentInv'
<1> DEFINE v == Conclusion(e, "rejected")
<1>1. v \in Verdict /\ v \notin Conclusive
  BY DEF Conclusion, Verdict, Conclusive
<1>2. /\ Finish(e, v) /\ Active(e) /\ worker[e] = "none"
      /\ acks' \subseteq CommandKind \X Job /\ UNCHANGED <<mode, stops, queue, worker, runs>>
  BY NoWorkerYet, RowFacts DEF FailPreparation, AgentSame
<1> HIDE DEF v
<1> QED BY <1>1, <1>2, FinishStep

\* The end of a call without a worker: a business conclusion is the output of
\* a worker whose start was confirmed.
LEMMA FinishRunStep ==
  ASSUME AgentInv, NEW e \in Job, FinishRun(e)
  PROVE  AgentInv'
<1>1. /\ call[e] \in Call /\ acks \subseteq CommandKind \X Job
      /\ CallSound(call[e], ledger[e], worker[e], runs[e], InQueue(e), mode)
  BY RowFacts
<1>2. \A v \in Endings(e) :
        v \in {"timed-out", "cancelled", "interrupted", "rejected"} \cup ({call[e].output} \ {"none"})
  BY DEF Conclusion, Endings
<1>3. PICK v \in Endings(e) : Finish(e, v)
  BY Zenon DEF FinishRun
<1>4. v \in Verdict /\ (v \in Conclusive => ledger[e].fact = "started")
  BY <1>1, <1>2, <1>3 DEF Call, Verdict, Conclusive, CallSound, Concluded
<1>5. /\ Active(e) /\ worker[e] = "none"
      /\ acks' \subseteq CommandKind \X Job /\ UNCHANGED <<mode, stops, queue, worker, runs>>
  BY <1>1 DEF FinishRun, Active, AgentSame
<1> QED BY <1>3, <1>4, <1>5, FinishStep

\* Acknowledging a command adds nothing but the acknowledgement.
LEMMA AckTyped ==
  ASSUME AgentInv, NEW e \in Job, NEW k \in CommandKind, Ack(k, e)
  PROVE  acks' \subseteq CommandKind \X Job
  BY DEF AgentInv, AgentTypeOK, Ack

LEMMA AcksStep ==
  ASSUME AgentInv, acks' \subseteq CommandKind \X Job,
         UNCHANGED <<mode, stops, call, queue, ledger, out, worker, runs>>
  PROVE  AgentInv'
<1>1. AgentTypeOK'
  BY DEF AgentInv, AgentTypeOK
<1>2. AllCallsSound' /\ QueuedOnce' /\ Counted'
  BY DEF AgentInv, AllCallsSound, InQueue, QueuedOnce, Counted, Known, Owed, HeldSlots, Active
<1> QED BY <1>1, <1>2 DEF AgentInv

LEMMA AcksAppliedStep ==
  ASSUME AgentInv, NEW e \in Job, NEW k \in CommandKind, AcksApplied(k, e)
  PROVE  AgentInv'
<1>1. acks' \subseteq CommandKind \X Job
  BY DEF AgentInv, AgentTypeOK, AcksApplied
<1> QED BY <1>1, AcksStep DEF AcksApplied, durable

\* A permit is used by the call that waits for it, ends it, or is dropped.
LEMMA PermitCommandStep ==
  ASSUME AgentInv, NEW e \in Job, PermitCommand(e)
  PROVE  AgentInv'
<1>1. acks' \subseteq CommandKind \X Job /\ UNCHANGED <<mode, stops, queue, runs>>
  BY AckTyped DEF PermitCommand, CommandKind
<1>2. CASE PermitUsed(e)
  BY <1>2, PermitStep
<1>3. CASE call[e].phase = "requested" /\ Finish(e, "rejected") /\ UNCHANGED worker
  BY <1>1, <1>3, NoWorkerYet, FinishStep DEF Verdict, Conclusive
<1>4. CASE UNCHANGED <<call, worker, durable>>
  BY <1>1, <1>4, AcksStep DEF durable
<1> QED BY <1>1, <1>2, <1>3, <1>4 DEF PermitCommand, PermitUsed

\* A refusal ends what has not started, and nothing else.
LEMMA RefuseCommandStep ==
  ASSUME AgentInv, NEW e \in Job, NEW reason, RefuseCommand(e, reason)
  PROVE  AgentInv'
<1>1. acks' \subseteq CommandKind \X Job /\ UNCHANGED <<mode, stops, queue, worker, runs>>
  BY AckTyped DEF RefuseCommand, CommandKind
<1>2. CASE call[e].phase \in {"loading", "cleaning", "requested"} /\ Finish(e, "rejected")
  BY <1>1, <1>2, NoWorkerYet, FinishStep DEF Verdict, Conclusive
<1>3. CASE UNCHANGED <<call, durable>>
  BY <1>1, <1>3, AcksStep DEF durable
<1> QED BY <1>2, <1>3 DEF RefuseCommand
-----------------------------------------------------------------------------
(***************************************************************************)
(* The queue and the pump                                                  *)
(***************************************************************************)

In(e, line) == \E i \in 1..Len(line) : line[i] = e
Distinct(line) == \A i, k \in 1..Len(line) : line[i] = line[k] => i = k
Taken(e, line, n) == \E i \in 1..n : line[i] = e

\* Loading is what an admitted execution starts with.
Loading == [NoCall EXCEPT !.phase = "loading"]

\* The first n of the line are admitted, and the unfit among them rejected.
Admits(line, intents, unfinished, n, unfit) ==
  /\ queue' = SubSeq(line, n + 1, Len(line))
  /\ \A e \in unfit : Taken(e, line, n)
  /\ call' = [e \in Job |-> IF Taken(e, line, n) /\ e \notin unfit THEN Loading ELSE unfinished[e]]
  /\ ledger' = [e \in Job |-> IF e \in unfit THEN Settled(intents[e], "rejected") ELSE intents[e]]
  /\ out' = [e \in Job |-> CASE e \in unfit -> out[e] \cup {"completed"}
                             [] Taken(e, line, n) /\ e \notin unfit -> out[e] \cup {"accepted"}
                             [] OTHER -> out[e]]

\* What is left of a line without repetitions once its first n are taken.
LEMMA RestOfLine ==
  ASSUME NEW line \in Seq(Job), Distinct(line), NEW n \in 0..Len(line)
  PROVE  /\ SubSeq(line, n + 1, Len(line)) \in Seq(Job)
         /\ Distinct(SubSeq(line, n + 1, Len(line)))
         /\ \A e \in Job : In(e, SubSeq(line, n + 1, Len(line))) <=> In(e, line) /\ ~Taken(e, line, n)
         /\ \A e \in Job : Taken(e, line, n) => In(e, line)
<1> DEFINE rest == SubSeq(line, n + 1, Len(line))
<1>1. /\ Len(line) \in Nat /\ n \in Nat /\ n <= Len(line)
      /\ \A i \in 1..Len(line) : line[i] \in Job
  OBVIOUS
<1>2. /\ rest \in Seq(Job) /\ Len(rest) = Len(line) - n
      /\ \A i \in 1..Len(line) - n : rest[i] = line[n + i]
  <2>1. \A i \in n + 1..Len(line) : line[i] \in Job
    BY <1>1
  <2>2. /\ rest \in Seq(Job)
        /\ Len(rest) = IF n + 1 <= Len(line) THEN Len(line) - (n + 1) + 1 ELSE 0
        /\ \A i \in 1..Len(line) - (n + 1) + 1 : rest[i] = line[(n + 1) + i - 1]
    BY <1>1, <2>1, SubSeqProperties
  <2> HIDE DEF rest
  <2> QED BY <1>1, <2>2
<1> HIDE DEF rest
<1>3. Distinct(rest)
  BY <1>1, <1>2 DEF Distinct
<1>4. ASSUME NEW e \in Job
      PROVE  In(e, rest) <=> In(e, line) /\ ~Taken(e, line, n)
  <2>1. ASSUME In(e, rest) PROVE In(e, line) /\ ~Taken(e, line, n)
    <3>1. PICK i \in 1..Len(line) - n : line[n + i] = e
      BY <1>2, <2>1 DEF In
    <3> QED BY <1>1, <3>1 DEF In, Taken, Distinct
  <2>2. ASSUME In(e, line), ~Taken(e, line, n) PROVE In(e, rest)
    <3>1. PICK k \in 1..Len(line) : line[k] = e
      BY <2>2 DEF In
    <3>2. k > n
      BY <1>1, <2>2, <3>1 DEF Taken
    <3>3. k - n \in 1..Len(rest) /\ rest[k - n] = e
      BY <1>1, <1>2, <3>1, <3>2
    <3> QED BY <3>3 DEF In
  <2> QED BY <2>1, <2>2
<1>5. \A e \in Job : Taken(e, line, n) => In(e, line)
  BY <1>1 DEF Taken, In
<1> QED BY <1>2, <1>3, <1>4, <1>5 DEF rest

\* The pump admits no more than there are free slots.
LEMMA PumpAdmits ==
  ASSUME NEW line \in Seq(Job), NEW intents, NEW unfinished,
         IsFiniteSet({e \in Job : intents[e].report = "pending" \/ unfinished[e].phase # "none"}),
         Cardinality({e \in Job : unfinished[e].phase # "none"}) <= MaxSlots,
         Pumped(line, intents, unfinished)
  PROVE  \E n \in 0..Len(line) :
           /\ \E unfit : Admits(line, intents, unfinished, n, unfit)
           /\ Cardinality({e \in Job : unfinished[e].phase # "none"}) + n <= MaxSlots
<1> DEFINE waiting == {e \in Job : intents[e].report = "pending"}
           held == {e \in Job : unfinished[e].phase # "none"}
           faults == {e \in waiting : ~intents[e].budget}
           results == {e \in Job : intents[e].budget /\ (e \in waiting \/ e \in held)}
           n == Least(Len(line), FreeSlots(Cardinality(held), Cardinality(faults),
                                           Cardinality(results)))
           all == {e \in Job : intents[e].report = "pending" \/ unfinished[e].phase # "none"}
<1>1. held \subseteq all /\ faults \subseteq all /\ results \subseteq all
  OBVIOUS
<1>2. /\ Cardinality(held) \in Nat /\ Cardinality(faults) \in Nat
      /\ Cardinality(results) \in Nat /\ Len(line) \in Nat
  <2> HIDE DEF held, faults, results, all
  <2>1. IsFiniteSet(all)
    BY DEF all
  <2> QED BY <1>1, <2>1, FS_Subset, FS_CardinalityType
<1>3. n \in 0..Len(line) /\ Cardinality(held) + n <= MaxSlots
  <2>1. Cardinality(held) <= MaxSlots
    OBVIOUS
  <2> DEFINE h == Cardinality(held)
             f == Cardinality(faults)
             r == Cardinality(results)
  <2> HIDE DEF h, f, r
  <2>2. h \in Nat /\ f \in Nat /\ r \in Nat /\ h <= MaxSlots
    BY <1>2, <2>1 DEF h, f, r
  <2>3. Least(Len(line), FreeSlots(h, f, r)) \in 0..Len(line)
        /\ h + Least(Len(line), FreeSlots(h, f, r)) <= MaxSlots
    BY <1>2, <2>2, AgentLimits DEF Least, FreeSlots, Monus
  <2> QED BY <2>3 DEF h, f, r
<1> DEFINE admitted == {line[i] : i \in 1..n}
<1>4. /\ queue' = SubSeq(line, n + 1, Len(line))
      /\ \E unfit \in SUBSET admitted :
           /\ call' = [e \in Job |-> IF e \in admitted \ unfit THEN Loading ELSE unfinished[e]]
           /\ ledger' = [e \in Job |-> IF e \in unfit THEN Settled(intents[e], "rejected")
                                       ELSE intents[e]]
           /\ out' = [e \in Job |-> CASE e \in unfit -> out[e] \cup {"completed"}
                                      [] e \in admitted \ unfit -> out[e] \cup {"accepted"}
                                      [] OTHER -> out[e]]
  BY Zenon DEF Pumped, Loading
<1>5. \A e : e \in admitted <=> Taken(e, line, n)
  <2> HIDE DEF n
  <2> QED BY DEF Taken
<1>6. \E unfit : Admits(line, intents, unfinished, n, unfit)
  <2> HIDE DEF n, admitted
  <2>1. PICK unfit \in SUBSET admitted :
          /\ call' = [e \in Job |-> IF e \in admitted \ unfit THEN Loading ELSE unfinished[e]]
          /\ ledger' = [e \in Job |-> IF e \in unfit THEN Settled(intents[e], "rejected")
                                      ELSE intents[e]]
          /\ out' = [e \in Job |-> CASE e \in unfit -> out[e] \cup {"completed"}
                                     [] e \in admitted \ unfit -> out[e] \cup {"accepted"}
                                     [] OTHER -> out[e]]
    BY <1>4, Zenon
  <2>2. \A e \in unfit : Taken(e, line, n)
    BY <1>5
  <2>3. call' = [e \in Job |-> IF Taken(e, line, n) /\ e \notin unfit THEN Loading
                              ELSE unfinished[e]]
    BY <1>5, <2>1
  <2>4. out' = [e \in Job |-> CASE e \in unfit -> out[e] \cup {"completed"}
                               [] Taken(e, line, n) /\ e \notin unfit -> out[e] \cup {"accepted"}
                               [] OTHER -> out[e]]
    BY <1>5, <2>1
  <2>5. Admits(line, intents, unfinished, n, unfit)
    BY <1>4, <2>1, <2>2, <2>3, <2>4, Zenon DEF Admits
  <2> QED BY <2>5
<1> HIDE DEF n
<1> QED BY <1>3, <1>6, Zenon

\* An open execution that leaves the queue for a slot is sound.
LEMMA LoadingSound ==
  ASSUME NEW c \in Call, NEW intent \in Intent, NEW w \in WorkerState, NEW ran \in 0..2,
         CallSound(c, intent, w, ran, TRUE, "up")
  PROVE  CallSound(Loading, intent, w, ran, FALSE, "up")
<1>1. Loading \in Call /\ Loading.phase = "loading" /\ Loading.output = "none"
  BY DEF Loading, NoCall, Call, Phase
<1> QED BY <1>1 DEF CallSound, Tended, Truthful, Employed, Concluded, Started

\* An open execution that is rejected on its way from the queue to a slot.
LEMMA UnfitSound ==
  ASSUME NEW c \in Call, NEW intent \in Intent, NEW w \in WorkerState, NEW ran \in 0..2,
         CallSound(c, intent, w, ran, TRUE, "up")
  PROVE  /\ Settled(intent, "rejected") \in Intent
         /\ Settled(intent, "rejected").known /\ intent.known
         /\ ~Settled(intent, "rejected").budget /\ ~intent.budget
         /\ CallSound(c, Settled(intent, "rejected"), w, ran, FALSE, "up")
<1> DEFINE new == Settled(intent, "rejected")
<1>1. /\ c.phase = "none" /\ c.output = "none" /\ w = "none" /\ intent.known
      /\ ~intent.settled /\ ~intent.budget
  BY DEF CallSound, Tended, Employed, Concluded, Started
<1>2. /\ new \in Intent /\ new.known = intent.known /\ new.budget = intent.budget
      /\ CallSound(NoCall, new, "none", ran, FALSE, "up")
  <2>1. "rejected" \in Verdict /\ "rejected" \notin Conclusive
    BY DEF Verdict, Conclusive
  <2> QED BY <1>1, <2>1, SettledSound
<1>3. NoCall.phase = "none" /\ NoCall.output = "none"
  BY DEF NoCall
<1> HIDE DEF new
<1>4. CallSound(c, new, w, ran, FALSE, "up")
  BY <1>1, <1>2, <1>3 DEF CallSound, Tended, Truthful, Employed, Concluded, Started
<1> QED BY <1>1, <1>2, <1>4 DEF new

\* Admitting the head of a sound line keeps everything sound and the slots full
\* at most.  line and intents may already differ from the queue and the ledger.
LEMMA AdmitStep ==
  ASSUME mode' = "up", NEW line \in Seq(Job), Distinct(line), NEW intents \in [Job -> Intent],
         call \in [Job -> Call], out \in [Job -> SUBSET MessageKind],
         worker \in [Job -> WorkerState], runs \in [Job -> 0..2], UNCHANGED <<worker, runs>>,
         \A e \in Job : CallSound(call[e], intents[e], worker[e], runs[e], In(e, line), "up"),
         IsFiniteSet({e \in Job : intents[e].known}), Cardinality(HeldSlots) <= MaxSlots,
         Pumped(line, intents, call)
  PROVE  /\ queue' \in Seq(Job) /\ call' \in [Job -> Call] /\ out' \in [Job -> SUBSET MessageKind]
         /\ ledger' \in [Job -> Intent] /\ Known' = {e \in Job : intents[e].known}
         /\ Owed' \subseteq {e \in Job : intents[e].budget /\ intents[e].report # "archived"}
         /\ AllCallsSound' /\ QueuedOnce' /\ Cardinality(HeldSlots') <= MaxSlots
<1> DEFINE held == {e \in Job : call[e].phase # "none"}
           all == {e \in Job : intents[e].report = "pending" \/ call[e].phase # "none"}
           known == {e \in Job : intents[e].known}
<1>1. HeldSlots = held
  BY DEF HeldSlots, Active
<1>2. \A e \in Job : intents[e].report = "pending" \/ call[e].phase # "none" => intents[e].known
  BY DEF CallSound, Tended, Concluded
<1>3. all \subseteq known /\ held \subseteq all
  BY <1>2
<1>4. IsFiniteSet(all) /\ IsFiniteSet(held)
  <2>1. IsFiniteSet(known)
    OBVIOUS
  <2> HIDE DEF all, held, known
  <2> QED BY <1>3, <2>1, FS_Subset
<1>5. PICK n \in 0..Len(line) : /\ \E unfit : Admits(line, intents, call, n, unfit)
                               /\ Cardinality(held) + n <= MaxSlots
  BY <1>1, <1>4, PumpAdmits
<1>6. PICK unfit : Admits(line, intents, call, n, unfit)
  BY <1>5
<1>7. /\ queue' \in Seq(Job) /\ Distinct(queue')
      /\ \A e \in Job : In(e, queue') <=> In(e, line) /\ ~Taken(e, line, n)
      /\ \A e \in Job : Taken(e, line, n) => In(e, line)
  BY <1>6, RestOfLine DEF Admits
<1>8. /\ Loading \in Call /\ Loading.phase = "loading"
      /\ "accepted" \in MessageKind /\ "completed" \in MessageKind
  BY DEF Loading, NoCall, Call, Phase, MessageKind
<1>9. /\ call' \in [Job -> Call]
      /\ \A e \in Job : Taken(e, line, n) /\ e \notin unfit => call'[e] = Loading
      /\ \A e \in Job : ~Taken(e, line, n) \/ e \in unfit => call'[e] = call[e]
  BY <1>6, <1>8 DEF Admits
<1>10. out' \in [Job -> SUBSET MessageKind]
  <2>1. \A e \in Job : out'[e] \in {out[e], out[e] \cup {"accepted"}, out[e] \cup {"completed"}}
    BY <1>6 DEF Admits
  <2>2. out' = [e \in Job |-> out'[e]]
    BY <1>6 DEF Admits
  <2>3. \A e \in Job : out'[e] \in SUBSET MessageKind
    BY <1>8, <2>1
  <2> QED BY <2>2, <2>3
<1>11. ASSUME NEW e \in Job
      PROVE  /\ ledger'[e] \in Intent /\ ledger'[e].known = intents[e].known
             /\ ledger'[e].budget = intents[e].budget
             /\ ledger'[e].report = intents[e].report \/ ~intents[e].budget
             /\ CallSound(call'[e], ledger'[e], worker[e], runs[e], In(e, queue'), "up")
  <2>1. /\ call[e] \in Call /\ intents[e] \in Intent /\ worker[e] \in WorkerState
        /\ runs[e] \in 0..2 /\ CallSound(call[e], intents[e], worker[e], runs[e], In(e, line), "up")
    OBVIOUS
  <2>2. CASE Taken(e, line, n)
    <3>1. In(e, line) /\ ~In(e, queue')
      BY <1>7, <2>2
    <3>2. CallSound(call[e], intents[e], worker[e], runs[e], TRUE, "up")
      BY <2>1, <3>1 DEF CallSound, Tended, Employed
    <3>3. CASE e \in unfit
      <4>1. ledger'[e] = Settled(intents[e], "rejected") /\ call'[e] = call[e]
        BY <1>6, <1>9, <3>3 DEF Admits
      <4>2. /\ ledger'[e] \in Intent /\ ledger'[e].known /\ intents[e].known
            /\ ~ledger'[e].budget /\ ~intents[e].budget
            /\ CallSound(call'[e], ledger'[e], worker[e], runs[e], FALSE, "up")
        BY <2>1, <3>2, <4>1, UnfitSound
      <4>3. ledger'[e].known = intents[e].known /\ ledger'[e].budget = intents[e].budget
        BY <2>1, <4>2 DEF Intent
      <4> QED BY <3>1, <4>2, <4>3 DEF CallSound, Tended, Employed
    <3>4. CASE e \notin unfit
      <4>1. ledger'[e] = intents[e] /\ call'[e] = Loading
        BY <1>6, <1>9, <2>2, <3>4 DEF Admits
      <4>2. CallSound(Loading, intents[e], worker[e], runs[e], FALSE, "up")
        BY <2>1, <3>2, LoadingSound
      <4> QED BY <2>1, <3>1, <4>1, <4>2 DEF CallSound, Tended, Employed
    <3> QED BY <3>3, <3>4
  <2>3. CASE ~Taken(e, line, n)
    <3>1. In(e, queue') <=> In(e, line)
      BY <1>7, <2>3
    <3>2. e \notin unfit
      BY <1>6, <2>3 DEF Admits
    <3>3. call'[e] = call[e] /\ ledger'[e] = intents[e]
      BY <1>6, <1>9, <2>3, <3>2 DEF Admits
    <3> QED BY <2>1, <3>1, <3>3 DEF CallSound, Tended, Employed
  <2> QED BY <2>2, <2>3
<1>12. ledger' \in [Job -> Intent]
  <2>1. ledger' = [e \in Job |-> ledger'[e]]
    BY <1>6 DEF Admits
  <2> QED BY <1>11, <2>1
<1>13. /\ Known' = known
      /\ Owed' \subseteq {e \in Job : intents[e].budget /\ intents[e].report # "archived"}
  BY <1>11 DEF Known, Owed
<1>14. AllCallsSound'
  BY <1>11 DEF AllCallsSound, InQueue, In
<1>15. Cardinality(HeldSlots') <= MaxSlots
  <2> DEFINE taken == {e \in Job : Taken(e, line, n)}
             f == [i \in 1..n |-> line[i]]
  <2>1. HeldSlots' \subseteq held \cup taken
    BY <1>9 DEF HeldSlots, Active
  <2>2. f \in Surjection(1..n, taken)
    BY <1>5 DEF Surjection, Taken
  <2>3. IsFiniteSet(1..n) /\ Cardinality(1..n) = n
    BY <1>5, FS_Interval
  <2> HIDE DEF f, taken, held
  <2>4. IsFiniteSet(taken) /\ Cardinality(taken) <= n
    BY <2>2, <2>3, FS_Surjection
  <2>5. /\ IsFiniteSet(held \cup taken) /\ IsFiniteSet(held \cap taken)
        /\ Cardinality(held \cup taken) =
             Cardinality(held) + Cardinality(taken) - Cardinality(held \cap taken)
    <3>1. IsFiniteSet(held \cap taken)
      BY <1>4, FS_Subset
    <3> QED BY <3>1, <1>4, <2>4, FS_Union
  <2>6. /\ Cardinality(held \cap taken) \in Nat /\ Cardinality(held) \in Nat
        /\ Cardinality(taken) \in Nat /\ Cardinality(held \cup taken) \in Nat
    BY <1>4, <2>4, <2>5, FS_CardinalityType
  <2>7. IsFiniteSet(HeldSlots') /\ Cardinality(HeldSlots') <= Cardinality(held \cup taken)
    BY <2>1, <2>5, FS_Subset
  <2>8. Cardinality(HeldSlots') \in Nat
    BY <2>7, FS_CardinalityType
  <2> QED BY <1>5, <2>4, <2>5, <2>6, <2>7, <2>8, AgentLimits
<1>16. QueuedOnce'
  BY <1>7 DEF QueuedOnce, Distinct
<1> QED BY <1>7, <1>9, <1>10, <1>12, <1>13, <1>14, <1>15, <1>16

\* What a state that keeps the invariant says of its own line.
LEMMA LineFacts ==
  ASSUME AgentInv
  PROVE  /\ queue \in Seq(Job) /\ Distinct(queue) /\ \A e \in Job : In(e, queue) <=> InQueue(e)
         /\ call \in [Job -> Call] /\ ledger \in [Job -> Intent] /\ out \in [Job -> SUBSET MessageKind]
         /\ worker \in [Job -> WorkerState] /\ runs \in [Job -> 0..2]
         /\ IsFiniteSet(Known) /\ IsFiniteSet(Owed) /\ Cardinality(HeldSlots) <= MaxSlots
         /\ \A e \in Job : CallSound(call[e], ledger[e], worker[e], runs[e], In(e, queue), mode)
<1>1. Owed \subseteq Known
  BY DEF AgentInv, AllCallsSound, CallSound, Concluded, Owed, Known
<1>2. IsFiniteSet(Known) /\ IsFiniteSet(Owed)
  BY <1>1, FS_Subset DEF AgentInv, Counted
<1> QED BY <1>2
    DEF AgentInv, AgentTypeOK, WorkerState, QueuedOnce, Distinct, In, InQueue, AllCallsSound, Counted

\* The pump keeps the invariant, whatever the ledger it looks at has gained or
\* given up just before.
LEMMA PumpedKeeps ==
  ASSUME AgentInv, mode = "up", NEW line \in Seq(Job), Distinct(line),
         NEW intents \in [Job -> Intent], acks' \subseteq CommandKind \X Job,
         \A e \in Job : CallSound(call[e], intents[e], worker[e], runs[e], In(e, line), "up"),
         IsFiniteSet({e \in Job : intents[e].known}),
         {e \in Job : intents[e].budget /\ intents[e].report # "archived"} \subseteq Owed,
         Pumped(line, intents, call), UNCHANGED <<mode, stops, worker, runs>>
  PROVE  AgentInv'
<1> DEFINE known == {e \in Job : intents[e].known}
           owed == {e \in Job : intents[e].budget /\ intents[e].report # "archived"}
<1>1. /\ queue' \in Seq(Job) /\ call' \in [Job -> Call] /\ out' \in [Job -> SUBSET MessageKind]
      /\ ledger' \in [Job -> Intent] /\ Known' = known /\ Owed' \subseteq owed
      /\ AllCallsSound' /\ QueuedOnce' /\ Cardinality(HeldSlots') <= MaxSlots
  BY LineFacts, AdmitStep
<1>2. IsFiniteSet(known) /\ owed \subseteq Owed
  OBVIOUS
<1> HIDE DEF known, owed
<1>3. IsFiniteSet(Known') /\ Owed' \subseteq Owed
  BY <1>1, <1>2
<1>4. Cardinality(Owed') <= ResultSlots
  <2>1. IsFiniteSet(Owed) /\ Cardinality(Owed) <= ResultSlots
    BY LineFacts DEF AgentInv, Counted
  <2>2. IsFiniteSet(Owed') /\ Cardinality(Owed') <= Cardinality(Owed)
    BY <1>3, <2>1, FS_Subset
  <2> QED BY <2>1, <2>2, FS_CardinalityType, AgentLimits
<1>5. AgentTypeOK'
  BY <1>1 DEF AgentInv, AgentTypeOK
<1> QED BY <1>1, <1>3, <1>4, <1>5 DEF AgentInv, Counted

\* The pump on its own.
LEMMA PumpStep ==
  ASSUME AgentInv, Pump
  PROVE  AgentInv'
<1>1. mode = "up" /\ Pumped(queue, ledger, call) /\ UNCHANGED <<mode, stops, acks, worker, runs>>
  BY DEF Pump
<1>2. /\ {e \in Job : ledger[e].known} = Known
      /\ {e \in Job : ledger[e].budget /\ ledger[e].report # "archived"} = Owed
  BY DEF Known, Owed
<1>3. acks' \subseteq CommandKind \X Job
  BY <1>1 DEF AgentInv, AgentTypeOK
<1> QED BY <1>1, <1>2, <1>3, LineFacts, PumpedKeeps

\* A line without repetitions that somebody new joins.
LEMMA LineGrows ==
  ASSUME NEW line \in Seq(Job), Distinct(line), NEW e \in Job, ~In(e, line)
  PROVE  /\ Append(line, e) \in Seq(Job) /\ Distinct(Append(line, e))
         /\ \A x \in Job : In(x, Append(line, e)) <=> In(x, line) \/ x = e
<1> DEFINE more == Append(line, e)
<1>1. /\ more \in Seq(Job) /\ Len(line) \in Nat /\ Len(more) = Len(line) + 1
      /\ \A i \in 1..Len(line) : more[i] = line[i]
      /\ more[Len(line) + 1] = e
  OBVIOUS
<1> HIDE DEF more
<1>2. Distinct(more)
  BY <1>1 DEF Distinct, In
<1>3. \A x \in Job : In(x, more) <=> In(x, line) \/ x = e
  BY <1>1 DEF In
<1> QED BY <1>1, <1>2, <1>3 DEF more

\* A delivery that is new joins the end of the line.
LEMMA ReceiveDeliveryStep ==
  ASSUME AgentInv, NEW e \in Job, ReceiveDelivery(e)
  PROVE  AgentInv'
<1>1. /\ mode = "up" /\ acks' \subseteq CommandKind \X Job
      /\ UNCHANGED <<mode, stops, worker, runs>>
  BY AckTyped DEF ReceiveDelivery, CommandKind
<1>2. CASE UNCHANGED <<call, queue, durable>>
  BY <1>1, <1>2, AcksStep DEF durable
<1>3. ASSUME ~ledger[e].known, Pumped(Append(queue, e), [ledger EXCEPT ![e].known = TRUE], call)
      PROVE  AgentInv'
  <2> DEFINE line == Append(queue, e)
             intent == [ledger[e] EXCEPT !.known = TRUE]
             intents == [ledger EXCEPT ![e].known = TRUE]
  <2>1. /\ ledger[e] \in Intent /\ call[e] \in Call /\ ~Active(e) /\ ~InQueue(e)
        /\ CallSound(call[e], ledger[e], worker[e], runs[e], In(e, queue), mode)
    BY <1>3, RowFacts, LineFacts
  <2>2. /\ intent \in Intent /\ intent.known /\ intent.fact = ledger[e].fact
        /\ intent.budget = ledger[e].budget /\ intent.settled = ledger[e].settled
        /\ intent.verdict = ledger[e].verdict /\ intent.report = ledger[e].report
    BY <2>1 DEF Intent
  <2>3. /\ intents \in [Job -> Intent] /\ intents[e] = intent
        /\ \A x \in Job : x # e => intents[x] = ledger[x]
    BY <2>2, LineFacts
  <2>4. /\ line \in Seq(Job) /\ Distinct(line)
        /\ \A x \in Job : In(x, line) <=> In(x, queue) \/ x = e
    BY <2>1, LineFacts, LineGrows
  <2>5. \A x \in Job : /\ intents[x].budget = ledger[x].budget
                       /\ intents[x].report = ledger[x].report
    BY <2>2, <2>3
  <2>6. Pumped(line, intents, call)
    BY <1>3
  <2> HIDE DEF intent, line, intents
  <2>7. \A x \in Job : CallSound(call[x], intents[x], worker[x], runs[x], In(x, line), "up")
    <3>1. CallSound(call[e], intent, worker[e], runs[e], TRUE, "up")
      BY <1>1, <1>3, <2>1, <2>2
      DEF CallSound, Tended, Truthful, Employed, Concluded, Active, In, InQueue, Started
    <3>2. CallSound(call[e], intents[e], worker[e], runs[e], In(e, line), "up")
      BY <3>1, <2>3, <2>4 DEF CallSound, Tended, Employed
    <3>3. ASSUME NEW x \in Job, x # e
          PROVE  CallSound(call[x], intents[x], worker[x], runs[x], In(x, line), "up")
      <4>1. CallSound(call[x], ledger[x], worker[x], runs[x], In(x, queue), "up")
        BY <1>1, LineFacts
      <4>2. (In(x, line) <=> In(x, queue)) /\ intents[x] = ledger[x]
        BY <2>3, <2>4, <3>3
      <4> QED BY <4>1, <4>2 DEF CallSound, Tended, Employed
    <3> QED BY <3>2, <3>3, Zenon
  <2>8. /\ IsFiniteSet({x \in Job : intents[x].known})
        /\ {x \in Job : intents[x].budget /\ intents[x].report # "archived"} \subseteq Owed
    <3>1. {x \in Job : intents[x].known} \subseteq Known \cup {e}
      BY <2>3 DEF Known
    <3>2. IsFiniteSet(Known \cup {e})
      BY LineFacts, FS_AddElement
    <3>3. {x \in Job : intents[x].budget /\ intents[x].report # "archived"} \subseteq Owed
      BY <2>5 DEF Owed
    <3> QED BY <3>1, <3>2, <3>3, FS_Subset
  <2> QED BY <1>1, <2>3, <2>4, <2>6, <2>7, <2>8, PumpedKeeps
<1> QED BY <1>2, <1>3 DEF ReceiveDelivery

\* A report that leaves makes room, and the pump uses it.
LEMMA ReportArchivedStep ==
  ASSUME AgentInv, NEW e \in Job, ReportArchived(e)
  PROVE  AgentInv'
<1> DEFINE intent == [ledger[e] EXCEPT !.report = "archived"]
           intents == [ledger EXCEPT ![e].report = "archived"]
<1>1. /\ Reported(e)
      /\ IF mode = "up" THEN Pumped(queue, intents, call)
                        ELSE ledger' = intents /\ UNCHANGED <<queue, call, out>>
      /\ UNCHANGED <<mode, stops, acks, worker, runs>>
  BY DEF ReportArchived
<1>2. CASE mode # "up"
  <2>1. ReportLeaves(e)
    BY <1>1, <1>2 DEF ReportLeaves
  <2> QED BY <2>1, ArchivedStep
<1>3. CASE mode = "up"
  <2>1. /\ ledger[e] \in Intent /\ ledger[e].report = "pending"
        /\ CallSound(call[e], ledger[e], worker[e], runs[e], In(e, queue), "up")
    BY <1>1, <1>3, RowFacts, LineFacts DEF Reported
  <2>2. /\ intent \in Intent /\ intent.known = ledger[e].known /\ intent.fact = ledger[e].fact
        /\ intent.budget = ledger[e].budget /\ intent.settled = ledger[e].settled
        /\ intent.verdict = ledger[e].verdict /\ intent.report = "archived"
    BY <2>1 DEF Intent
  <2>3. /\ intents \in [Job -> Intent] /\ intents[e] = intent
        /\ \A x \in Job : x # e => intents[x] = ledger[x]
    BY <2>2, LineFacts
  <2>4. Pumped(queue, intents, call)
    BY <1>1, <1>3
  <2> HIDE DEF intent, intents
  <2>5. CallSound(call[e], intent, worker[e], runs[e], In(e, queue), "up")
    BY <2>1, <2>2 DEF CallSound, Tended, Truthful, Employed, Concluded
  <2>6. \A x \in Job : CallSound(call[x], intents[x], worker[x], runs[x], In(x, queue), "up")
    <3>1. ASSUME NEW x \in Job
          PROVE  CallSound(call[x], ledger[x], worker[x], runs[x], In(x, queue), "up")
      BY <1>3, LineFacts
    <3>2. ASSUME NEW x \in Job, x # e
          PROVE  CallSound(call[x], intents[x], worker[x], runs[x], In(x, queue), "up")
      BY <2>3, <3>1, <3>2
    <3>3. CallSound(call[e], intents[e], worker[e], runs[e], In(e, queue), "up")
      BY <2>3, <2>5
    <3> QED BY <3>2, <3>3, Zenon
  <2>7. /\ {x \in Job : intents[x].known} = Known
        /\ {x \in Job : intents[x].budget /\ intents[x].report # "archived"} \subseteq Owed
    BY <2>2, <2>3 DEF Known, Owed
  <2>8. acks' \subseteq CommandKind \X Job
    BY <1>1 DEF AgentInv, AgentTypeOK
  <2> QED BY <1>1, <1>3, <2>3, <2>4, <2>6, <2>7, <2>8, LineFacts, PumpedKeeps
<1> QED BY <1>2, <1>3

\* What is left of a line without repetitions once one entry is cut out.
LEMMA LineCut ==
  ASSUME NEW line \in Seq(Job), Distinct(line), NEW i \in 1..Len(line)
  PROVE  LET rest == SubSeq(line, 1, i - 1) \o SubSeq(line, i + 1, Len(line)) IN
         /\ rest \in Seq(Job) /\ Distinct(rest)
         /\ \A e \in Job : In(e, rest) <=> In(e, line) /\ e # line[i]
<1> DEFINE before == SubSeq(line, 1, i - 1)
           after == SubSeq(line, i + 1, Len(line))
           rest == before \o after
<1>1. Len(line) \in Nat /\ i \in Nat /\ \A k \in 1..Len(line) : line[k] \in Job
  OBVIOUS
<1>2. /\ before \in Seq(Job) /\ Len(before) = i - 1
      /\ \A k \in 1..i - 1 : before[k] = line[k]
  <2>1. \A k \in 1..i - 1 : line[k] \in Job
    BY <1>1
  <2>2. /\ before \in Seq(Job)
        /\ Len(before) = IF 1 <= i - 1 THEN (i - 1) - 1 + 1 ELSE 0
        /\ \A k \in 1..(i - 1) - 1 + 1 : before[k] = line[1 + k - 1]
    BY <1>1, <2>1, SubSeqProperties
  <2> HIDE DEF before
  <2> QED BY <1>1, <2>2
<1>3. /\ after \in Seq(Job) /\ Len(after) = Len(line) - i
      /\ \A k \in 1..Len(line) - i : after[k] = line[i + k]
  <2>1. \A k \in i + 1..Len(line) : line[k] \in Job
    BY <1>1
  <2>2. /\ after \in Seq(Job)
        /\ Len(after) = IF i + 1 <= Len(line) THEN Len(line) - (i + 1) + 1 ELSE 0
        /\ \A k \in 1..Len(line) - (i + 1) + 1 : after[k] = line[(i + 1) + k - 1]
    BY <1>1, <2>1, SubSeqProperties
  <2> HIDE DEF after
  <2> QED BY <1>1, <2>2
<1> HIDE DEF before, after
<1>4. /\ rest \in Seq(Job) /\ Len(rest) = Len(line) - 1
      /\ \A k \in 1..Len(line) - 1 : rest[k] = IF k < i THEN line[k] ELSE line[k + 1]
  <2>1. /\ rest \in Seq(Job) /\ Len(rest) = Len(before) + Len(after)
        /\ \A k \in 1..Len(before) + Len(after) :
             rest[k] = IF k <= Len(before) THEN before[k] ELSE after[k - Len(before)]
    BY <1>2, <1>3, ConcatProperties
  <2> HIDE DEF rest
  <2>2. Len(rest) = Len(line) - 1 /\ Len(before) + Len(after) = Len(line) - 1
    BY <1>1, <1>2, <1>3, <2>1
  <2>3. ASSUME NEW k \in 1..Len(line) - 1
        PROVE  rest[k] = IF k < i THEN line[k] ELSE line[k + 1]
    <3>1. rest[k] = IF k <= i - 1 THEN before[k] ELSE after[k - (i - 1)]
      BY <1>2, <2>1, <2>2
    <3>2. CASE k < i
      BY <1>1, <1>2, <3>1, <3>2
    <3>3. CASE ~(k < i)
      <4>1. k - (i - 1) \in 1..Len(line) - i /\ i + (k - (i - 1)) = k + 1 /\ ~(k <= i - 1)
        BY <1>1, <3>3
      <4> QED BY <1>3, <3>1, <3>3, <4>1
    <3> QED BY <3>2, <3>3
  <2> QED BY <2>1, <2>2, <2>3
<1> HIDE DEF rest
<1>5. Distinct(rest)
  BY <1>1, <1>4 DEF Distinct
<1>6. ASSUME NEW e \in Job
      PROVE  In(e, rest) <=> In(e, line) /\ e # line[i]
  <2>1. ASSUME In(e, rest) PROVE In(e, line) /\ e # line[i]
    <3>1. PICK k \in 1..Len(line) - 1 : rest[k] = e
      BY <1>4, <2>1 DEF In
    <3> QED BY <1>1, <1>4, <3>1 DEF In, Distinct
  <2>2. ASSUME In(e, line), e # line[i] PROVE In(e, rest)
    <3>1. PICK k \in 1..Len(line) : line[k] = e /\ k # i
      BY <2>2 DEF In
    <3>2. CASE k < i
      BY <1>1, <1>4, <3>1, <3>2 DEF In
    <3>3. CASE k > i
      <4>1. k - 1 \in 1..Len(rest) /\ rest[k - 1] = e
        BY <1>1, <1>4, <3>1, <3>3
      <4> QED BY <4>1 DEF In
    <3> QED BY <1>1, <3>1, <3>2, <3>3
  <2> QED BY <2>1, <2>2
<1> QED BY <1>4, <1>5, <1>6 DEF rest, before, after

\* A cancelled execution leaves its place in the queue and is settled.
LEMMA CancelQueuedStep ==
  ASSUME AgentInv, NEW e \in Job, Unqueue(e), Finish(e, "cancelled"),
         acks' \subseteq CommandKind \X Job, UNCHANGED <<mode, stops, worker, runs>>
  PROVE  AgentInv'
<1> DEFINE intent == Settled(ledger[e], "cancelled")
<1>1. PICK i \in 1..Len(queue) :
        /\ queue[i] = e
        /\ queue' = SubSeq(queue, 1, i - 1) \o SubSeq(queue, i + 1, Len(queue))
  BY DEF Unqueue
<1>2. /\ queue' \in Seq(Job) /\ Distinct(queue')
      /\ \A x \in Job : In(x, queue') <=> In(x, queue) /\ x # e
  BY <1>1, LineFacts, LineCut
<1>3. /\ call[e] \in Call /\ ledger[e] \in Intent /\ runs[e] \in 0..2 /\ worker[e] = "none"
      /\ ledger[e].known /\ ~ledger[e].settled /\ ~ledger[e].budget /\ InQueue(e) \in BOOLEAN
      /\ worker[e] \in WorkerState
      /\ CallSound(call[e], ledger[e], worker[e], runs[e], InQueue(e), mode)
  <2>1. InQueue(e)
    BY <1>1 DEF InQueue
  <2> QED BY <2>1, RowFacts
<1>4. /\ intent \in Intent /\ intent.known = ledger[e].known /\ intent.budget = ledger[e].budget
      /\ CallSound(NoCall, intent, "none", runs[e], FALSE, mode)
  <2>1. "cancelled" \in Verdict /\ "cancelled" \notin Conclusive
    BY DEF Verdict, Conclusive
  <2> QED BY <1>3, <2>1, SettledSound
<1>5. /\ call' = [call EXCEPT ![e] = NoCall] /\ ledger' = [ledger EXCEPT ![e] = intent]
      /\ out' = [out EXCEPT ![e] = @ \cup {"completed"}]
  BY DEF Finish
<1>6. NoCall \in Call /\ NoCall.phase = "none" /\ "completed" \in MessageKind
  BY DEF NoCall, Call, Phase, MessageKind
<1> HIDE DEF intent
<1>7. AgentTypeOK'
  BY <1>2, <1>4, <1>5, <1>6 DEF AgentInv, AgentTypeOK
<1>8. /\ ledger'[e] = intent /\ call'[e] = NoCall
      /\ \A x \in Job : x # e => ledger'[x] = ledger[x] /\ call'[x] = call[x]
  BY <1>5, LineFacts
<1>9. AllCallsSound'
  <2> SUFFICES ASSUME NEW x \in Job
               PROVE  CallSound(call'[x], ledger'[x], worker[x], runs[x], In(x, queue'), mode)
    BY DEF AllCallsSound, InQueue, In
  <2>1. CASE x = e
    <3>1. ~In(e, queue')
      BY <1>2
    <3> QED BY <1>3, <1>4, <1>8, <2>1, <3>1 DEF CallSound, Tended, Employed
  <2>2. CASE x # e
    <3>1. CallSound(call[x], ledger[x], worker[x], runs[x], In(x, queue), mode)
      BY LineFacts
    <3>2. In(x, queue') <=> In(x, queue)
      BY <1>2, <2>2
    <3> QED BY <1>8, <2>2, <3>1, <3>2 DEF CallSound, Tended, Employed
  <2> QED BY <2>1, <2>2
<1>10. Known' = Known /\ Owed' \subseteq Owed /\ HeldSlots' \subseteq HeldSlots
  BY <1>3, <1>4, <1>6, <1>8 DEF Known, Owed, HeldSlots, Active
<1>11. Counted'
  BY <1>10, CountsShrink DEF AgentInv, Counted
<1> QED BY <1>2, <1>7, <1>9, <1>11 DEF AgentInv, QueuedOnce, Distinct

\* A cancel aborts a call, cuts a queued delivery out, or finds nothing.
LEMMA CancelCommandStep ==
  ASSUME AgentInv, NEW e \in Job, CancelCommand(e)
  PROVE  AgentInv'
<1>1. acks' \subseteq CommandKind \X Job /\ UNCHANGED <<mode, stops, worker, runs>>
  BY AckTyped DEF CancelCommand, CommandKind
<1>2. CASE Active(e) /\ Abort(e, [call[e] EXCEPT !.cancelled = TRUE]) /\ UNCHANGED queue
  <2> DEFINE aborted == [call[e] EXCEPT !.cancelled = TRUE]
  <2>1. aborted \in Call /\ aborted.phase = call[e].phase /\ aborted.output = call[e].output
    BY RowFacts DEF Call
  <2>2. Active(e) /\ Abort(e, aborted) /\ UNCHANGED <<mode, stops, queue, worker, runs>>
    BY <1>1, <1>2
  <2> HIDE DEF aborted
  <2> QED BY <1>1, <2>1, <2>2, AbortedStep
<1>3. CASE Unqueue(e) /\ Finish(e, "cancelled")
  BY <1>1, <1>3, CancelQueuedStep
<1>4. CASE UNCHANGED <<call, queue, durable>>
  BY <1>1, <1>4, AcksStep DEF durable
<1> QED BY <1>2, <1>3, <1>4 DEF CancelCommand
-----------------------------------------------------------------------------
(***************************************************************************)
(* Stopping and starting the process                                       *)
(***************************************************************************)

\* What the end of the process drops was not promised beyond the ledger.
LEMMA StopStep ==
  ASSUME AgentInv, NEW from, Stop(from), stops' \in 0..MaxStops
  PROVE  AgentInv'
<1>1. /\ mode' = "down" /\ call' = [e \in Job |-> NoCall] /\ queue' = <<>> /\ acks' = {}
      /\ UNCHANGED <<ledger, out, worker, runs>>
  BY DEF Stop, durable
<1>2. /\ NoCall \in Call /\ NoCall.phase = "none" /\ NoCall.output = "none"
  BY DEF NoCall, Call, Phase
<1>3. AgentTypeOK'
  BY <1>1, <1>2 DEF AgentInv, AgentTypeOK
<1>4. AllCallsSound'
  <2> SUFFICES ASSUME NEW e \in Job
               PROVE  CallSound(NoCall, ledger[e], worker[e], runs[e], InQueue(e)', "down")
    BY <1>1 DEF AllCallsSound
  <2>1. ~InQueue(e)'
    BY <1>1 DEF InQueue
  <2>2. CallSound(call[e], ledger[e], worker[e], runs[e], InQueue(e), mode)
    BY RowFacts
  <2> QED BY <1>2, <2>1, <2>2 DEF CallSound, Tended, Truthful, Employed, Concluded
<1>5. QueuedOnce'
  BY <1>1 DEF QueuedOnce
<1>6. Known' = Known /\ Owed' \subseteq Owed /\ HeldSlots' \subseteq HeldSlots
  BY <1>1, <1>2 DEF Known, Owed, HeldSlots, Active
<1> QED BY <1>1, <1>3, <1>4, <1>5, <1>6, CountsShrink DEF AgentInv

LEMMA ExitStep ==
  ASSUME AgentInv, Exit
  PROVE  AgentInv'
<1>1. Stop("closing") /\ stops' \in 0..MaxStops
  BY AgentLimits DEF Exit, Stop, AgentInv, Counted, AgentTypeOK
<1> QED BY <1>1, StopStep

LEMMA CrashStep ==
  ASSUME AgentInv, Crash
  PROVE  AgentInv'
<1>1. Stop(mode) /\ stops' \in 0..MaxStops
  BY AgentLimits DEF Crash, AgentInv, AgentTypeOK
<1> QED BY <1>1, StopStep

\* What waits is settled as cancelled, every other call is aborted.
LEMMA ShutdownStep ==
  ASSUME AgentInv, Shutdown
  PROVE  AgentInv'
<1> DEFINE Waits(e) == InQueue(e) \/ call[e].phase = "requested"
           verdict(e) == IF call[e].timedOut THEN "timed-out" ELSE "cancelled"
<1>1. /\ mode = "up" /\ mode' = "closing" /\ queue' = <<>> /\ stops < MaxStops
      /\ call' = [e \in Job |-> IF Waits(e) THEN NoCall
                                ELSE [call[e] EXCEPT !.cancelled = Active(e)]]
      /\ ledger' = [e \in Job |-> IF Waits(e) THEN Settled(ledger[e], verdict(e)) ELSE ledger[e]]
      /\ out' = [e \in Job |-> IF Waits(e) THEN out[e] \cup {"completed"} ELSE out[e]]
      /\ UNCHANGED <<stops, acks, worker, runs>>
  BY DEF Shutdown
<1>2. ASSUME NEW e \in Job
      PROVE  /\ call'[e] \in Call /\ ledger'[e] \in Intent
             /\ ledger'[e].known = ledger[e].known /\ ledger'[e].budget = ledger[e].budget
             /\ ledger'[e].report = "archived" <=> ledger[e].report = "archived"
             /\ call'[e].phase # "none" => call[e].phase # "none"
             /\ CallSound(call'[e], ledger'[e], worker[e], runs[e], FALSE, "closing")
  <2>1. /\ call[e] \in Call /\ ledger[e] \in Intent /\ runs[e] \in 0..2
        /\ worker[e] \in WorkerState /\ InQueue(e) \in BOOLEAN
        /\ CallSound(call[e], ledger[e], worker[e], runs[e], InQueue(e), mode)
    BY RowFacts DEF InQueue
  <2>2. CASE Waits(e)
    <3>1. ledger[e].known /\ ~ledger[e].settled /\ worker[e] = "none"
      BY <2>2, RowFacts, NoWorkerYet
    <3>2. verdict(e) \in Verdict /\ verdict(e) \notin Conclusive
      BY DEF Verdict, Conclusive
    <3> DEFINE intent == Settled(ledger[e], verdict(e))
    <3>3. call'[e] = NoCall /\ ledger'[e] = intent
      BY <1>1, <2>2
    <3> HIDE DEF verdict
    <3>4. /\ intent \in Intent /\ intent.known = ledger[e].known /\ intent.budget = ledger[e].budget
          /\ intent.report = "pending" /\ ledger[e].report = "none"
          /\ CallSound(NoCall, intent, "none", runs[e], FALSE, mode)
      BY <2>1, <3>1, <3>2, SettledSound
    <3>5. NoCall \in Call /\ NoCall.phase = "none"
      BY DEF NoCall, Call, Phase
    <3> HIDE DEF intent
    <3> QED BY <1>1, <3>1, <3>3, <3>4, <3>5 DEF CallSound, Tended, Employed
  <2>3. CASE ~Waits(e)
    <3> DEFINE c == [call[e] EXCEPT !.cancelled = Active(e)]
    <3>1. call'[e] = c /\ ledger'[e] = ledger[e] /\ ~InQueue(e)
      BY <1>1, <2>3
    <3>2. c \in Call /\ c.phase = call[e].phase /\ c.output = call[e].output
      BY <2>1 DEF Call, Active
    <3> HIDE DEF c
    <3> QED BY <1>1, <2>1, <3>1, <3>2 DEF CallSound, Tended, Employed, Concluded
  <2> QED BY <2>2, <2>3
<1>3. out' \in [Job -> SUBSET MessageKind]
  BY <1>1, LineFacts DEF MessageKind
<1>4. AgentTypeOK'
  <2>1. call' \in [Job -> Call] /\ ledger' \in [Job -> Intent]
    BY <1>1, <1>2
  <2> QED BY <1>1, <1>3, <2>1 DEF AgentInv, AgentTypeOK
<1>5. AllCallsSound' /\ QueuedOnce'
  <2>1. \A e \in Job : ~InQueue(e)'
    BY <1>1 DEF InQueue
  <2>2. \A e \in Job : CallSound(call'[e], ledger'[e], worker'[e], runs'[e], InQueue(e)', mode')
    BY <1>1, <1>2, <2>1 DEF CallSound, Tended, Employed
  <2> QED BY <1>1, <2>2 DEF AllCallsSound, QueuedOnce
<1>6. Known' = Known /\ Owed' \subseteq Owed /\ HeldSlots' \subseteq HeldSlots
  BY <1>2 DEF Known, Owed, HeldSlots, Active
<1>7. mode' = "closing" => stops' < MaxStops
  BY <1>1
<1> QED BY <1>4, <1>5, <1>6, <1>7, CountsShrink DEF AgentInv

\* No worker of the process before is left, and what it left open is settled.
LEMMA RestartStep ==
  ASSUME AgentInv, Restart
  PROVE  AgentInv'
<1> DEFINE Open(e) == ledger[e].known /\ ~ledger[e].settled
<1>1. /\ mode = "down" /\ mode' = "up"
      /\ worker' = [e \in Job |-> "none"]
      /\ ledger' = [e \in Job |-> IF Open(e) THEN Settled(ledger[e], "interrupted") ELSE ledger[e]]
      /\ out' = [e \in Job |-> IF Open(e) THEN out[e] \cup {"completed"} ELSE out[e]]
      /\ UNCHANGED <<stops, call, queue, acks, runs>>
  BY DEF Restart, volatile
<1>2. ASSUME NEW e \in Job
      PROVE  /\ ledger'[e] \in Intent
             /\ ledger'[e].known = ledger[e].known /\ ledger'[e].budget = ledger[e].budget
             /\ ledger'[e].report = "archived" <=> ledger[e].report = "archived"
             /\ ~InQueue(e)
             /\ CallSound(call[e], ledger'[e], "none", runs[e], FALSE, "up")
  <2>1. /\ call[e] \in Call /\ ledger[e] \in Intent /\ runs[e] \in 0..2
        /\ worker[e] \in WorkerState /\ InQueue(e) \in BOOLEAN
        /\ CallSound(call[e], ledger[e], worker[e], runs[e], InQueue(e), mode)
    BY RowFacts DEF InQueue
  <2>2. call[e].phase = "none" /\ ~InQueue(e)
    BY <1>1, <2>1 DEF CallSound, Tended
  <2>3. CASE Open(e)
    <3> DEFINE intent == Settled(ledger[e], "interrupted")
    <3>1. ledger'[e] = intent
      BY <1>1, <2>3
    <3>2. /\ intent \in Intent /\ intent.known = ledger[e].known /\ intent.budget = ledger[e].budget
          /\ intent.report = "pending" /\ ledger[e].report = "none"
          /\ CallSound(NoCall, intent, "none", runs[e], FALSE, mode)
      <4>1. "interrupted" \in Verdict /\ "interrupted" \notin Conclusive
        BY DEF Verdict, Conclusive
      <4> QED BY <2>1, <2>3, <4>1, SettledSound
    <3>3. NoCall \in Call /\ NoCall.phase = "none"
      BY DEF NoCall, Call, Phase
    <3>4. call[e].output = "none"
      BY <2>1, <2>2 DEF CallSound, Concluded
    <3> HIDE DEF intent
    <3> QED BY <2>2, <3>1, <3>2, <3>3, <3>4 DEF CallSound, Tended, Truthful, Employed, Concluded
  <2>4. CASE ~Open(e)
    <3>1. ledger'[e] = ledger[e]
      BY <1>1, <2>4
    <3> QED BY <2>1, <2>2, <2>4, <3>1 DEF CallSound, Tended, Truthful, Employed, Concluded
  <2> QED BY <2>3, <2>4
<1>3. out' \in [Job -> SUBSET MessageKind]
  BY <1>1, LineFacts DEF MessageKind
<1>4. AgentTypeOK'
  BY <1>1, <1>2, <1>3 DEF AgentInv, AgentTypeOK
<1>5. AllCallsSound' /\ QueuedOnce'
  <2>1. \A e \in Job : ~InQueue(e)'
    BY <1>1, <1>2 DEF InQueue
  <2>2. \A e \in Job : CallSound(call'[e], ledger'[e], worker'[e], runs'[e], InQueue(e)', mode')
    BY <1>1, <1>2, <2>1 DEF CallSound, Tended, Employed
  <2> QED BY <1>1, <2>2 DEF AgentInv, AllCallsSound, QueuedOnce
<1>6. Known' = Known /\ Owed' \subseteq Owed /\ HeldSlots' \subseteq HeldSlots
  BY <1>1, <1>2 DEF Known, Owed, HeldSlots, Active
<1> QED BY <1>1, <1>4, <1>5, <1>6, CountsShrink DEF AgentInv
-----------------------------------------------------------------------------
(***************************************************************************)
(* What a step may do to an execution                                      *)
(***************************************************************************)

\* The execution has used a permit.
Permitted(e) == call[e].phase \in Started \/ ledger[e].fact # "not-started"

\* What is concluded stays concluded, and a conclusion comes with its message.
Concludes(e) ==
  /\ ledger[e].settled =>
       /\ ledger'[e].settled /\ ledger'[e].verdict = ledger[e].verdict
       /\ ledger'[e].report \in {ledger[e].report, "archived"}
       /\ runs'[e] = runs[e]
  /\ ledger'[e].settled /\ ~ledger[e].settled => "completed" \in out'[e]
  /\ "completed" \in out'[e] => "completed" \in out[e] \/ ledger'[e].settled

\* Only a delivery makes an execution known, only a permit lets it start, only
\* a receipt takes a message back, only an archive receipt a report, and only
\* its worker calls Core.
Moves(e, cause) ==
  /\ Concludes(e)
  /\ cause = "delivery" \/ ledger'[e].known = ledger[e].known
  /\ cause = "permit" \/ (Permitted(e)' => Permitted(e))
  /\ cause = "receipt" \/ out[e] \subseteq out'[e]
  /\ cause = "archive" \/ (ledger'[e].report = "archived" => ledger[e].report = "archived")
  /\ cause = "run" \/ runs'[e] = runs[e]

\* An execution whose row does not change.
LEMMA Unmoved ==
  ASSUME NEW x \in Job, NEW cause, ledger'[x] = ledger[x], call'[x] = call[x],
         out'[x] = out[x], runs'[x] = runs[x]
  PROVE  Moves(x, cause)
  BY DEF Moves, Concludes, Permitted

\* A call that finishes moves as a conclusion must.
LEMMA FinishMoves ==
  ASSUME AgentInv, NEW e \in Job, NEW v, Finish(e, v), ~ledger[e].settled, UNCHANGED runs,
         NEW x \in Job, NEW cause
  PROVE  Moves(x, cause)
<1>1. /\ ledger'[e].settled /\ ledger'[e].known = ledger[e].known
      /\ ledger'[e].report = "pending" /\ ledger'[e].fact = ledger[e].fact
      /\ out'[e] = out[e] \cup {"completed"} /\ call'[e].phase = "none"
      /\ x # e => ledger'[x] = ledger[x] /\ call'[x] = call[x] /\ out'[x] = out[x]
  <2>1. Settled(ledger[e], v) = [ledger[e] EXCEPT !.settled = TRUE, !.verdict = v,
                                                  !.report = "pending"]
    BY DEF Settled
  <2>2. /\ ledger[e] \in Intent /\ ledger' = [ledger EXCEPT ![e] = Settled(ledger[e], v)]
        /\ call' = [call EXCEPT ![e] = NoCall]
        /\ out' = [out EXCEPT ![e] = out[e] \cup {"completed"}]
    BY RowFacts DEF Finish
  <2>3. NoCall.phase = "none"
    BY DEF NoCall
  <2> QED BY <2>1, <2>2, <2>3, LineFacts DEF Intent
<1>2. CASE x = e
  BY <1>1, <1>2 DEF Moves, Concludes, Permitted, Started
<1>3. CASE x # e
  BY <1>1, <1>3, Unmoved
<1> QED BY <1>2, <1>3

\* Aborting concludes or notes; neither starts anything.
LEMMA AbortMoves ==
  ASSUME AgentInv, NEW e \in Job, NEW aborted \in Call, aborted.phase = call[e].phase, Active(e),
         Abort(e, aborted), UNCHANGED runs, NEW x \in Job, NEW cause
  PROVE  Moves(x, cause)
<1>1. CASE call[e].phase = "requested"
  BY <1>1, RowFacts, FinishMoves DEF Abort
<1>2. CASE call[e].phase # "requested"
  <2>1. /\ call'[x].phase = call[x].phase
        /\ ledger'[x] = ledger[x] /\ out'[x] = out[x] /\ runs'[x] = runs[x]
    BY <1>2, LineFacts DEF Abort, durable
  <2> QED BY <2>1 DEF Moves, Concludes, Permitted
<1> QED BY <1>1, <1>2

\* The steps of an execution need nothing from the service, and no other step
\* than the worker's call of Core is a run.
LEMMA ExecutionMoves ==
  ASSUME AgentInv, NEW e \in Job, ExecutionStep(e), NEW x \in Job
  PROVE  /\ Moves(x, "run")
         /\ Moves(x, "none") \/ (x = e /\ BusinessStart(e))
<1>1. /\ call[e] \in Call /\ ledger[e] \in Intent /\ out[e] \subseteq MessageKind
      /\ Active(e) => ~ledger[e].settled
      /\ call \in [Job -> Call] /\ ledger \in [Job -> Intent]
      /\ out \in [Job -> SUBSET MessageKind] /\ runs \in [Job -> 0..2]
      /\ CallSound(call[e], ledger[e], worker[e], runs[e], InQueue(e), mode)
  BY RowFacts, LineFacts
<1>2. Moves(x, "none") => Moves(x, "run")
  BY DEF Moves
<1>3. CASE Deadline(e)
  <2> DEFINE aborted == [call[e] EXCEPT !.timedOut = TRUE]
  <2>1. aborted \in Call /\ aborted.phase = call[e].phase
    BY <1>1 DEF Call
  <2>2. Active(e) /\ Abort(e, aborted) /\ UNCHANGED runs
    BY <1>3 DEF Deadline, AgentSame
  <2> HIDE DEF aborted
  <2>3. Moves(x, "none")
    BY <2>1, <2>2, AbortMoves
  <2> QED BY <1>2, <2>3
<1>4. ASSUME NEW v, Finish(e, v), Active(e), UNCHANGED runs
      PROVE  Moves(x, "run") /\ Moves(x, "none")
  BY <1>1, <1>4, FinishMoves
<1>5. CASE FailPreparation(e)
  BY <1>4, <1>5 DEF FailPreparation, Active, AgentSame
<1>6. CASE FinishRun(e)
  <2>1. Active(e) /\ UNCHANGED runs /\ \E v : Finish(e, v)
    BY <1>6, Zenon DEF FinishRun, Active, AgentSame
  <2> QED BY <1>4, <2>1
<1>7. CASE Reserve(e)
  <2>1. /\ ledger'[x].settled = ledger[x].settled /\ ledger'[x].verdict = ledger[x].verdict
        /\ ledger'[x].report = ledger[x].report /\ ledger'[x].known = ledger[x].known
        /\ ledger'[x].fact = ledger[x].fact
        /\ UNCHANGED <<call, out, runs>>
    BY <1>1, <1>7 DEF Reserve, AgentSame, Intent
  <2> QED BY <2>1 DEF Moves, Concludes, Permitted
<1>8. CASE CheckPreparation(e) \/ RequestStart(e) \/ Announce(e)
  <2>1. /\ ledger' = ledger /\ runs' = runs /\ out[x] \subseteq out'[x]
        /\ "completed" \in out'[x] => "completed" \in out[x]
        /\ call'[x].phase \in Started => call[x].phase \in Started
    BY <1>1, <1>8
      DEF CheckPreparation, RequestStart, Announce, AgentSame, durable, Call, Started
  <2> QED BY <2>1 DEF Moves, Concludes, Permitted
<1>9. CASE WorkerReady(e) \/ WorkerExit(e)
  <2>1. UNCHANGED <<call, ledger, out, runs>>
    BY <1>9 DEF WorkerReady, WorkerExit, durable, volatile
  <2> QED BY <2>1 DEF Moves, Concludes, Permitted
<1>10. CASE Launch(e)
  <2>1. /\ ~ledger[e].settled /\ Permitted(e)
        /\ ledger'[x].settled = ledger[x].settled /\ ledger'[x].known = ledger[x].known
        /\ ledger'[x].report = ledger[x].report /\ ledger'[x].verdict = ledger[x].verdict
        /\ x # e => ledger'[x] = ledger[x] /\ call'[x] = call[x]
        /\ UNCHANGED <<out, runs>>
    BY <1>1, <1>10 DEF Launch, AgentSame, Intent, Active, Permitted, Started
  <2> QED BY <2>1 DEF Moves, Concludes, Permitted
<1>11. CASE BusinessStart(e)
  <2>1. /\ ~ledger[e].settled /\ UNCHANGED <<call, ledger, out>>
        /\ x # e => runs'[x] = runs[x]
    BY <1>1, <1>11 DEF BusinessStart, durable, volatile, CallSound, Employed
  <2> QED BY <1>11, <2>1 DEF Moves, Concludes, Permitted
<1>12. CASE ConfirmStart(e)
  <2>1. /\ Permitted(e)
        /\ ledger'[x].settled = ledger[x].settled /\ ledger'[x].known = ledger[x].known
        /\ ledger'[x].report = ledger[x].report /\ ledger'[x].verdict = ledger[x].verdict
        /\ x # e => ledger'[x] = ledger[x]
        /\ UNCHANGED <<call, out, runs>>
    BY <1>1, <1>12 DEF ConfirmStart, AgentSame, Intent, Permitted, Started
  <2> QED BY <2>1 DEF Moves, Concludes, Permitted
<1>13. CASE \E output \in Conclusive \cup {"none"} : WorkerDone(e, output)
  <2>1. /\ UNCHANGED <<ledger, out, runs>>
        /\ call'[x].phase \in Started => call[x].phase \in Started
    BY <1>1, <1>13 DEF WorkerDone, AgentSame, durable, Call, Started
  <2> QED BY <2>1 DEF Moves, Concludes, Permitted
<1> QED BY <1>3, <1>5, <1>6, <1>7, <1>8, <1>9, <1>10, <1>11, <1>12, <1>13 DEF ExecutionStep

\* The ledger once a delivery was recorded.
LEMMA KnownNow ==
  ASSUME AgentInv, NEW e \in Job, NEW intents, intents = [ledger EXCEPT ![e].known = TRUE],
         NEW x \in Job
  PROVE  /\ ledger[x] \in Intent /\ intents[x] \in Intent
         /\ intents[x].settled = ledger[x].settled /\ intents[x].verdict = ledger[x].verdict
         /\ intents[x].fact = ledger[x].fact /\ intents[x].report = ledger[x].report
         /\ intents[x].report \in {ledger[x].report, "archived"}
         /\ x # e => intents[x] = ledger[x]
<1> DEFINE new == [ledger[e] EXCEPT !.known = TRUE]
<1>1. ledger[e] \in Intent /\ ledger[x] \in Intent
  BY RowFacts
<1>2. new \in Intent /\ new.settled = ledger[e].settled /\ new.verdict = ledger[e].verdict
      /\ new.fact = ledger[e].fact
      /\ new.report = ledger[e].report
      /\ new.report \in {ledger[e].report, "archived"}
  BY <1>1 DEF Intent
<1>3. (x = e => intents[x] = new) /\ (x # e => intents[x] = ledger[x])
  BY LineFacts
<1> HIDE DEF new
<1> QED BY <1>1, <1>2, <1>3

\* The ledger once a report was archived.
LEMMA ArchivedNow ==
  ASSUME AgentInv, NEW e \in Job, NEW intents, intents = [ledger EXCEPT ![e].report = "archived"],
         NEW x \in Job
  PROVE  /\ ledger[x] \in Intent /\ intents[x] \in Intent
         /\ intents[x].settled = ledger[x].settled /\ intents[x].verdict = ledger[x].verdict
         /\ intents[x].fact = ledger[x].fact /\ intents[x].known = ledger[x].known
         /\ intents[x].report \in {ledger[x].report, "archived"}
         /\ x # e => intents[x] = ledger[x]
<1> DEFINE new == [ledger[e] EXCEPT !.report = "archived"]
<1>1. ledger[e] \in Intent /\ ledger[x] \in Intent
  BY RowFacts
<1>2. new \in Intent /\ new.settled = ledger[e].settled /\ new.verdict = ledger[e].verdict
      /\ new.fact = ledger[e].fact /\ new.known = ledger[e].known
      /\ new.report \in {ledger[e].report, "archived"}
  BY <1>1 DEF Intent
<1>3. (x = e => intents[x] = new) /\ (x # e => intents[x] = ledger[x])
  BY LineFacts
<1> HIDE DEF new
<1> QED BY <1>1, <1>2, <1>3

\* Who is admitted has not ended; whoever is unfit ends then and there, before
\* anything has been started.
LEMMA PumpMoves ==
  ASSUME AgentInv, NEW line \in Seq(Job), NEW intents, Pumped(line, intents, call), UNCHANGED runs,
         \A e \in Job : intents[e].report \in {ledger[e].report, "archived"},
         NEW x \in Job, NEW cause, ledger[x] \in Intent, intents[x] \in Intent,
         \A i \in 1..Len(line) : line[i] = x => ~ledger[x].settled,
         intents[x].settled = ledger[x].settled,
         intents[x].verdict = ledger[x].verdict, intents[x].fact = ledger[x].fact,
         cause = "delivery" \/ intents[x].known = ledger[x].known,
         cause = "archive" \/ intents[x].report = ledger[x].report
  PROVE  Moves(x, cause)
<1> DEFINE held == {e \in Job : call[e].phase # "none"}
           all == {e \in Job : intents[e].report = "pending" \/ call[e].phase # "none"}
<1>1. PICK n \in 0..Len(line) : \E unfit : Admits(line, intents, call, n, unfit)
  <2>1. HeldSlots = held
    BY DEF HeldSlots, Active
  <2>2. \A e \in Job : ledger[e].report = "pending" \/ call[e].phase # "none" => ledger[e].known
    BY RowFacts DEF CallSound, Tended, Concluded
  <2>3. all \subseteq Known
    BY <2>2 DEF Known
  <2>4. IsFiniteSet(all) /\ Cardinality(held) <= MaxSlots
    <3> HIDE DEF all, held
    <3> QED BY <2>1, <2>3, LineFacts, FS_Subset
  <2> QED BY <2>4, PumpAdmits
<1>2. PICK unfit : Admits(line, intents, call, n, unfit)
  BY <1>1
<1>3. /\ x \in unfit => ~ledger[x].settled
      /\ ledger'[x] = IF x \in unfit THEN Settled(intents[x], "rejected") ELSE intents[x]
      /\ x \in unfit => out'[x] = out[x] \cup {"completed"}
      /\ x \notin unfit => out'[x] \in {out[x], out[x] \cup {"accepted"}}
      /\ call'[x].phase \in {call[x].phase, "loading"}
  <2>1. Loading.phase = "loading"
    BY DEF Loading, NoCall
  <2>2. x \in unfit => ~ledger[x].settled
    BY <1>1, <1>2 DEF Admits, Taken
  <2>3. /\ ledger'[x] = IF x \in unfit THEN Settled(intents[x], "rejected") ELSE intents[x]
        /\ call'[x].phase \in {call[x].phase, "loading"}
    BY <1>2, <2>1 DEF Admits
  <2>4. /\ x \in unfit => out'[x] = out[x] \cup {"completed"}
        /\ x \notin unfit => out'[x] \in {out[x], out[x] \cup {"accepted"}}
    BY <1>2 DEF Admits
  <2> QED BY <2>2, <2>3, <2>4
<1>4. CASE x \in unfit
  <2>1. /\ ~ledger[x].settled /\ out'[x] = out[x] \cup {"completed"}
        /\ ledger'[x].settled /\ ledger'[x].known = intents[x].known
        /\ ledger'[x].report = "pending" /\ ledger'[x].fact = ledger[x].fact
    BY <1>3, <1>4 DEF Settled, Intent
  <2> QED BY <1>3, <2>1 DEF Moves, Concludes, Permitted, Started
<1>5. CASE x \notin unfit
  BY <1>3, <1>5 DEF Moves, Concludes, Permitted, Started
<1> QED BY <1>4, <1>5

\* What the process does to all executions at once.
LEMMA ProcessMoves ==
  ASSUME AgentInv, ProcessStep, NEW x \in Job
  PROVE  Moves(x, "none")
<1>1. /\ call[x] \in Call /\ ledger[x] \in Intent /\ NoCall.phase = "none"
      /\ InQueue(x) \/ call[x].phase = "requested" => ~ledger[x].settled
  BY RowFacts, NoWorkerYet DEF NoCall
<1>2. CASE Pump
  BY <1>1, <1>2, LineFacts, PumpMoves DEF Pump, InQueue
<1>3. ASSUME NEW v, ledger'[x] = Settled(ledger[x], v), ~ledger[x].settled,
             out'[x] = out[x] \cup {"completed"}, UNCHANGED runs,
             call'[x].phase \in Started => call[x].phase \in Started
      PROVE  Moves(x, "none")
  <2>1. /\ ledger'[x].settled /\ ledger'[x].known = ledger[x].known
        /\ ledger'[x].report = "pending" /\ ledger'[x].fact = ledger[x].fact
    BY <1>1, <1>3 DEF Settled, Intent
  <2> QED BY <1>3, <2>1 DEF Moves, Concludes, Permitted
<1>4. ASSUME ledger'[x] = ledger[x], out'[x] = out[x], UNCHANGED runs,
             call'[x].phase \in Started => call[x].phase \in Started
      PROVE  Moves(x, "none")
  BY <1>4 DEF Moves, Concludes, Permitted
<1>5. CASE Shutdown
  <2>1. CASE InQueue(x) \/ call[x].phase = "requested"
    <3>1. /\ call'[x] = NoCall /\ out'[x] = out[x] \cup {"completed"} /\ UNCHANGED runs
          /\ \E v : ledger'[x] = Settled(ledger[x], v)
      BY <1>5, <2>1 DEF Shutdown
    <3> QED BY <1>1, <1>3, <2>1, <3>1 DEF Started
  <2>2. CASE ~(InQueue(x) \/ call[x].phase = "requested")
    <3>1. /\ call'[x] = [call[x] EXCEPT !.cancelled = Active(x)]
          /\ ledger'[x] = ledger[x] /\ out'[x] = out[x] /\ UNCHANGED runs
      BY <1>5, <2>2 DEF Shutdown
    <3>2. call'[x].phase = call[x].phase
      BY <1>1, <3>1 DEF Call
    <3> QED BY <1>4, <3>1, <3>2
  <2> QED BY <2>1, <2>2
<1>6. CASE Exit \/ Crash
  <2>1. UNCHANGED <<ledger, out, runs>> /\ call' = [e \in Job |-> NoCall]
    BY <1>6 DEF Exit, Crash, Stop, durable
  <2> QED BY <1>1, <1>4, <2>1 DEF Started
<1>7. CASE Restart
  <2>1. UNCHANGED <<call, runs>>
    BY <1>7 DEF Restart, volatile
  <2>2. CASE ledger[x].known /\ ~ledger[x].settled
    <3>1. ledger'[x] = Settled(ledger[x], "interrupted") /\ out'[x] = out[x] \cup {"completed"}
      BY <1>7, <2>2 DEF Restart
    <3> QED BY <1>3, <2>1, <2>2, <3>1
  <2>3. CASE ~(ledger[x].known /\ ~ledger[x].settled)
    <3>1. ledger'[x] = ledger[x] /\ out'[x] = out[x]
      BY <1>7, <2>3 DEF Restart
    <3> QED BY <1>4, <2>1, <3>1
  <2> QED BY <2>2, <2>3
<1> QED BY <1>2, <1>5, <1>6, <1>7 DEF ProcessStep

\* What a delivery, a command, a receipt or an acknowledgement does.  Anything
\* it changes without a cause of its own, it changes for its own execution.
LEMMA DeliveryMoves ==
  ASSUME AgentInv, NEW e \in Job, ReceiveDelivery(e), NEW x \in Job
  PROVE  Moves(x, "delivery") /\ (x # e => Moves(x, "none"))
<1>1. UNCHANGED runs
  BY DEF ReceiveDelivery
<1>2. CASE UNCHANGED <<call, durable>>
  BY <1>1, <1>2 DEF durable, Moves, Concludes, Permitted
<1>3. ASSUME ~ledger[e].known, Pumped(Append(queue, e), [ledger EXCEPT ![e].known = TRUE], call)
      PROVE  Moves(x, "delivery") /\ (x # e => Moves(x, "none"))
  <2> DEFINE line == Append(queue, e)
  <2>1. PICK intents : intents = [ledger EXCEPT ![e].known = TRUE]
    OBVIOUS
  <2>2. /\ ledger[x] \in Intent /\ intents[x] \in Intent
        /\ intents[x].settled = ledger[x].settled /\ intents[x].verdict = ledger[x].verdict
        /\ intents[x].fact = ledger[x].fact /\ intents[x].report = ledger[x].report
        /\ x # e => intents[x] = ledger[x]
    <3>1. ledger[x] \in Intent /\ intents[x] \in Intent
      BY <2>1, KnownNow
    <3>2. intents[x].settled = ledger[x].settled
      BY <2>1, KnownNow
    <3>3. intents[x].verdict = ledger[x].verdict
      BY <2>1, KnownNow
    <3>4. intents[x].fact = ledger[x].fact /\ intents[x].report = ledger[x].report
      BY <2>1, KnownNow
    <3>5. x # e => intents[x] = ledger[x]
      BY <2>1, KnownNow
    <3> QED BY <3>1, <3>2, <3>3, <3>4, <3>5
  <2>3. \A y \in Job : intents[y].report \in {ledger[y].report, "archived"}
    BY <2>1, KnownNow
  <2>4. /\ ~ledger[e].settled /\ queue \in Seq(Job) /\ Len(queue) \in Nat
        /\ \A i \in 1..Len(queue) : queue[i] = x => ~ledger[x].settled
    BY <1>3, RowFacts, LineFacts DEF CallSound, Tended, Concluded, InQueue
  <2>5. /\ \A i \in 1..Len(line) : line[i] = x => ~ledger[x].settled
        /\ line \in Seq(Job) /\ Len(line) \in Nat
    BY <2>4
  <2>6. Pumped(line, intents, call)
    BY <1>3, <2>1
  <2> HIDE DEF line
  <2> QED BY <1>1, <2>2, <2>3, <2>5, <2>6, PumpMoves
<1> QED BY <1>2, <1>3 DEF ReceiveDelivery

LEMMA CommandMoves ==
  ASSUME AgentInv, NEW e \in Job,
         CancelCommand(e) \/ \E reason \in DenialReason : RefuseCommand(e, reason),
         NEW x \in Job
  PROVE  Moves(x, "none")
<1>1. UNCHANGED runs
  BY DEF CancelCommand, RefuseCommand
<1>2. CASE Active(e) /\ Abort(e, [call[e] EXCEPT !.cancelled = TRUE])
  <2> DEFINE aborted == [call[e] EXCEPT !.cancelled = TRUE]
  <2>1. aborted \in Call /\ aborted.phase = call[e].phase
    BY RowFacts DEF Call
  <2> HIDE DEF aborted
  <2> QED BY <1>1, <1>2, <2>1, AbortMoves DEF aborted
<1>3. CASE Unqueue(e) /\ Finish(e, "cancelled")
  <2>1. ~ledger[e].settled
    BY <1>3, RowFacts DEF Unqueue, InQueue
  <2> QED BY <1>1, <1>3, <2>1, FinishMoves
<1>4. CASE call[e].phase \in {"loading", "cleaning", "requested"} /\ Finish(e, "rejected")
  BY <1>1, <1>4, NoWorkerYet, RowFacts, FinishMoves
<1>5. CASE UNCHANGED <<call, durable>>
  BY <1>1, <1>5, Unmoved DEF durable
<1> QED BY <1>2, <1>3, <1>4, <1>5 DEF CancelCommand, RefuseCommand

LEMMA PermitMoves ==
  ASSUME AgentInv, NEW e \in Job, PermitCommand(e), NEW x \in Job
  PROVE  Moves(x, "permit") /\ (x # e => Moves(x, "none"))
<1>1. UNCHANGED runs
  BY DEF PermitCommand
<1>2. CASE PermitUsed(e)
  <2>1. UNCHANGED <<ledger, out>> /\ (x # e => call'[x] = call[x])
    BY <1>2, LineFacts DEF PermitUsed, durable
  <2> QED BY <1>1, <2>1 DEF Moves, Concludes, Permitted
<1>3. CASE call[e].phase = "requested" /\ Finish(e, "rejected")
  BY <1>1, <1>3, NoWorkerYet, RowFacts, FinishMoves
<1>4. CASE UNCHANGED <<call, durable>>
  BY <1>1, <1>4, Unmoved DEF durable
<1>5. Ack("start-permit", e) => acks' \subseteq CommandKind \X Job
  BY AckTyped DEF CommandKind
<1> QED BY <1>2, <1>3, <1>4, <1>5 DEF PermitCommand, PermitUsed

LEMMA ReceiptMoves ==
  ASSUME AgentInv, NEW e \in Job, NEW k, MessageConfirmed(e, k), NEW x \in Job
  PROVE  Moves(x, "receipt") /\ (x # e => Moves(x, "none")) /\ out[x] \ {k} \subseteq out'[x]
<1>1. /\ UNCHANGED <<call, ledger, runs>> /\ out'[e] = out[e] \ {k}
      /\ x # e => out'[x] = out[x]
  BY LineFacts DEF MessageConfirmed, volatile
<1> QED BY <1>1 DEF Moves, Concludes, Permitted

LEMMA ArchiveMoves ==
  ASSUME AgentInv, NEW e \in Job, ReportArchived(e), NEW x \in Job
  PROVE  Moves(x, "archive") /\ (x # e => Moves(x, "none"))
<1>1. PICK intents : intents = [ledger EXCEPT ![e].report = "archived"]
  OBVIOUS
<1>2. /\ UNCHANGED runs
      /\ Pumped(queue, intents, call) \/ (ledger' = intents /\ UNCHANGED <<call, out>>)
  <2>1. /\ UNCHANGED runs
        /\ \/ Pumped(queue, [ledger EXCEPT ![e].report = "archived"], call)
           \/ /\ ledger' = [ledger EXCEPT ![e].report = "archived"]
              /\ UNCHANGED <<call, out>>
    BY DEF ReportArchived
  <2> QED BY <1>1, <2>1
<1>3. /\ ledger[x] \in Intent /\ intents[x] \in Intent
      /\ intents[x].settled = ledger[x].settled /\ intents[x].verdict = ledger[x].verdict
      /\ intents[x].fact = ledger[x].fact /\ intents[x].known = ledger[x].known
      /\ intents[x].report \in {ledger[x].report, "archived"}
      /\ x # e => intents[x] = ledger[x]
  <2>1. ledger[x] \in Intent /\ intents[x] \in Intent
    BY <1>1, ArchivedNow
  <2>2. intents[x].settled = ledger[x].settled
    BY <1>1, ArchivedNow
  <2>3. intents[x].verdict = ledger[x].verdict
    BY <1>1, ArchivedNow
  <2>4. intents[x].fact = ledger[x].fact
    BY <1>1, ArchivedNow
  <2>5. intents[x].known = ledger[x].known
    BY <1>1, ArchivedNow
  <2>6. intents[x].report \in {ledger[x].report, "archived"} /\ (x # e => intents[x] = ledger[x])
    BY <1>1, ArchivedNow
  <2> QED BY <2>1, <2>2, <2>3, <2>4, <2>5, <2>6
<1>4. /\ queue \in Seq(Job) /\ Len(queue) \in Nat
      /\ \A i \in 1..Len(queue) : queue[i] = x => ~ledger[x].settled
  <2>1. \A i \in 1..Len(queue) : queue[i] = x => InQueue(x)
    BY DEF InQueue
  <2> QED BY <2>1, RowFacts, LineFacts
<1>5. \A y \in Job : intents[y].report \in {ledger[y].report, "archived"}
  BY <1>1, ArchivedNow
<1>6. CASE Pumped(queue, intents, call)
  BY <1>2, <1>3, <1>4, <1>5, <1>6, PumpMoves
<1>7. CASE ledger' = intents /\ UNCHANGED <<call, out>>
  BY <1>2, <1>3, <1>7 DEF Moves, Concludes, Permitted
<1> QED BY <1>2, <1>6, <1>7

LEMMA AcksMoves ==
  ASSUME NEW e \in Job, NEW k, AcksApplied(k, e), NEW x \in Job
  PROVE  Moves(x, "none")
  BY Unmoved DEF AcksApplied, durable
-----------------------------------------------------------------------------
(***************************************************************************)
(* The theorems                                                            *)
(***************************************************************************)

\* The invariant holds at the start.
LEMMA AgentInitInv ==
  AgentInit => AgentInv
<1> SUFFICES ASSUME AgentInit PROVE AgentInv
  OBVIOUS
<1>1. /\ NoCall \in Call /\ NoCall.phase = "none" /\ NoCall.output = "none"
      /\ NoIntent \in Intent /\ ~NoIntent.known /\ ~NoIntent.settled /\ ~NoIntent.budget
      /\ NoIntent.fact = "not-started" /\ NoIntent.verdict = "none" /\ NoIntent.report = "none"
  BY DEF NoCall, Call, Phase, NoIntent, Intent
<1>2. AgentTypeOK
  BY <1>1, AgentLimits DEF AgentInit, AgentTypeOK
<1>3. \A e \in Job : /\ call[e] = NoCall /\ ledger[e] = NoIntent /\ ~InQueue(e)
                     /\ worker[e] = "none" /\ runs[e] = 0
  <2>1. Len(queue) = 0
    BY EmptySeq DEF AgentInit
  <2>2. \A e \in Job : ~InQueue(e)
    BY <2>1 DEF InQueue
  <2>3. \A e \in Job : call[e] = NoCall /\ ledger[e] = NoIntent
    BY DEF AgentInit
  <2>4. \A e \in Job : worker[e] = "none" /\ runs[e] = 0
    BY DEF AgentInit
  <2> QED
    BY <2>2, <2>3, <2>4
<1>4. AllCallsSound
  BY <1>1, <1>3
  DEF AllCallsSound, CallSound, Tended, Truthful, Employed, Concluded, Conclusive, Started
<1>5. QueuedOnce /\ mode # "closing"
  BY DEF AgentInit, QueuedOnce
<1>6. Known = {} /\ Owed = {} /\ HeldSlots = {}
  BY <1>1, <1>3 DEF Known, Owed, HeldSlots, Active
<1>7. Counted
  BY <1>5, <1>6, FS_EmptySet, AgentLimits DEF Counted
<1> QED BY <1>2, <1>4, <1>5, <1>7 DEF AgentInv

LEMMA ExecutionInv ==
  ASSUME AgentInv, NEW e \in Job, ExecutionStep(e)
  PROVE  AgentInv'
  BY DeadlineStep, ReserveStep, CheckPreparationStep, RequestStartStep, FailPreparationStep,
     WorkerReadyStep, AnnounceStep, LaunchStep, BusinessStartStep, ConfirmStartStep,
     WorkerExitStep, FinishRunStep, WorkerDoneStep DEF ExecutionStep

LEMMA ProcessInv ==
  ASSUME AgentInv, ProcessStep
  PROVE  AgentInv'
  BY PumpStep, ShutdownStep, ExitStep, CrashStep, RestartStep DEF ProcessStep

\* Whatever the service sends, and in whatever order.
LEMMA EnvironmentInv ==
  ASSUME AgentInv, NEW e \in Job, Environment(e)
  PROVE  AgentInv'
  BY ReceiveDeliveryStep, CancelCommandStep, PermitCommandStep, RefuseCommandStep,
     MessageConfirmedStep, ReportArchivedStep, AcksAppliedStep DEF Environment

LEMMA StutterInv ==
  ASSUME AgentInv, UNCHANGED agentVars
  PROVE  AgentInv'
<1>1. acks' \subseteq CommandKind \X Job
  BY DEF AgentInv, AgentTypeOK, agentVars
<1> QED BY <1>1, AcksStep DEF agentVars

LEMMA AgentNextInv ==
  AgentInv /\ [AgentNext]_agentVars => AgentInv'
  BY ExecutionInv, ProcessInv, EnvironmentInv, StutterInv DEF AgentNext

\* AgentInv is an invariant of every behaviour of the agent.
THEOREM AgentInductiveInvariant == AgentSpec => []AgentInv
  BY AgentInitInv, AgentNextInv, PTL DEF AgentSpec

\* Every variable keeps its type; in particular Core is never invoked a third
\* time, and a process that closes still has a stop left in the bound.
THEOREM AgentTypeCorrect == AgentSpec => []AgentTypeOK
<1>1. AgentInv => AgentTypeOK  BY DEF AgentInv
<1> QED BY <1>1, AgentInductiveInvariant, PTL

\* Core runs at most once for an execution, whatever permits come again and
\* however often the process stops while a worker lives on.
THEOREM CoreRunsAtMostOnce == AgentSpec => []AtMostOneRun
<1>1. AgentInv => AtMostOneRun
  <2> SUFFICES ASSUME AgentInv
               PROVE  \A e \in Job : runs[e] <= 1
    BY DEF AtMostOneRun
  <2>1. ASSUME NEW e \in Job
        PROVE  runs[e] <= 1
    <3>1. runs[e] \in 0..1
      BY DEF AgentInv, AllCallsSound, CallSound, Truthful
    <3> QED
      BY <3>1
  <2> QED
    BY <2>1, Zenon
<1> QED BY <1>1, AgentInductiveInvariant, PTL

\* What recovery would report of an execution is true at every instant.
THEOREM FactsAreTruthful == AgentSpec => []FactIsTruthful
<1>1. AgentInv => FactIsTruthful
  BY DEF AgentInv, AllCallsSound, CallSound, Truthful, FactIsTruthful
<1> QED BY <1>1, AgentInductiveInvariant, PTL

\* Of a settled execution nothing is left that could still invoke Core.
THEOREM SettledHaveStopped == AgentSpec => []SettledHasStopped
<1>1. AgentInv => SettledHasStopped
  BY DEF AgentInv, AllCallsSound, CallSound, Tended, Employed, SettledHasStopped, Active
<1> QED BY <1>1, AgentInductiveInvariant, PTL

\* An accepted execution is in the queue or in the hands of a call.
THEOREM OpenAreTended == AgentSpec => []OpenIsTended
<1>1. AgentInv => OpenIsTended
  BY DEF AgentInv, AllCallsSound, CallSound, Tended, OpenIsTended, Active
<1> QED BY <1>1, AgentInductiveInvariant, PTL

\* Neither the slots nor the budget for reports is ever exceeded, for every
\* size of both; the reports a crash leaves behind are counted all along.
THEOREM SlotsAreRespected == AgentSpec => []SlotsRespected
<1>1. ASSUME AgentInv PROVE SlotsRespected
  <2>1. \A e \in Job : Active(e) \/ Reported(e) => ledger[e].report # "archived"
    BY <1>1 DEF AgentInv, AllCallsSound, CallSound, Tended, Concluded, Active, Reported
  <2>2. Results \subseteq Owed
    BY <2>1 DEF Results, Owed
  <2>3. IsFiniteSet(Owed) /\ Cardinality(Owed) <= ResultSlots /\ Cardinality(HeldSlots) <= MaxSlots
    BY <1>1, LineFacts DEF AgentInv, Counted
  <2>4. IsFiniteSet(Results) /\ Cardinality(Results) <= Cardinality(Owed)
    BY <2>2, <2>3, FS_Subset
  <2> QED BY <2>3, <2>4, FS_CardinalityType, AgentLimits DEF SlotsRespected
<1> QED BY <1>1, AgentInductiveInvariant, PTL

\* A conclusion is final, whatever comes late and however often it comes.
THEOREM ConclusionsAreFinal == AgentSpec => ConclusionIsFinal
<1>1. AgentInv /\ [AgentNext]_agentVars => [\A e \in Job : Concludes(e)]_agentVars
  <2> SUFFICES ASSUME AgentInv, AgentNext, NEW x \in Job
               PROVE  Concludes(x)
    OBVIOUS
  <2>1. CASE ProcessStep
    BY <2>1, ProcessMoves DEF Moves
  <2>2. ASSUME NEW e \in Job, ExecutionStep(e) PROVE Concludes(x)
    BY <2>2, ExecutionMoves DEF Moves
  <2>3. ASSUME NEW e \in Job, Environment(e) PROVE Concludes(x)
    BY <2>3, DeliveryMoves, CommandMoves, PermitMoves, ReceiptMoves, ArchiveMoves, AcksMoves
    DEF Environment, Moves
  <2> QED BY <2>1, <2>2, <2>3 DEF AgentNext
<1>2. [\A e \in Job : Concludes(e)]_agentVars =>
        [\A e \in Job : ledger[e].settled =>
           /\ ledger'[e].settled /\ ledger'[e].verdict = ledger[e].verdict
           /\ ledger'[e].report \in {ledger[e].report, "archived"}
           /\ runs'[e] = runs[e]]_agentVars
  BY DEF Concludes
<1> QED BY <1>1, <1>2, AgentInductiveInvariant, PTL DEF AgentSpec, ConclusionIsFinal
=============================================================================
