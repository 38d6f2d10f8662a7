----------------------------- MODULE RunnerAgent -----------------------------
(***************************************************************************)
(* One runner agent: apps/runner-agent/src/supervisor.ts with its durable  *)
(* ledger (ledger.ts), its slots (slots.ts) and one dedicated worker       *)
(* process per execution (debugWorker.ts, taskChild.ts).                   *)
(*                                                                         *)
(* JavaScript runs to completion between two awaits, so an action is the   *)
(* code from one await to the next: the phases of a call name the awaits   *)
(* it can be suspended in.  A process stop loses the calls, the queue and  *)
(* the unsent acknowledgements, and keeps the ledger; worker processes are *)
(* processes of their own and may outlive the agent for a while.           *)
(***************************************************************************)
EXTENDS ControlProtocol, Naturals, FiniteSets, Sequences

CONSTANTS
  MaxSlots,     \* maxConcurrentJobs
  ResultSlots,  \* reports that fit pendingResultBytes less faultReserveBytes
  FaultSlots,   \* minimal fault reports that fit faultReserveBytes
  MaxStops      \* bound: how often the process stops in a behaviour

ASSUME AgentLimits == MaxSlots \in Nat \ {0} /\ ResultSlots \in Nat \ {0}
                      /\ FaultSlots \in Nat /\ MaxStops \in Nat

VARIABLES
  mode,    \* up, closing (shutdown waits for its calls) or down
  stops,   \* how often the process has stopped
  call,    \* supervisor.calls: where the handling of an execution is suspended
  queue,   \* supervisor.queue: delivered, waiting for a slot
  acks,    \* the acknowledgements the next exchange will carry
  ledger,  \* the durable intents
  out,     \* the durable outbox: kinds of messages not yet confirmed
  worker,  \* the worker process of an execution
  runs     \* history: how often Core was invoked for an execution

volatile == <<call, queue, acks>>
durable == <<ledger, out>>
agentVars == <<mode, stops, call, queue, acks, ledger, out, worker, runs>>

\* loading: inputs and materials are fetched and checked; cleaning: the last
\* abort check has passed, temporary files are being removed; requested: the
\* start-request is out; starting: the worker boots; announced: started is
\* out; launched: the worker was invoked; ending: its result is known and
\* only its exit is awaited.
Phase == {"none", "loading", "cleaning", "requested", "starting", "announced",
          "launched", "ending"}
Call == [phase : Phase, cancelled : BOOLEAN, timedOut : BOOLEAN,
         output : Conclusive \cup {"none"}]
NoCall == [phase |-> "none", cancelled |-> FALSE, timedOut |-> FALSE, output |-> "none"]

Intent == [known : BOOLEAN, fact : {"not-started", "uncertain", "started"},
           budget : BOOLEAN, settled : BOOLEAN, verdict : Verdict \cup {"none"},
           report : {"none", "pending", "archived"}]
NoIntent == [known |-> FALSE, fact |-> "not-started", budget |-> FALSE,
             settled |-> FALSE, verdict |-> "none", report |-> "none"]

AgentTypeOK ==
  /\ mode \in {"up", "closing", "down"} /\ stops \in 0..MaxStops
  /\ call \in [Job -> Call]
  /\ queue \in Seq(Job)
  /\ acks \subseteq CommandKind \X Job
  /\ ledger \in [Job -> Intent]
  /\ out \in [Job -> SUBSET MessageKind]
  /\ worker \in [Job -> {"none", "booting", "ready", "invoked", "business"}]
  /\ runs \in [Job -> 0..2]

AgentInit ==
  /\ mode = "up" /\ stops = 0
  /\ call = [e \in Job |-> NoCall]
  /\ queue = <<>>
  /\ acks = {}
  /\ ledger = [e \in Job |-> NoIntent]
  /\ out = [e \in Job |-> {}]
  /\ worker = [e \in Job |-> "none"]
  /\ runs = [e \in Job |-> 0]
-----------------------------------------------------------------------------
(***************************************************************************)
(* Slots, the pump and settlement                                          *)
(***************************************************************************)

Active(e) == call[e].phase # "none"
Aborted(e) == call[e].cancelled \/ call[e].timedOut
HeldSlots == {e \in Job : Active(e)}
Reported(e) == ledger[e].report = "pending"

\* Reports promised or waiting for upload, and fault reports of executions
\* that ended before a budget was fixed for them.
Results == {e \in Job : ledger[e].budget /\ (Active(e) \/ Reported(e))}
Faults == {e \in Job : ~ledger[e].budget /\ Reported(e)}
CanReserveResult ==
  Cardinality(Faults) + Cardinality(HeldSlots) < FaultSlots /\ Cardinality(Results) < ResultSlots

Monus(m, n) == IF m > n THEN m - n ELSE 0
Least(m, n) == IF m < n THEN m ELSE n
\* Mutant: the slots in use are not taken off.
AllSlots(held, faults, results) == IF results < ResultSlots THEN MaxSlots ELSE 0

FreeSlots(held, faults, results) ==
  IF results < ResultSlots
  THEN Least(Monus(MaxSlots, held), Monus(FaultSlots, faults + held)) ELSE 0

\* ledger.settle: the conclusion, its report and the completed message are
\* one durable write.
Settled(intent, verdict) ==
  [intent EXCEPT !.settled = TRUE, !.verdict = verdict, !.report = "pending"]

\* The pump admits the head of the queue while a slot can be reserved; an
\* admitted execution announces that it was accepted before its first await,
\* unless it is unfit for the runtime of this process (validateRuntime).
Pumped(line, intents, unfinished) ==
  LET waiting == {e \in Job : intents[e].report = "pending"}
      held == {e \in Job : unfinished[e].phase # "none"}
      results == {e \in Job : intents[e].budget /\ (e \in waiting \/ e \in held)}
      n == Least(Len(line), FreeSlots(Cardinality(held),
                                      Cardinality({e \in waiting : ~intents[e].budget}),
                                      Cardinality(results)))
      admitted == {line[i] : i \in 1..n}
  IN /\ queue' = SubSeq(line, n + 1, Len(line))
     /\ \E unfit \in SUBSET admitted :
          /\ call' = [e \in Job |-> IF e \in admitted \ unfit
                                    THEN [NoCall EXCEPT !.phase = "loading"] ELSE unfinished[e]]
          /\ ledger' = [e \in Job |-> IF e \in unfit THEN Settled(intents[e], "rejected")
                                      ELSE intents[e]]
          /\ out' = [e \in Job |-> CASE e \in unfit -> out[e] \cup {"completed"}
                                     [] e \in admitted \ unfit -> out[e] \cup {"accepted"}
                                     [] OTHER -> out[e]]

\* finish: the slot is free again and the result is durable.  The pump that
\* follows an awaited send is the action Pump.
Finish(e, verdict) ==
  /\ call' = [call EXCEPT ![e] = NoCall]
  /\ ledger' = [ledger EXCEPT ![e] = Settled(@, verdict)]
  /\ out' = [out EXCEPT ![e] = @ \cup {"completed"}]

\* What an aborted call concludes, and what it concludes otherwise.
Conclusion(e, otherwise) ==
  IF call[e].timedOut THEN "timed-out"
  ELSE IF call[e].cancelled THEN "cancelled" ELSE otherwise

\* Mutant: an aborted call is finished without waiting for its worker.
AbortAtOnce(e, aborted) == Finish(e, IF aborted.timedOut THEN "timed-out" ELSE "cancelled")

\* Aborting a call that waits for its permit finishes it on the spot; any
\* other call notices the abort at its next check, its worker at once.
Abort(e, aborted) ==
  IF call[e].phase = "requested"
  THEN Finish(e, IF aborted.timedOut THEN "timed-out" ELSE "cancelled")
  ELSE /\ call' = [call EXCEPT ![e] = aborted]
       /\ UNCHANGED durable

Pump ==
  /\ mode = "up" /\ queue # <<>>
  /\ CanReserveResult /\ Cardinality(HeldSlots) < MaxSlots
  /\ Pumped(queue, ledger, call)
  /\ UNCHANGED <<mode, stops, acks, worker, runs>>
-----------------------------------------------------------------------------
(***************************************************************************)
(* What the control service sends                                          *)
(***************************************************************************)

Ack(k, e) == acks' = acks \cup {<<k, e>>}

\* A delivery that does not fit is left unacknowledged and comes again.
ReceiveDelivery(e) ==
  /\ mode = "up"
  /\ Ack("delivery", e)
  /\ \/ ledger[e].known /\ UNCHANGED <<call, queue, durable>>
     \/ /\ ~ledger[e].known /\ CanReserveResult
        /\ Pumped(Append(queue, e), [ledger EXCEPT ![e].known = TRUE], call)
  /\ UNCHANGED <<mode, stops, worker, runs>>

InQueue(e) == \E i \in 1..Len(queue) : queue[i] = e

\* queue.findIndex and queue.splice(index, 1).
Unqueue(e) ==
  \E i \in 1..Len(queue) :
    /\ queue[i] = e
    /\ queue' = SubSeq(queue, 1, i - 1) \o SubSeq(queue, i + 1, Len(queue))

\* Mutant: a queued delivery is dropped, its intent stays open.
CancelForgetting(e) ==
  /\ mode = "up"
  /\ Ack("cancel", e)
  /\ \/ /\ Active(e)
        /\ Abort(e, [call[e] EXCEPT !.cancelled = TRUE])
        /\ UNCHANGED queue
     \/ /\ ~Active(e) /\ (Unqueue(e) \/ (~InQueue(e) /\ UNCHANGED queue))
        /\ UNCHANGED <<call, durable>>
  /\ UNCHANGED <<mode, stops, worker, runs>>

\* A cancel is acknowledged whether or not it found something to cancel.
CancelCommand(e) ==
  /\ mode = "up"
  /\ Ack("cancel", e)
  /\ \/ /\ Active(e)
        /\ Abort(e, [call[e] EXCEPT !.cancelled = TRUE])
        /\ UNCHANGED queue
     \/ /\ ~Active(e) /\ Unqueue(e)
        /\ Finish(e, "cancelled")
     \/ /\ ~Active(e) /\ ~InQueue(e)
        /\ UNCHANGED <<call, queue, durable>>
  /\ UNCHANGED <<mode, stops, worker, runs>>

\* Mutant: a permit that comes again starts the call again.
PermitReused(e) ==
  /\ mode = "up"
  /\ Ack("start-permit", e)
  /\ \/ /\ call[e].phase \in {"requested", "launched"} /\ ~Aborted(e)
        /\ call' = [call EXCEPT ![e].phase = "starting"]
        /\ worker' = [worker EXCEPT ![e] = "booting"]
     \/ /\ call[e].phase \notin {"requested", "launched"} \/ Aborted(e)
        /\ UNCHANGED <<call, worker>>
  /\ UNCHANGED <<mode, stops, queue, durable, runs>>

\* A permit is used once, by the call that asked for it, unless it was aborted;
\* one that does not match what was prepared (validatePermit) ends the call.
PermitCommand(e) ==
  /\ mode = "up"
  /\ Ack("start-permit", e)
  /\ \/ /\ call[e].phase = "requested" /\ ~Aborted(e)
        /\ call' = [call EXCEPT ![e].phase = "starting"]
        /\ worker' = [worker EXCEPT ![e] = "booting"]
        /\ UNCHANGED durable
     \/ /\ call[e].phase = "requested" /\ ~Aborted(e)
        /\ Finish(e, "rejected")
        /\ UNCHANGED worker
     \/ /\ call[e].phase # "requested" \/ Aborted(e)
        /\ UNCHANGED <<call, worker, durable>>
  /\ UNCHANGED <<mode, stops, queue, runs>>

\* The reason codes AgentCommandV1Schema accepts; the transport drops a
\* command with any other before the supervisor sees it.
Understood == {"contract"}

\* Mutant: a refusal finishes the execution whatever has become of it.
RefuseAnyway(e, reason) ==
  /\ mode = "up" /\ reason \in Understood /\ ledger[e].known
  /\ Ack("start-rejected", e)
  /\ Finish(e, "rejected")
  /\ UNCHANGED <<mode, stops, queue, worker, runs>>

RefuseCommand(e, reason) ==
  /\ mode = "up" /\ reason \in Understood /\ ledger[e].known
  /\ Ack("start-rejected", e)
  /\ \/ /\ call[e].phase \in {"loading", "cleaning", "requested"}
        /\ Finish(e, "rejected")
     \/ /\ call[e].phase \notin {"loading", "cleaning", "requested"}
        /\ UNCHANGED <<call, durable>>
  /\ UNCHANGED <<mode, stops, queue, worker, runs>>

\* A confirmed send: the message leaves the outbox, also when the process has
\* begun to close and the answer was already in.
MessageConfirmed(e, k) ==
  /\ mode # "down" /\ k \in out[e]
  /\ out' = [out EXCEPT ![e] = @ \ {k}]
  /\ UNCHANGED <<mode, stops, volatile, ledger, worker, runs>>

\* The upload lane got the archive receipt; what it held makes room.
ReportArchived(e) ==
  /\ mode # "down" /\ Reported(e)
  /\ LET archived == [ledger EXCEPT ![e].report = "archived"] IN
     IF mode = "up" THEN Pumped(queue, archived, call)
                    ELSE ledger' = archived /\ UNCHANGED <<queue, call, out>>
  /\ UNCHANGED <<mode, stops, acks, worker, runs>>

\* Acknowledgements the service has applied are dropped.
AcksApplied(k, e) ==
  /\ mode = "up" /\ <<k, e>> \in acks
  /\ acks' = acks \ {<<k, e>>}
  /\ UNCHANGED <<mode, stops, call, queue, durable, worker, runs>>
-----------------------------------------------------------------------------
(***************************************************************************)
(* One execution, from its preparation to its end                          *)
(***************************************************************************)

AgentSame == UNCHANGED <<mode, stops, queue, acks, runs>>

\* The local deadline of a call fires once and is not armed again.
Deadline(e) ==
  /\ mode # "down" /\ Active(e) /\ ~call[e].timedOut
  /\ Abort(e, [call[e] EXCEPT !.timedOut = TRUE])
  /\ UNCHANGED worker /\ AgentSame

\* The policy is known: the report's budget is promised.
Reserve(e) ==
  /\ mode # "down" /\ call[e].phase = "loading" /\ ~ledger[e].budget
  /\ Cardinality(Results) < ResultSlots
  /\ ledger' = [ledger EXCEPT ![e].budget = TRUE]
  /\ UNCHANGED <<call, out, worker>> /\ AgentSame

\* The last look at the abort signal before the start is requested.
CheckPreparation(e) ==
  /\ mode # "down" /\ call[e].phase = "loading" /\ ledger[e].budget /\ ~Aborted(e)
  /\ call' = [call EXCEPT ![e].phase = "cleaning"]
  /\ UNCHANGED <<durable, worker>> /\ AgentSame

RequestStart(e) ==
  /\ mode # "down" /\ call[e].phase = "cleaning"
  /\ call' = [call EXCEPT ![e].phase = "requested"]
  /\ out' = [out EXCEPT ![e] = @ \cup {"start-request"}]
  /\ UNCHANGED <<ledger, worker>> /\ AgentSame

\* Fetching, checking or reserving failed, or an abort was noticed.
FailPreparation(e) ==
  /\ mode # "down" /\ call[e].phase \in {"loading", "cleaning"}
  /\ Finish(e, Conclusion(e, "rejected"))
  /\ UNCHANGED worker /\ AgentSame

\* The child holds the lease of its supervisor's epoch from here to its exit.
WorkerReady(e) ==
  /\ worker[e] = "booting"
  /\ worker' = [worker EXCEPT ![e] = "ready"]
  /\ UNCHANGED <<call, durable, mode, stops, queue, acks, runs>>

Announce(e) ==
  /\ mode # "down" /\ call[e].phase = "starting" /\ worker[e] = "ready" /\ ~Aborted(e)
  /\ call' = [call EXCEPT ![e].phase = "announced"]
  /\ out' = [out EXCEPT ![e] = @ \cup {"started"}]
  /\ UNCHANGED <<ledger, worker>> /\ AgentSame

\* Mutant: the worker is invoked before the ledger says so.
LaunchUnmarked(e) ==
  /\ mode # "down" /\ call[e].phase = "announced" /\ ~Aborted(e)
  /\ call' = [call EXCEPT ![e].phase = "launched"]
  /\ worker' = [worker EXCEPT ![e] = IF @ = "ready" THEN "invoked" ELSE @]
  /\ UNCHANGED durable /\ AgentSame

\* From here on nobody can tell whether the business call happened, until
\* the worker confirms it.  A worker that died meanwhile is not invoked.
Launch(e) ==
  /\ mode # "down" /\ call[e].phase = "announced" /\ ~Aborted(e)
  /\ ledger' = [ledger EXCEPT ![e].fact = "uncertain"]
  /\ call' = [call EXCEPT ![e].phase = "launched"]
  /\ worker' = [worker EXCEPT ![e] = IF @ = "ready" THEN "invoked" ELSE @]
  /\ UNCHANGED out /\ AgentSame

\* The worker calls Core; its notice to the supervisor is still under way.
BusinessStart(e) ==
  /\ worker[e] = "invoked"
  /\ worker' = [worker EXCEPT ![e] = "business"]
  /\ runs' = [runs EXCEPT ![e] = @ + 1]
  /\ UNCHANGED <<mode, stops, volatile, durable>>

ConfirmStart(e) ==
  /\ mode # "down" /\ call[e].phase = "launched" /\ worker[e] = "business"
  /\ ledger[e].fact = "uncertain"
  /\ ledger' = [ledger EXCEPT ![e].fact = "started"]
  /\ UNCHANGED <<call, out, worker>> /\ AgentSame

\* Mutant: a result is believed although the start was never confirmed.
DoneUnconfirmed(e, output) ==
  /\ mode # "down" /\ call[e].phase = "launched"
  /\ worker[e] \in {"invoked", "business"}
  /\ call' = [call EXCEPT ![e].phase = "ending", ![e].output = output]
  /\ UNCHANGED <<durable, worker>> /\ AgentSame

\* The worker's result; a result with output comes after the start notice.
WorkerDone(e, output) ==
  /\ mode # "down" /\ call[e].phase = "launched"
  /\ \/ worker[e] = "invoked" /\ output = "none"
     \/ worker[e] = "business" /\ ledger[e].fact = "started"
  /\ call' = [call EXCEPT ![e].phase = "ending", ![e].output = output]
  /\ UNCHANGED <<durable, worker>> /\ AgentSame

\* Crashed, killed, told to stop, or finished and disconnected.
WorkerExit(e) ==
  /\ worker[e] # "none"
  /\ worker' = [worker EXCEPT ![e] = "none"]
  /\ UNCHANGED <<mode, stops, volatile, durable, runs>>

\* How a call without a worker ends: by its result, by the exit of the worker
\* that was invoked, or by an error on the way (the catch of run).
Endings(e) ==
  {Conclusion(e, "interrupted")} \cup
  CASE call[e].phase = "launched" -> {IF call[e].timedOut THEN "timed-out" ELSE "interrupted"}
    [] call[e].phase = "ending" -> {Conclusion(e, IF call[e].output = "none" THEN "rejected"
                                                  ELSE call[e].output)}
    [] OTHER -> {}

\* An execution is settled only after its worker has left.
FinishRun(e) ==
  /\ mode # "down" /\ worker[e] = "none"
  /\ call[e].phase \in {"starting", "announced", "launched", "ending"}
  /\ call[e].phase = "announced" => Aborted(e)
  /\ \E verdict \in Endings(e) : Finish(e, verdict)
  /\ UNCHANGED worker /\ AgentSame
-----------------------------------------------------------------------------
(***************************************************************************)
(* Stopping and starting the process                                       *)
(***************************************************************************)

\* close: what is queued or waits for a permit ends now, the rest is aborted.
\* stops < MaxStops is the bound, here and in Crash.
Shutdown ==
  LET waiting == {e \in Job : InQueue(e) \/ call[e].phase = "requested"} IN
  /\ mode = "up" /\ stops < MaxStops
  /\ mode' = "closing" /\ queue' = <<>>
  /\ call' = [e \in Job |-> IF e \in waiting THEN NoCall
                            ELSE [call[e] EXCEPT !.cancelled = Active(e)]]
  /\ ledger' = [e \in Job |-> IF e \in waiting
                  THEN Settled(ledger[e], IF call[e].timedOut THEN "timed-out" ELSE "cancelled")
                  ELSE ledger[e]]
  /\ out' = [e \in Job |-> IF e \in waiting THEN out[e] \cup {"completed"} ELSE out[e]]
  /\ UNCHANGED <<stops, acks, worker, runs>>

Stop(from) ==
  /\ mode = from /\ mode' = "down"
  /\ call' = [e \in Job |-> NoCall] /\ queue' = <<>> /\ acks' = {}
  /\ UNCHANGED <<durable, worker, runs>>

Exit == Stop("closing") /\ HeldSlots = {} /\ stops' = stops + 1
Crash == mode # "down" /\ Stop(mode) /\ stops < MaxStops /\ stops' = stops + 1

\* Mutant: recovery does not wait for the workers of the process before.
RestartEarly ==
  LET open == {e \in Job : ledger[e].known /\ ~ledger[e].settled} IN
  /\ mode = "down" /\ mode' = "up"
  /\ ledger' = [e \in Job |-> IF e \in open THEN Settled(ledger[e], "interrupted")
                              ELSE ledger[e]]
  /\ out' = [e \in Job |-> IF e \in open THEN out[e] \cup {"completed"} ELSE out[e]]
  /\ UNCHANGED <<stops, volatile, worker, runs>>

\* Mutant: recovery settles only what may have been started.
RestartForgetting ==
  LET open == {e \in Job : ledger[e].fact # "not-started" /\ ~ledger[e].settled} IN
  /\ mode = "down" /\ mode' = "up"
  /\ \A e \in Job : worker[e] \in {"none", "booting"}
  /\ worker' = [e \in Job |-> "none"]
  /\ ledger' = [e \in Job |-> IF e \in open THEN Settled(ledger[e], "interrupted")
                              ELSE ledger[e]]
  /\ out' = [e \in Job |-> IF e \in open THEN out[e] \cup {"completed"} ELSE out[e]]
  /\ UNCHANGED <<stops, volatile, runs>>

\* The new process waits for the lease of every earlier worker, gives its own
\* children a new epoch and settles what an earlier process left open.
Restart ==
  LET open == {e \in Job : ledger[e].known /\ ~ledger[e].settled} IN
  /\ mode = "down"
  /\ \A e \in Job : worker[e] \in {"none", "booting"}
  /\ mode' = "up"
  /\ worker' = [e \in Job |-> "none"]
  /\ ledger' = [e \in Job |-> IF e \in open THEN Settled(ledger[e], "interrupted")
                              ELSE ledger[e]]
  /\ out' = [e \in Job |-> IF e \in open THEN out[e] \cup {"completed"} ELSE out[e]]
  /\ UNCHANGED <<stops, volatile, runs>>
-----------------------------------------------------------------------------
ExecutionStep(e) ==
  \/ Deadline(e) \/ Reserve(e) \/ CheckPreparation(e) \/ RequestStart(e)
  \/ FailPreparation(e) \/ WorkerReady(e) \/ Announce(e) \/ Launch(e)
  \/ BusinessStart(e) \/ ConfirmStart(e) \/ WorkerExit(e) \/ FinishRun(e)
  \/ \E output \in Conclusive \cup {"none"} : WorkerDone(e, output)

ProcessStep == Pump \/ Shutdown \/ Exit \/ Crash \/ Restart

\* On its own the agent meets a service that may send anything an earlier
\* message of the agent can have led to, at any time and repeatedly.
Environment(e) ==
  \/ ReceiveDelivery(e) \/ CancelCommand(e)
  \/ ledger[e].budget /\ (PermitCommand(e) \/ \E r \in DenialReason : RefuseCommand(e, r))
  \/ \E k \in MessageKind : MessageConfirmed(e, k)
  \/ ReportArchived(e)
  \/ \E k \in CommandKind : AcksApplied(k, e)

AgentNext == ProcessStep \/ \E e \in Job : ExecutionStep(e) \/ Environment(e)

\* Awaits return, timers fire and workers that are told to leave do.
AgentFairness ==
  /\ WF_agentVars(Pump) /\ WF_agentVars(Exit) /\ WF_agentVars(Restart)
  /\ \A e \in Job :
       /\ WF_agentVars(Deadline(e)) /\ WF_agentVars(FinishRun(e))
       /\ WF_agentVars(RequestStart(e) \/ FailPreparation(e))
       /\ WF_agentVars(mode = "down" /\ WorkerExit(e))
       /\ WF_agentVars(Aborted(e) /\ WorkerExit(e))

AgentSpec == AgentInit /\ [][AgentNext]_agentVars
AgentFairSpec == AgentSpec /\ AgentFairness
-----------------------------------------------------------------------------
(***************************************************************************)
(* Properties                                                              *)
(***************************************************************************)

\* Core is invoked at most once for an execution, across permits that come
\* again, crashes, restarts and workers that outlive their supervisor.
AtMostOneRun == \A e \in Job : runs[e] <= 1

\* What the ledger says of an execution is true whenever the process may die:
\* "not-started" is kept only while no worker was invoked, "started" only
\* after one called Core.  Recovery reports exactly this fact.
FactIsTruthful ==
  \A e \in Job :
    /\ ledger[e].fact = "not-started" => runs[e] = 0 /\ worker[e] \notin {"invoked", "business"}
    /\ ledger[e].fact = "started" => runs[e] = 1

\* A settled execution has stopped for good: no call, no queue entry and no
\* worker of any generation is left that could still invoke Core.
SettledHasStopped ==
  \A e \in Job : ledger[e].settled => ~Active(e) /\ ~InQueue(e) /\ worker[e] = "none"

\* Nothing that was accepted is forgotten: an open execution of a running
\* process is queued or in the hands of a call.
OpenIsTended ==
  mode # "down" =>
    \A e \in Job : ledger[e].known /\ ~ledger[e].settled => Active(e) \/ InQueue(e)

\* A conclusion is final: what recovery, a late permit, refusal or cancel, a
\* second delivery or a worker's last notice do after it, it stays what it is,
\* Core is not invoked again and a report that was archived stays archived.
ConclusionIsFinal ==
  [][\A e \in Job : ledger[e].settled =>
       /\ ledger'[e].settled /\ ledger'[e].verdict = ledger[e].verdict
       /\ ledger'[e].report \in {ledger[e].report, "archived"}
       /\ runs'[e] = runs[e]]_agentVars

\* Calls never outnumber slots, and reports promised plus reports waiting
\* never outgrow the result budget.
SlotsRespected ==
  Cardinality(HeldSlots) <= MaxSlots /\ Cardinality(Results) <= ResultSlots

\* A call that has passed its local deadline does not keep waiting: it is
\* settled, or the process stops (supervisor.armDeadline, cancel, prepare).
DeadlineSettles ==
  \A e \in Job : (call[e].timedOut ~> ledger[e].settled \/ mode = "down")

\* An abort that came after the last look at the abort signal and before the
\* call began to wait for its permit: nothing wakes this call any more.
Stranded(e) == call[e].phase = "requested" /\ call[e].timedOut

\* Every execution the agent has accepted is settled in the end, whatever
\* fails and however often the process stops, unless it was stranded: the
\* deadline bounds preparation and run, recovery takes what a stop left open.
AcceptedIsSettled ==
  \A e \in Job : ledger[e].known ~> ledger[e].settled \/ Stranded(e)
=============================================================================
