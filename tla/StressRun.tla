------------------------------ MODULE StressRun ------------------------------
(***************************************************************************)
(* A stress run on several worker processes: packages/core/src/stress,     *)
(* distributed.ts and loadScheduler.ts (the coordinator), localWorker.ts   *)
(* (a worker), requestGate.ts (the admission both share) and               *)
(* workerProtocol.ts (the channel between them).                           *)
(*                                                                         *)
(* The scheduler drives virtual users (VUs) that live in the workers; each *)
(* request a worker puts on the wire needs a permit of the coordinator,    *)
(* and each is noted in the worker's metrics once the coordinator has told *)
(* its phase.  A worker may die, or lose the trust of the coordinator      *)
(* while it goes on by itself.  Time is left out: windows, rate limits and *)
(* graceful stops end whenever they like.                                  *)
(***************************************************************************)
EXTENDS Naturals, Sequences, FiniteSets, SequencesExt

CONSTANTS
  Workers,        \* options.shards
  Vus,            \* schedule.maxVus
  MaxConcurrency, \* of the requests on the wire
  MaxIterations,
  MaxRequests,    \* bound: requests one worker asks for
  MaxFaults       \* bound: deaths, broken channels, lost observations

ASSUME StressAssumption ==
  /\ Workers \in Nat \ {0} /\ Vus \in Nat /\ Workers <= Vus
  /\ MaxConcurrency \in Nat \ {0}
  /\ MaxIterations \in Nat /\ MaxRequests \in Nat /\ MaxFaults \in Nat

VARIABLES
  run,     \* the coordinator: where the scheduler is, and what it knows
  worker,  \* per worker: its peer at the coordinator, and the process
  vu,      \* per VU: the call on it, its session, its permit and its request
  gate     \* the admission: permits held, and VUs that wait for one

stressVars == <<run, worker, vu, gate>>

Worker == 1..Workers
Vu == 1..Vus
Home(v) == ((v - 1) % Workers) + 1
VusOf(w) == {v \in Vu : Home(v) = w}

Spawning == {"spawn", "starting"}
Stages == Spawning \cup
  {"setup", "create", "window", "drain", "closing", "collect", "teardown",
   "check", "markers", "union", "shutdown", "finish", "over"}

RunState ==
  [stage : Stages, turn : 1..Vus + 1,
   legacy : BOOLEAN,    \* allowNumericFailure
   aborted : BOOLEAN,   \* the signal of the run: the user, or a worker that failed
   stopped : BOOLEAN,   \* the scheduler's controller is aborted
   fatal : BOOLEAN, marked : BOOLEAN,  \* a part of the report is incomplete
   failures : BOOLEAN,  \* a reason in the coordinator's set
   made : 0..Vus, budget : 0..MaxIterations, faults : 0..MaxFaults,
   tidy : BOOLEAN, private : BOOLEAN,
   outcome : {"none", "failed", "numeric", "partial", "complete"}]
WorkerState ==
  [peer : {"none", "up", "failed", "gone"}, alive : BOOLEAN,
   stopping : BOOLEAN,  \* a stop is on its way
   quit : BOOLEAN,      \* the worker's own abort signal
   step : {"new", "started", "drained", "ready", "projected"},
   tainted : BOOLEAN,   \* an observation was lost
   asked : 0..MaxRequests, sent : Nat, noted : Nat,
   pending : Nat,       \* observations that wait for their phase
   merged : Nat,        \* counts the coordinator took over
   known : Nat]         \* markers the union has of the worker
VuState ==
  [call : {"none", "create", "execute", "close"},
   act : {"none", "idle", "working", "closed"},
   ask : {"none", "sent", "waiting", "admitted", "entered", "leased", "refused"},
   wire : {"idle", "asking", "sending", "releasing"}]

StressTypeOK ==
  /\ run \in RunState /\ worker \in [Worker -> WorkerState] /\ vu \in [Vu -> VuState]
  /\ gate \in [held : 0..Vus, line : Seq(Vu)] /\ IsInjective(gate.line)

StressInit ==
  /\ run \in [stage : {"spawn"}, turn : {1}, legacy : BOOLEAN, aborted : {FALSE},
              stopped : {FALSE}, fatal : {FALSE}, marked : {FALSE}, failures : {FALSE},
              made : {0}, budget : {MaxIterations}, faults : {0}, tidy : {FALSE},
              private : {FALSE}, outcome : {"none"}]
  /\ worker = [w \in Worker |->
       [peer |-> "none", alive |-> FALSE, stopping |-> FALSE, quit |-> FALSE, step |-> "new",
        tainted |-> FALSE, asked |-> 0, sent |-> 0, noted |-> 0, pending |-> 0, merged |-> 0,
        known |-> 0]]
  /\ vu = [v \in Vu |-> [call |-> "none", act |-> "none", ask |-> "none", wire |-> "idle"]]
  /\ gate = [held |-> 0, line |-> <<>>]
-----------------------------------------------------------------------------
(***************************************************************************)
(* Aborts and failures: each reaches its listeners within one step         *)
(***************************************************************************)

Up(w) == worker[w].peer = "up"
Serving(w) == Up(w) /\ worker[w].alive
Busy == {v \in Vu : vu[v].call = "execute"}
Leased(w) == {v \in VusOf(w) : vu[v].ask = "leased"}
\* permitSignal: the scheduler's controller or that of the worker's state.
Barred(v) == run.stopped \/ ~Up(Home(v))

Told(ws, which) == [w \in Worker |-> IF w \in which /\ ws[w].peer = "up"
                                     THEN [ws[w] EXCEPT !.stopping = TRUE] ELSE ws[w]]
Rejected(vs, who) == [v \in Vu |-> IF v \in who THEN [vs[v] EXCEPT !.ask = "refused"] ELSE vs[v]]
EmptyLine == /\ vu' = Rejected(vu, ToSet(gate.line))
             /\ gate' = [gate EXCEPT !.line = <<>>]

\* The scheduler's abort listener; before the scheduler runs nobody listens.
AbortedRun(r) ==
  LET heard == r.stage \notin Spawning \cup {"finish", "over"}
  IN  [r EXCEPT !.aborted = TRUE, !.stopped = @ \/ heard, !.marked = @ \/ heard]

\* The user aborts: every worker is told to stop, waiting requests are refused.
Abort ==
  /\ ~run.aborted /\ run.stage # "over"
  /\ run' = AbortedRun(run)
  /\ worker' = Told(worker, Worker)
  /\ IF run.stage \in Spawning THEN UNCHANGED <<vu, gate>> ELSE EmptyLine

\* fail(), the catch and the drain timeout: the controller is aborted, and the
\* workers that execute an iteration are told to stop.
Abandoned(r) == IF r.stopped THEN r ELSE [r EXCEPT !.fatal = TRUE, !.marked = TRUE, !.stopped = TRUE]

\* releaseState: a worker's waiters are refused and its permits are released,
\* each to the first in the line.  Its answers reach nobody any more.
Ahead(w, i) == {k \in 1..i - 1 : Home(gate.line[k]) # w}
Lucky(w) == {v \in ToSet(gate.line) \ VusOf(w) :
  \E i \in DOMAIN gate.line :
    gate.line[i] = v /\ Cardinality(Ahead(w, i)) < Cardinality(Leased(w))}
HeldWithout(w) == (gate.held - Cardinality(Leased(w))) + Cardinality(Lucky(w))

\* The peer of a worker fails: pending calls reject, its state is released,
\* and then the run is aborted, which refuses all who still wait.  A permit
\* that was passed on in between is looked at again before it is used.
PeerFails(w, faults) ==
  LET called(c) == \E v \in VusOf(w) : vu[v].call = c
  IN  /\ run' = [AbortedRun(run) EXCEPT
           !.failures = TRUE, !.faults = @ + faults,
           !.turn = IF called("close") THEN @ + 1 ELSE @,
           !.stage = IF called("create") THEN "drain" ELSE @]
      /\ worker' = [Told(worker, Worker \ {w}) EXCEPT ![w].peer = "failed"]
      /\ vu' = [v \in Vu |->
           IF Home(v) = w
           THEN [vu[v] EXCEPT !.call = "none",
                              !.ask = IF @ \in {"admitted", "entered"} THEN @ ELSE "none"]
           ELSE IF v \in Lucky(w) THEN [vu[v] EXCEPT !.ask = "admitted"]
           ELSE IF v \in ToSet(gate.line) THEN [vu[v] EXCEPT !.ask = "refused"]
           ELSE vu[v]]
      /\ gate' = [held |-> HeldWithout(w), line |-> <<>>]

\* A worker process dies, which its peer notices later ...
Die(w) ==
  /\ worker[w].alive /\ run.faults < MaxFaults
  /\ run' = [run EXCEPT !.faults = @ + 1]
  /\ worker' = [worker EXCEPT ![w].alive = FALSE, ![w].stopping = FALSE, ![w].pending = 0]
  /\ vu' = [v \in Vu |-> IF Home(v) = w THEN [vu[v] EXCEPT !.wire = "idle"] ELSE vu[v]]
  /\ UNCHANGED gate

NoticeDeath(w) == Up(w) /\ ~worker[w].alive /\ PeerFails(w, 0)

\* ... or sends what its peer cannot accept, and goes on by itself.
Distrust(w) == Serving(w) /\ run.faults < MaxFaults /\ PeerFails(w, 1)

\* A stop is handled after the calls that were sent before it have begun.
DeliverStop(w) ==
  /\ worker[w].stopping /\ worker[w].alive
  /\ \A v \in VusOf(w) : vu[v].call = "none" \/ vu[v].act = "working"
  /\ worker' = [worker EXCEPT ![w].stopping = FALSE, ![w].quit = TRUE]
  /\ UNCHANGED <<run, vu, gate>>
-----------------------------------------------------------------------------
(***************************************************************************)
(* Permits and observations                                                *)
(***************************************************************************)

\* Permits go to the first in the line, if there is one.
Release(vs) ==
  IF gate.line = <<>>
  THEN gate' = [gate EXCEPT !.held = @ - 1] /\ vu' = vs
  ELSE gate' = [gate EXCEPT !.line = Tail(@)] /\ vu' = [vs EXCEPT ![Head(gate.line)].ask = "admitted"]

\* A session that is not aborted asks for a permit.
Ask(v) ==
  /\ vu[v].act = "working" /\ vu[v].wire = "idle" /\ Serving(Home(v)) /\ ~worker[Home(v)].quit
  /\ worker[Home(v)].asked < MaxRequests
  /\ vu' = [vu EXCEPT ![v].wire = "asking", ![v].ask = "sent"]
  /\ worker' = [worker EXCEPT ![Home(v)].asked = @ + 1]
  /\ UNCHANGED <<run, gate>>

\* The coordinator authorizes the request and admits it or lets it wait.
Enter(v) ==
  /\ vu[v].ask = "sent"
  /\ \/ /\ ~Barred(v) /\ gate.held < MaxConcurrency /\ gate.line = <<>>
        /\ vu' = [vu EXCEPT ![v].ask = "admitted"] /\ gate' = [gate EXCEPT !.held = @ + 1]
     \/ /\ ~Barred(v) /\ ~(gate.held < MaxConcurrency /\ gate.line = <<>>)
        /\ vu' = [vu EXCEPT ![v].ask = "waiting"] /\ gate' = [gate EXCEPT !.line = Append(@, v)]
     \/ vu' = [vu EXCEPT ![v].ask = "refused"] /\ UNCHANGED gate  \* barred, or by a policy
  /\ UNCHANGED <<run, worker>>

\* After the wait for a place and the rate limit the signal is looked at again.
\* Mutant: it is not.
Admitted(v) == [vu EXCEPT ![v].ask = "entered"]
PaceBlindly(v) ==
  vu[v].ask = "admitted" /\ vu' = Admitted(v) /\ UNCHANGED <<run, worker, gate>>
Pace(v) ==
  /\ vu[v].ask = "admitted"
  /\ IF Barred(v)
     THEN Release([vu EXCEPT ![v].ask = IF Up(Home(v)) THEN "refused" ELSE "none"])
     ELSE vu' = Admitted(v) /\ UNCHANGED gate
  /\ UNCHANGED <<run, worker>>

\* The permit becomes a lease of the worker, unless that has failed meanwhile.
Grant(v) ==
  /\ vu[v].ask = "entered"
  /\ IF Up(Home(v)) THEN vu' = [vu EXCEPT ![v].ask = "leased"] /\ UNCHANGED gate
                    ELSE Release([vu EXCEPT ![v].ask = "none"])
  /\ UNCHANGED <<run, worker>>

\* The worker gets its answer.  It sends the request, which its metrics are
\* told of; a session that was aborted gives the permit back.
Answered(v) ==
  /\ Serving(Home(v)) /\ vu[v].wire = "asking"
  /\ \/ /\ vu[v].ask = "refused"
        /\ vu' = [vu EXCEPT ![v].wire = "idle", ![v].ask = "none"] /\ UNCHANGED worker
     \/ /\ vu[v].ask = "leased" /\ worker[Home(v)].quit
        /\ vu' = [vu EXCEPT ![v].wire = "releasing"] /\ UNCHANGED worker
     \/ /\ vu[v].ask = "leased" /\ ~worker[Home(v)].quit
        /\ vu' = [vu EXCEPT ![v].wire = "sending"]
        /\ worker' = [worker EXCEPT ![Home(v)].sent = @ + 1, ![Home(v)].pending = @ + 1]
  /\ UNCHANGED <<run, gate>>

Respond(v) ==
  /\ vu[v].wire = "sending" /\ vu' = [vu EXCEPT ![v].wire = "releasing"]
  /\ UNCHANGED <<run, worker, gate>>

GiveBack(v) ==
  /\ Serving(Home(v)) /\ vu[v].wire = "releasing" /\ vu[v].ask = "leased"
  /\ Release([vu EXCEPT ![v].wire = "idle", ![v].ask = "none"])
  /\ UNCHANGED <<run, worker>>

\* The coordinator answers with the phase, and the worker counts the request;
\* when that fails, the worker aborts itself.
Note(w) ==
  /\ worker[w].pending > 0 /\ Serving(w)
  /\ worker' = [worker EXCEPT ![w].noted = @ + 1, ![w].pending = @ - 1]
  /\ UNCHANGED <<run, vu, gate>>

LoseNote(w) ==
  /\ worker[w].pending > 0 /\ Serving(w) /\ run.faults < MaxFaults
  /\ run' = [run EXCEPT !.faults = @ + 1]
  /\ worker' = [worker EXCEPT ![w].tainted = TRUE, ![w].quit = TRUE, ![w].pending = @ - 1]
  /\ UNCHANGED <<vu, gate>>
-----------------------------------------------------------------------------
(***************************************************************************)
(* Starting the workers                                                    *)
(***************************************************************************)

At(stage) == run.stage = stage
Step(stage, turn) == [run EXCEPT !.stage = stage, !.turn = turn]
\* The scheduler begins; an abort that came before is accepted at once.
Begun(r) == [r EXCEPT !.stage = "setup", !.turn = 1, !.stopped = @ \/ r.aborted, !.marked = @ \/ r.aborted]

Spawn ==
  /\ At("spawn") /\ ~run.aborted
  /\ run' = Step("starting", run.turn)
  /\ worker' = [worker EXCEPT ![run.turn].peer = "up", ![run.turn].alive = TRUE]
  /\ UNCHANGED <<vu, gate>>

\* prepare, clock and start were answered.
Started ==
  /\ At("starting") /\ Serving(run.turn)
  /\ run' = IF run.turn < Workers THEN Step("spawn", run.turn + 1) ELSE Begun(run)
  /\ worker' = [worker EXCEPT ![run.turn].step = "started"]
  /\ UNCHANGED <<vu, gate>>

\* The run was aborted between two workers, or a worker could not prepare.  A
\* planned run gives up; one of the command line reports the numbers it has.
SpawnFails ==
  /\ \/ At("spawn") /\ run.aborted
     \/ At("starting")
  /\ IF run.legacy
     THEN /\ run' = [Begun([run EXCEPT !.aborted = TRUE]) EXCEPT !.failures = TRUE]
          /\ worker' = IF run.aborted THEN worker ELSE Told(worker, Worker)
     ELSE /\ run' = [run EXCEPT !.stage = "over", !.outcome = "failed"]
          /\ worker' = [w \in Worker |-> [worker[w] EXCEPT !.alive = FALSE, !.stopping = FALSE]]
  /\ UNCHANGED <<vu, gate>>
-----------------------------------------------------------------------------
(***************************************************************************)
(* The scheduler                                                           *)
(***************************************************************************)

\* The set-up of the run passes, fails, or delivers what the plan cannot map.
SetUp ==
  /\ At("setup")
  /\ \/ run' = Step("create", 1)
     \/ run' = [Step("create", 1) EXCEPT !.fatal = TRUE, !.marked = TRUE] /\ ~run.stopped
     \/ run' = Abandoned(Step("drain", 1)) /\ ~run.stopped
  /\ UNCHANGED <<worker, vu, gate>>

Creating == run.made < Vus /\ ~run.stopped /\ ~run.fatal

Call(v, c) == [vu EXCEPT ![v].call = c]

CreateVu ==
  /\ At("create") /\ Creating /\ vu[run.made + 1].call = "none"
  /\ vu' = Call(run.made + 1, "create")
  /\ UNCHANGED <<run, worker, gate>>

EndCreate ==
  /\ At("create") /\ ~Creating /\ \A v \in Vu : vu[v].call = "none"
  /\ run' = Step(IF run.stopped \/ run.fatal THEN "drain" ELSE "window", 1)
  /\ UNCHANGED <<worker, vu, gate>>

\* One iteration at a time and VU, while the window is open.
Launch(v) ==
  /\ At("window") /\ ~run.stopped /\ ~run.fatal /\ run.budget > 0
  /\ vu[v].call = "none"
  /\ run' = [run EXCEPT !.budget = @ - 1]
  /\ vu' = Call(v, "execute")
  /\ UNCHANGED <<worker, gate>>

\* The duration is over, the budget used up, or the run was aborted.
EndWindow ==
  /\ At("window")
  /\ run' = Step("drain", 1)
  /\ UNCHANGED <<worker, vu, gate>>

\* The graceful stop takes too long.
DrainTimeout ==
  /\ At("drain") /\ Busy # {} /\ ~run.stopped
  /\ run' = Abandoned(run)
  /\ worker' = Told(worker, {Home(b) : b \in Busy})
  /\ EmptyLine

\* Nothing is closed while an iteration is under way.
Drained ==
  /\ At("drain") /\ Busy = {}
  /\ run' = Step("closing", 1)
  /\ UNCHANGED <<worker, vu, gate>>

\* Mutant: a worker that has failed is asked, too, and never answers.
CloseAnyway ==
  /\ At("closing") /\ run.turn <= run.made /\ vu[run.turn].call = "none"
  /\ vu' = Call(run.turn, "close") /\ UNCHANGED <<run, worker, gate>>
\* The VUs are closed in order, after an abort not before a stop was answered.
CloseVu ==
  /\ At("closing") /\ run.turn <= run.made /\ vu[run.turn].call = "none"
  /\ IF Up(Home(run.turn))
     THEN /\ vu' = Call(run.turn, "close") /\ UNCHANGED run
          /\ worker' = IF run.stopped /\ worker[Home(run.turn)].alive
                       THEN [worker EXCEPT ![Home(run.turn)].quit = TRUE,
                                           ![Home(run.turn)].stopping = FALSE]
                       ELSE worker
     ELSE run' = Step("closing", run.turn + 1) /\ UNCHANGED <<worker, vu>>
  /\ UNCHANGED gate

EndClosing ==
  /\ At("closing") /\ run.turn > run.made
  /\ run' = [Step("collect", 1) EXCEPT !.tidy = ~run.stopped]
  /\ UNCHANGED <<worker, vu, gate>>
-----------------------------------------------------------------------------
(***************************************************************************)
(* A worker's calls                                                        *)
(***************************************************************************)

\* What the worker's own requests have pending, of all its VUs.
\* Mutant: an answer does not wait for them.
NoFlush(w) == w \in Worker
Flushed(w) == worker[w].pending = 0 /\ \A v \in VusOf(w) : vu[v].wire # "releasing"

\* A worker that was aborted creates and executes nothing any more.
Accepts(v) ==
  CASE vu[v].call = "create" -> ~worker[Home(v)].quit /\ vu[v].act = "none"
    [] vu[v].call = "execute" -> ~worker[Home(v)].quit /\ vu[v].act = "idle"
    [] OTHER -> vu[v].act = "idle"

Begin(v) ==
  /\ vu[v].call # "none" /\ Serving(Home(v)) /\ vu[v].act # "working" /\ Accepts(v)
  /\ vu' = [vu EXCEPT ![v].act = "working"]
  /\ UNCHANGED <<run, worker, gate>>

\* Mutant: what a session that failed holds is left open.
FailsOpen(v, act) ==
  /\ run' = IF vu[v].call = "close"
            THEN [Step("closing", run.turn + 1) EXCEPT !.marked = TRUE]
            ELSE Abandoned(IF vu[v].call = "create" THEN Step("drain", 1) ELSE run)
  /\ worker' = IF run.stopped \/ vu[v].call = "close" THEN worker
               ELSE Told(worker, {Home(b) : b \in Busy \ {v}})
  /\ vu' = [Rejected(vu, ToSet(gate.line)) EXCEPT ![v].call = "none", ![v].act = "idle"]
  /\ gate' = [gate EXCEPT !.line = <<>>]
\* The call is refused, or the session could not be created: the VU counts as
\* closed, and the scheduler gives up; a refused close is only marked.
CallFails(v, act) ==
  \/ /\ vu[v].call = "close"
     /\ run' = [Step("closing", run.turn + 1) EXCEPT !.marked = TRUE]
     /\ vu' = [vu EXCEPT ![v].call = "none", ![v].act = act] /\ UNCHANGED <<worker, gate>>
  \/ /\ vu[v].call # "close"
     /\ run' = Abandoned(IF vu[v].call = "create" THEN Step("drain", 1) ELSE run)
     /\ worker' = IF run.stopped THEN worker ELSE Told(worker, {Home(b) : b \in Busy \ {v}})
     /\ vu' = [Rejected(vu, ToSet(gate.line)) EXCEPT ![v].call = "none", ![v].act = act]
     /\ gate' = [gate EXCEPT !.line = <<>>]

Refuse(v) ==
  /\ vu[v].call # "none" /\ Serving(Home(v)) /\ vu[v].act # "working" /\ ~Accepts(v)
  /\ CallFails(v, vu[v].act)

Ready(v) ==
  vu[v].call # "none" /\ vu[v].act = "working" /\ vu[v].wire = "idle"
    /\ Serving(Home(v)) /\ Flushed(Home(v))

\* The session settles, whatever its result; the answer follows the flush.
Answer(v) ==
  /\ Ready(v)
  /\ vu' = [vu EXCEPT ![v].call = "none", ![v].act = IF vu[v].call = "close" THEN "closed" ELSE "idle"]
  /\ run' = CASE vu[v].call = "create" -> [run EXCEPT !.made = @ + 1]
              [] vu[v].call = "close" -> [run EXCEPT !.turn = @ + 1]
              [] OTHER -> run
  /\ UNCHANGED <<worker, gate>>

\* A session throws: an iteration is answered at once, without the flush; a VU
\* whose set-up or close fails is closed all the same.
SessionFails(v) ==
  \/ /\ vu[v].call = "execute" /\ vu[v].act = "working" /\ Serving(Home(v))
     /\ vu[v].wire \in {"idle", "releasing"} /\ CallFails(v, "idle")
  \/ Ready(v) /\ vu[v].call # "execute" /\ CallFails(v, "closed")
-----------------------------------------------------------------------------
(***************************************************************************)
(* Drain, teardown, and the private exchange of evidence                   *)
(***************************************************************************)

DrainAllowed(w) ==
  worker[w].step = "started" /\ \A v \in VusOf(w) : vu[v].act \in {"none", "closed"}

\* The counts of a drained worker are taken over, with its reasons.
Collect ==
  LET w == run.turn IN
  /\ At("collect") /\ w <= Workers /\ Serving(w) /\ DrainAllowed(w) /\ Flushed(w)
  /\ run' = [Step("collect", w + 1) EXCEPT !.marked = @ \/ worker[w].tainted]
  /\ worker' = [worker EXCEPT ![w].step = "drained", ![w].merged = worker[w].noted]
  /\ UNCHANGED <<vu, gate>>

\* Who still waits; nobody does at this stage, as the proofs show.
Remaining(w) ==
  IF gate.line = <<>> THEN gate.line
  ELSE SelectSeq(gate.line, LAMBDA v : Home(v) # w /\ v \notin Lucky(w))

\* A worker that is missing, failed, or refuses: its state is released.
CollectFails ==
  LET w == run.turn IN
  /\ At("collect") /\ w <= Workers
  /\ worker[w].peer # "up" \/ (Serving(w) /\ ~DrainAllowed(w))
  /\ run' = [Step("collect", w + 1) EXCEPT !.failures = @ \/ worker[w].peer # "none"]
  /\ vu' = [v \in Vu |->
       IF v \in Leased(w) THEN [vu[v] EXCEPT !.ask = "none"]
       ELSE IF v \in Lucky(w) THEN [vu[v] EXCEPT !.ask = "admitted"]
       ELSE IF v \in VusOf(w) /\ vu[v].ask = "waiting" THEN [vu[v] EXCEPT !.ask = "refused"]
       ELSE vu[v]]
  /\ gate' = [held |-> HeldWithout(w), line |-> Remaining(w)]
  /\ UNCHANGED worker

EndCollect ==
  /\ At("collect") /\ run.turn > Workers
  /\ run' = Step(IF run.tidy THEN "teardown" ELSE "check", 1)
  /\ UNCHANGED <<worker, vu, gate>>

\* The teardown of the run, with requests of its own, and no VU left.
TearDown ==
  /\ At("teardown")
  /\ \/ run' = Step("check", 1) \/ run' = [Step("check", 1) EXCEPT !.marked = TRUE]
  /\ UNCHANGED <<worker, vu, gate>>

\* One participant is missing: its markers are unknown, no evidence is shown.
Whole == \A w \in Worker : worker[w].step = "drained" /\ Up(w)
Withheld == [run EXCEPT !.stage = "finish", !.marked = @ \/ ~run.legacy]

Check ==
  /\ At("check")
  /\ run' = IF Whole THEN Step("markers", 1) ELSE Withheld
  /\ UNCHANGED <<worker, vu, gate>>

\* Every worker's markers first, then the union of all to every worker.
\* Mutant: a worker gets what there is as soon as its own markers are there.
MarkersAtOnce ==
  LET w == run.turn IN
  /\ At("markers") /\ Serving(w)
  /\ run' = IF w < Workers THEN Step("markers", w + 1) ELSE Step("shutdown", 1)
  /\ worker' = [worker EXCEPT ![w].step = "projected", ![w].known = worker[w].sent]
  /\ UNCHANGED <<vu, gate>>
Markers ==
  LET w == run.turn IN
  /\ At("markers") /\ Serving(w)
  /\ run' = IF w < Workers THEN Step("markers", w + 1) ELSE Step("union", 1)
  /\ worker' = [worker EXCEPT ![w].step = "ready", ![w].known = worker[w].sent]
  /\ UNCHANGED <<vu, gate>>

Project(w) == [worker EXCEPT ![w].step = "projected"]
Union ==
  LET w == run.turn IN
  /\ At("union") /\ Serving(w)
  /\ run' = IF w < Workers THEN Step("union", w + 1) ELSE Step("shutdown", 1)
  /\ worker' = Project(w)
  /\ UNCHANGED <<vu, gate>>

\* A worker acknowledges the shutdown and exits with code zero.
Shutdown ==
  LET w == run.turn IN
  /\ At("shutdown") /\ Serving(w)
  /\ run' = IF w < Workers THEN Step("shutdown", w + 1)
            ELSE [Step("finish", 1) EXCEPT !.private = TRUE]
  /\ worker' = [worker EXCEPT ![w].peer = "gone", ![w].alive = FALSE, ![w].stopping = FALSE]
  /\ UNCHANGED <<vu, gate>>

ExchangeFails ==
  /\ run.stage \in {"markers", "union", "shutdown"} /\ worker[run.turn].peer = "failed"
  /\ run' = [run EXCEPT !.stage = "finish", !.marked = TRUE, !.failures = TRUE]
  /\ UNCHANGED <<worker, vu, gate>>

\* The report, rich, only in numbers, or none at all; the workers are closed.
Outcome ==
  IF ~run.private THEN IF run.legacy THEN "numeric" ELSE "failed"
  ELSE IF run.marked \/ run.failures THEN "partial" ELSE "complete"

Finish ==
  /\ At("finish")
  /\ run' = [run EXCEPT !.stage = "over", !.outcome = Outcome]
  /\ worker' = [w \in Worker |-> [worker[w] EXCEPT !.alive = FALSE, !.stopping = FALSE, !.pending = 0]]
  /\ vu' = [v \in Vu |-> [vu[v] EXCEPT !.wire = "idle"]]
  /\ UNCHANGED gate
-----------------------------------------------------------------------------
Scheduler ==
  \/ Spawn \/ Started \/ SetUp \/ CreateVu \/ EndCreate \/ EndWindow \/ Drained
  \/ CloseVu \/ EndClosing \/ Collect \/ CollectFails \/ EndCollect \/ TearDown
  \/ Check \/ Markers \/ Union \/ Shutdown \/ ExchangeFails \/ Finish

Faults == \E w \in Worker : Die(w) \/ Distrust(w)
Permits(v) == Enter(v) \/ Pace(v) \/ Grant(v) \/ Answered(v) \/ Respond(v) \/ GiveBack(v)
Calls(v) == Begin(v) \/ Refuse(v) \/ Answer(v)

StressNext ==
  \/ Scheduler \/ SpawnFails \/ Abort \/ DrainTimeout \/ Faults
  \/ \E w \in Worker : DeliverStop(w) \/ NoticeDeath(w) \/ Note(w) \/ LoseNote(w)
  \/ \E v \in Vu : Launch(v) \/ Ask(v) \/ Permits(v)
  \/ \E v \in Vu : Calls(v) \/ SessionFails(v)

\* Awaits return, requests are answered, messages arrive and sessions settle;
\* nothing is assumed of the graceful stop, of aborts or of failures.
StressFairness ==
  /\ WF_stressVars(Scheduler) /\ WF_stressVars(SpawnFails)
  /\ \A w \in Worker : /\ WF_stressVars(DeliverStop(w)) /\ WF_stressVars(NoticeDeath(w))
                       /\ WF_stressVars(Note(w))
  /\ \A v \in Vu : WF_stressVars(Permits(v)) /\ WF_stressVars(Calls(v))

StressSpec == StressInit /\ [][StressNext]_stressVars /\ StressFairness
-----------------------------------------------------------------------------
\* requestGate.ts: never more requests on the wire than the plan allows, of
\* all workers together, a worker that went on without its lease included.
OnTheWire == {v \in Vu : vu[v].wire = "sending"}
WithinLimit == Cardinality(OnTheWire) <= MaxConcurrency

\* distributed.ts: a report that calls itself complete counts every request
\* that any worker sent, once.
CompleteIsWhole ==
  run.outcome = "complete" =>
    \A w \in Worker : worker[w].merged = worker[w].sent /\ ~worker[w].tainted

\* distributed.ts: no worker projects its samples before the union has every
\* marker that any worker has come to know.
ProjectionKnowsAll ==
  (\E w \in Worker : worker[w].step = "projected") =>
    \A w \in Worker : worker[w].known = worker[w].sent

\* loadScheduler.ts: when the run is torn down or reported, every session of a
\* worker that did not fail is closed, none of them holds or awaits a permit,
\* and no request of a VU is on the wire.
Trusted(w) == worker[w].peer \in {"up", "gone"}
NothingLeftOpen ==
  /\ run.stage \in {"teardown", "finish", "over"} =>
       (\A v \in Vu : Trusted(Home(v)) => vu[v].act \in {"none", "closed"} /\ vu[v].ask = "none")
  /\ At("teardown") => OnTheWire = {}

\* Every run ends, with whatever result.
RunEnds == <>At("over")
=============================================================================
