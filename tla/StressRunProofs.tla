--------------------------- MODULE StressRunProofs ---------------------------
(***************************************************************************)
(* What holds of a stress run for any number of workers, virtual users,    *)
(* iterations, requests and faults.                                        *)
(*                                                                         *)
(* VuSound says of one virtual user how its call, its session, its permit  *)
(* and its request fit the stage of the run and its worker; WorkerSound    *)
(* what a worker has counted, and how far it has come; RunSound what each  *)
(* stage relies on; GateSound that permits are counted and the line holds  *)
(* who waits.  WithinLimit needs more than the permits: a worker that lost *)
(* the coordinator's trust may be on the wire with a permit that others    *)
(* have by now, so who can still get there is counted (Potential), and     *)
(* after a stop nobody joins it.                                           *)
(***************************************************************************)
EXTENDS StressRun, FiniteSetTheorems, SequenceTheorems, TLAPS

Early == {"setup", "create", "window", "drain", "closing"}
Late == {"collect", "teardown", "check", "markers", "union", "shutdown", "finish", "over"}
Private == {"markers", "union", "shutdown", "finish", "over"}
Counted == {"drained", "ready", "projected"}
Marked == {"ready", "projected"}
Quiet == {"none", "closed"}

\* The calls of a virtual user v in state x, with its worker in state p and the
\* run in state r, follow the stages.
Called(x, p, r, v) ==
  /\ x.call # "none" => p.peer = "up"
  /\ x.call = "create" => r.stage = "create" /\ v = r.made + 1
  /\ x.call = "execute" => r.stage \in {"window", "drain"} /\ v <= r.made
  /\ x.call = "close" => r.stage = "closing" /\ v = r.turn /\ v <= r.made

\* Its session is open only in between.
Housed(x, p, r, v) ==
  /\ x.act = "working" /\ p.peer = "up" => x.call # "none"
  /\ p.peer = "none" \/ r.stage \in Spawning \cup {"setup"} => x.act = "none"
  /\ r.tidy \/ p.step \in Counted => x.act \in Quiet
  /\ p.peer # "failed" =>
       /\ v > r.made => x.act # "idle"
       /\ r.stage \in Late \/ (r.stage = "closing" /\ v < r.turn) => x.act \in Quiet

\* Its request and its permit belong together, as long as its worker is trusted.
Wired(x, p, r) ==
  /\ x.act \in Quiet => x.wire = "idle" /\ x.ask = "none"
  /\ x.wire \in {"asking", "sending"} => x.act = "working"
  /\ ~p.alive => x.wire = "idle"
  /\ p.peer = "up" /\ p.alive =>
       /\ x.wire = "idle" <=> x.ask = "none"
       /\ x.wire \in {"sending", "releasing"} => x.ask = "leased"
  /\ x.wire = "sending" /\ p.peer # "up" => r.stopped
  /\ p.peer # "up" => x.ask \in {"none", "admitted", "entered"}
  /\ x.ask = "waiting" => ~r.stopped

VuSound(x, p, r, v) == Called(x, p, r, v) /\ Housed(x, p, r, v) /\ Wired(x, p, r)
AllVusSound == \A v \in Vu : VuSound(vu[v], worker[Home(v)], run, v)

\* What a worker sent it has counted, has pending, or has lost and says so.
WorkerSound(p, r) ==
  /\ p.peer \in {"none", "gone"} \/ r.stage = "over" => ~p.alive
  /\ p.peer = "gone" => p.step \in Counted
  /\ p.peer = "none" => p.sent = p.noted /\ p.pending = 0
  /\ p.alive /\ ~p.tainted => p.sent = p.noted + p.pending
  /\ p.step \in Counted =>
       /\ r.stage \in Late /\ p.pending = 0
       /\ p.tainted => r.marked
       /\ ~p.tainted => p.merged = p.sent
  /\ p.step \in Marked => r.stage \in Private /\ p.known = p.sent
AllWorkersSound == \A w \in Worker : WorkerSound(worker[w], run)

Passed(w) == w < run.turn

Stepped ==
  /\ At("markers") => \A w \in Worker : worker[w].step = IF Passed(w) THEN "ready" ELSE "drained"
  /\ At("union") => \A w \in Worker : worker[w].step = IF Passed(w) THEN "projected" ELSE "ready"
  /\ At("shutdown") => \A w \in Worker : worker[w].step = "projected"
  /\ run.private => run.stage \in {"finish", "over"} /\ \A w \in Worker : worker[w].step = "projected"
  /\ (\E w \in Worker : worker[w].step = "projected") => \A w \in Worker : worker[w].step \in Marked

\* A worker that fails stops the run, at the latest when the scheduler begins.
Manned ==
  /\ run.stage \in Spawning /\ ~run.aborted =>
       \A w \in Worker : worker[w].peer = IF Passed(w) \/ (At("starting") /\ w = run.turn)
                                          THEN "up" ELSE "none"
  /\ run.stage \notin Spawning \cup {"finish", "over"} /\ ~run.stopped =>
       \A w \in Worker : Up(w) \/ (At("shutdown") /\ worker[w].peer = "gone")

Turned ==
  /\ run.turn \in CASE run.stage \in Spawning \cup {"markers", "union", "shutdown"} -> 1..Workers
                    [] At("collect") -> 1..Workers + 1
                    [] At("closing") -> 1..run.made + 1
                    [] OTHER -> Nat
  /\ run.stage \in Spawning \cup {"setup"} => run.made = 0
  /\ At("window") => run.made = Vus

RunSound ==
  /\ Turned /\ Manned /\ Stepped
  /\ run.tidy => run.stage \in Late
  /\ At("teardown") => run.tidy
  /\ run.outcome = "complete" => CompleteIsWhole /\ run.private /\ At("over")

Hold == {v \in Vu : vu[v].ask \in {"admitted", "entered", "leased"}}
Potential == {v \in Vu : vu[v].wire = "sending" \/ vu[v].ask \in {"entered", "leased"}}
GateSound ==
  /\ \A v \in Vu : vu[v].ask = "waiting" <=> v \in ToSet(gate.line)
  /\ gate.held = Cardinality(Hold)
  /\ ~run.stopped => gate.held <= MaxConcurrency
  /\ Cardinality(Potential) <= MaxConcurrency

StressInv ==
  /\ StressTypeOK
  /\ AllVusSound /\ AllWorkersSound
  /\ RunSound /\ GateSound
-----------------------------------------------------------------------------
(***************************************************************************)
(* Homes, the line and the counts                                          *)
(***************************************************************************)

\* Every virtual user lives in a worker.
LEMMA HomeIsWorker ==
  ASSUME NEW v \in Vu
  PROVE  Home(v) \in Worker
BY StressAssumption DEF Home, Vu, Worker

\* There are as many virtual users as the schedule has.
LEMMA VusAreFinite == IsFiniteSet(Vu) /\ Cardinality(Vu) = Vus /\ Vus \in Nat
BY StressAssumption, FS_Interval DEF Vu

\* The first in the line leaves it, or a virtual user joins it.
LEMMA LineMoves ==
  ASSUME NEW line \in Seq(Vu), IsInjective(line)
  PROVE  /\ line # <<>> =>
              /\ Head(line) \in Vu /\ Head(line) \in ToSet(line)
              /\ Tail(line) \in Seq(Vu) /\ IsInjective(Tail(line))
              /\ ToSet(Tail(line)) = ToSet(line) \ {Head(line)}
         /\ \A v \in Vu : v \notin ToSet(line) =>
              /\ Append(line, v) \in Seq(Vu) /\ IsInjective(Append(line, v))
              /\ ToSet(Append(line, v)) = ToSet(line) \cup {v}
         /\ ToSet(line) \subseteq Vu
<1>1. /\ DOMAIN line = 1..Len(line) /\ Len(line) \in Nat
      /\ \A i \in 1..Len(line) : line[i] \in Vu
  BY LenProperties, ElementOfSeq
<1>2. \A i, k \in 1..Len(line) : line[i] = line[k] => i = k
  BY <1>1 DEF IsInjective
<1>3. ToSet(line) = {line[i] : i \in 1..Len(line)}
  BY <1>1 DEF ToSet
<1>4. ASSUME line # <<>>
      PROVE  /\ Head(line) \in Vu /\ Head(line) \in ToSet(line)
             /\ Tail(line) \in Seq(Vu) /\ IsInjective(Tail(line))
             /\ ToSet(Tail(line)) = ToSet(line) \ {Head(line)}
  <2> DEFINE t == Tail(line)
  <2>1. /\ Len(line) >= 1 /\ Head(line) = line[1] /\ t \in Seq(Vu) /\ Len(t) = Len(line) - 1
        /\ \A i \in 1..Len(t) : t[i] = line[i + 1]
    BY <1>1, <1>4, HeadTailProperties, EmptySeq
  <2>2. DOMAIN t = 1..Len(t)
    BY <2>1, LenProperties
  <2> HIDE DEF t
  <2>3. IsInjective(t)
    BY <1>1, <1>2, <2>1, <2>2 DEF IsInjective
  <2>4. ToSet(t) = {t[i] : i \in 1..Len(t)}
    BY <2>2 DEF ToSet
  <2>5. ASSUME NEW i \in 1..Len(t)
        PROVE  t[i] \in ToSet(line) \ {Head(line)}
    BY <1>1, <1>2, <1>3, <2>1
  <2>6. ASSUME NEW i \in 1..Len(line), line[i] # Head(line)
        PROVE  line[i] \in ToSet(t)
    <3>1. i - 1 \in 1..Len(t) /\ t[i - 1] = line[i]
      BY <1>1, <2>1, <2>6
    <3> QED
      BY <2>4, <3>1
  <2>7. ToSet(t) = ToSet(line) \ {Head(line)}
    BY <1>3, <2>4, <2>5, <2>6
  <2>8. Head(line) \in Vu /\ Head(line) \in ToSet(line)
    BY <1>1, <1>3, <2>1
  <2> QED
    BY <2>1, <2>3, <2>7, <2>8 DEF t
<1>5. ASSUME NEW v \in Vu, v \notin ToSet(line)
      PROVE  /\ Append(line, v) \in Seq(Vu) /\ IsInjective(Append(line, v))
             /\ ToSet(Append(line, v)) = ToSet(line) \cup {v}
  <2> DEFINE a == Append(line, v)
  <2>1. /\ a \in Seq(Vu) /\ Len(a) = Len(line) + 1 /\ a[Len(line) + 1] = v
        /\ \A i \in 1..Len(line) : a[i] = line[i]
    BY <1>1, AppendProperties
  <2>2. DOMAIN a = 1..Len(a)
    BY <2>1, LenProperties
  <2> HIDE DEF a
  <2>3. IsInjective(a)
    BY <1>1, <1>2, <1>3, <1>5, <2>1, <2>2 DEF IsInjective
  <2>4. ToSet(a) = {a[i] : i \in 1..Len(a)}
    BY <2>2 DEF ToSet
  <2>5. ToSet(a) = ToSet(line) \cup {v}
    BY <1>1, <1>3, <2>1, <2>4
  <2> QED
    BY <2>1, <2>3, <2>5 DEF a
<1>6. ToSet(line) \subseteq Vu
  BY <1>1, <1>3
<1> QED
  BY <1>4, <1>5, <1>6

\* Only the empty line holds nobody.
LEMMA EmptyLineMoves ==
  /\ <<>> \in Seq(Vu) /\ IsInjective(<<>>) /\ ToSet(<<>>) = {}
  /\ \A line \in Seq(Vu) : ToSet(line) = {} => line = <<>>
<1>1. <<>> \in Seq(Vu) /\ DOMAIN <<>> = {}
  BY EmptySeq
<1>2. ASSUME NEW line \in Seq(Vu), ToSet(line) = {}
      PROVE  line = <<>>
  <2>1. DOMAIN line = 1..Len(line) /\ Len(line) \in Nat
    BY LenProperties
  <2>2. Len(line) = 0
    <3>1. ASSUME Len(line) # 0
          PROVE  FALSE
      <4>1. 1 \in DOMAIN line
        BY <2>1, <3>1
      <4>2. line[1] \in ToSet(line)
        BY <4>1 DEF ToSet
      <4> QED
        BY <1>2, <4>2
    <3> QED
      BY <3>1
  <2> QED
    BY <2>2, EmptySeq
<1> QED
  BY <1>1, <1>2 DEF IsInjective, ToSet

\* What a state that keeps the invariant says of a virtual user and its worker.
LEMMA VuFacts ==
  ASSUME StressInv, NEW v \in Vu
  PROVE  /\ Home(v) \in Worker /\ worker[Home(v)] \in WorkerState /\ vu[v] \in VuState
         /\ run \in RunState /\ VuSound(vu[v], worker[Home(v)], run, v)
         /\ WorkerSound(worker[Home(v)], run)
         /\ vu \in [Vu -> VuState] /\ worker \in [Worker -> WorkerState]
BY HomeIsWorker DEF StressInv, StressTypeOK, AllVusSound, AllWorkersSound

\* The sets that are counted have a count.
LEMMA CountsAreFinite ==
  /\ IsFiniteSet(Hold) /\ Cardinality(Hold) \in 0..Vus
  /\ IsFiniteSet(Potential) /\ Cardinality(Potential) \in Nat
<1>1. Hold \subseteq Vu /\ Potential \subseteq Vu
  BY DEF Hold, Potential
<1> QED
  BY <1>1, VusAreFinite, FS_Subset, FS_CardinalityType

\* The limit holds as long as nobody new can get on the wire.
LEMMA FewerPotential ==
  ASSUME StressInv, Potential' \subseteq Potential
  PROVE  Cardinality(Potential') <= MaxConcurrency
<1>1. Cardinality(Potential') <= Cardinality(Potential) /\ Cardinality(Potential') \in Nat
  BY CountsAreFinite, FS_Subset, FS_CardinalityType
<1> QED
  BY <1>1, CountsAreFinite, StressAssumption DEF StressInv, GateSound
-----------------------------------------------------------------------------
(***************************************************************************)
(* What a step may do to those who are not its own                         *)
(***************************************************************************)

Holding == {"admitted", "entered", "leased"}
\* x becomes y: nothing, or who waits is admitted or refused.
Moved(x, y) ==
  \/ y = x
  \/ x.ask = "waiting" /\ y = [x EXCEPT !.ask = "admitted"]
  \/ x.ask = "waiting" /\ y = [x EXCEPT !.ask = "refused"]
\* The worker is as far as it was, and the run at most stopped.
SameWorker(p, q) == q.peer = p.peer /\ q.alive = p.alive /\ q.step = p.step
SameStage(r, s) ==
  s.stage = r.stage /\ s.turn = r.turn /\ s.made = r.made /\ s.tidy = r.tidy
StopsAtMost(r, s) == SameStage(r, s) /\ (r.stopped => s.stopped)

\* What an abort does to a virtual user leaves it one.
LEMMA MovedState ==
  ASSUME NEW x \in VuState, NEW y, Moved(x, y)
  PROVE  /\ y \in VuState /\ y.call = x.call /\ y.act = x.act /\ y.wire = x.wire
         /\ y.ask = x.ask \/ (x.ask = "waiting" /\ y.ask \in {"admitted", "refused"})
BY DEF VuState, Moved

\* A virtual user keeps what holds of it, when its worker and the run moved on.
LEMMA VuCarried ==
  ASSUME NEW v \in Vu, NEW x \in VuState, NEW y, NEW p \in WorkerState, NEW q \in WorkerState,
         NEW r \in RunState, NEW s \in RunState,
         VuSound(x, p, r, v), Moved(x, y), SameWorker(p, q), StopsAtMost(r, s),
         y.ask = "waiting" => ~s.stopped
  PROVE  VuSound(y, q, s, v)
<1>1. /\ y \in VuState /\ y.call = x.call /\ y.act = x.act /\ y.wire = x.wire
      /\ y.ask = x.ask \/ (x.ask = "waiting" /\ y.ask \in {"admitted", "refused"})
  BY MovedState
<1>2. Called(y, q, s, v)
  BY <1>1 DEF VuSound, Called, SameWorker, StopsAtMost, SameStage
<1>3. Housed(y, q, s, v)
  BY <1>1 DEF VuSound, Housed, SameWorker, StopsAtMost, SameStage
<1>4. Wired(y, q, s)
  <2>1. x.ask = "waiting" => p.peer = "up" /\ x.act \notin Quiet
    BY DEF VuSound, Wired, Quiet
  <2> QED
    BY <1>1, <2>1 DEF VuSound, Wired, SameWorker, StopsAtMost, SameStage, Quiet
<1> QED
  BY <1>2, <1>3, <1>4 DEF VuSound

\* A step that leaves the workers where they are, and all VUs but v.
LEMMA OthersCarried ==
  ASSUME StressInv, NEW v \in Vu, run' \in RunState, worker' \in [Worker -> WorkerState],
         StopsAtMost(run, run'),
         \A w \in Worker : SameWorker(worker[w], worker'[w]),
         \A u \in Vu \ {v} : Moved(vu[u], vu'[u]) /\ (vu'[u].ask = "waiting" => ~run'.stopped),
         VuSound(vu'[v], worker'[Home(v)], run', v)
  PROVE  AllVusSound'
<1>1. ASSUME NEW u \in Vu \ {v}
      PROVE  VuSound(vu'[u], worker'[Home(u)], run', u)
  <2>1. /\ Home(u) \in Worker /\ worker[Home(u)] \in WorkerState /\ vu[u] \in VuState
        /\ run \in RunState /\ VuSound(vu[u], worker[Home(u)], run, u)
    BY VuFacts
  <2>2. worker'[Home(u)] \in WorkerState /\ SameWorker(worker[Home(u)], worker'[Home(u)])
    BY <2>1
  <2> QED
    BY <2>1, <2>2, VuCarried
<1> QED
  BY <1>1 DEF AllVusSound, Home

\* So do all virtual users.
LEMMA AllCarried ==
  ASSUME StressInv, run' \in RunState, worker' \in [Worker -> WorkerState],
         StopsAtMost(run, run'),
         \A w \in Worker : SameWorker(worker[w], worker'[w]),
         \A u \in Vu : Moved(vu[u], vu'[u]) /\ (vu'[u].ask = "waiting" => ~run'.stopped)
  PROVE  AllVusSound'
<1>1. ASSUME NEW u \in Vu
      PROVE  VuSound(vu'[u], worker'[Home(u)], run', u)
  <2>1. /\ Home(u) \in Worker /\ worker[Home(u)] \in WorkerState /\ vu[u] \in VuState
        /\ run \in RunState /\ VuSound(vu[u], worker[Home(u)], run, u)
    BY VuFacts
  <2>2. worker'[Home(u)] \in WorkerState /\ SameWorker(worker[Home(u)], worker'[Home(u)])
    BY <2>1
  <2> QED
    BY <2>1, <2>2, VuCarried
<1> QED
  BY <1>1 DEF AllVusSound, Home

\* The run goes on where it is, and its workers as far as they are.
LEMMA RunStands ==
  ASSUME StressInv, run' \in RunState, SameStage(run, run'), run.stopped => run'.stopped,
         run.aborted => run'.aborted,
         run'.private = run.private, run'.outcome = run.outcome,
         \A w \in Worker : worker'[w].peer = worker[w].peer /\ worker'[w].step = worker[w].step,
         run.outcome = "complete" =>
           \A w \in Worker : /\ worker'[w].merged = worker[w].merged /\ worker'[w].sent = worker[w].sent
                             /\ worker'[w].tainted = worker[w].tainted
  PROVE  RunSound'
<1>1. Turned'
  BY DEF StressInv, RunSound, Turned, SameStage, At
<1>2. Manned'
  BY DEF StressInv, RunSound, Manned, SameStage, At, Up, Passed
<1>3. Stepped'
  BY DEF StressInv, RunSound, Stepped, SameStage, At, Passed
<1>4. run'.outcome = "complete" => CompleteIsWhole' /\ run'.private /\ At("over")'
  BY DEF StressInv, RunSound, CompleteIsWhole, SameStage, At
<1> QED
  BY <1>1, <1>2, <1>3, <1>4 DEF StressInv, RunSound, SameStage, At

\* The run keeps what holds of it, as long as the workers keep their steps.
LEMMA RunCarried ==
  ASSUME StressInv, run' \in RunState, SameStage(run, run'), run.stopped => run'.stopped,
         run.aborted => run'.aborted,
         run'.private = run.private, run'.outcome = run.outcome,
         \A w \in Worker : SameWorker(worker[w], worker'[w]),
         run.outcome = "complete" =>
           \A w \in Worker : /\ worker'[w].merged = worker[w].merged /\ worker'[w].sent = worker[w].sent
                             /\ worker'[w].tainted = worker[w].tainted
  PROVE  RunSound'
<1>1. \A w \in Worker : worker'[w].peer = worker[w].peer /\ worker'[w].step = worker[w].step
  BY DEF SameWorker
<1> QED
  BY <1>1, RunStands

\* Every worker keeps what holds of it.
LEMMA WorkersCarried ==
  ASSUME StressInv, run'.stage = run.stage, run.marked => run'.marked,
         \A w \in Worker : /\ SameWorker(worker[w], worker'[w])
                           /\ worker'[w].tainted = worker[w].tainted
                           /\ worker'[w].sent = worker[w].sent /\ worker'[w].noted = worker[w].noted
                           /\ worker'[w].pending = worker[w].pending
                           /\ worker'[w].merged = worker[w].merged /\ worker'[w].known = worker[w].known
  PROVE  AllWorkersSound'
BY DEF StressInv, AllWorkersSound, WorkerSound, SameWorker
-----------------------------------------------------------------------------
(***************************************************************************)
(* The gate                                                                *)
(***************************************************************************)

\* Nobody's permit changes, and nobody gets on the wire who could not before.
LEMMA GateKept ==
  ASSUME StressInv, gate' = gate, run.stopped => run'.stopped,
         \A v \in Vu : /\ vu'[v].ask = "waiting" <=> vu[v].ask = "waiting"
                       /\ vu'[v].ask \in Holding <=> vu[v].ask \in Holding,
         Potential' \subseteq Potential
  PROVE  GateSound'
<1>1. Hold' = Hold
  BY DEF Hold, Holding
<1>2. \A v \in Vu : vu'[v].ask = "waiting" <=> v \in ToSet(gate'.line)
  BY DEF StressInv, GateSound
<1>3. Cardinality(Potential') <= MaxConcurrency
  BY FewerPotential
<1> QED
  BY <1>1, <1>2, <1>3 DEF StressInv, GateSound

\* The line is emptied: who waited does so no more.
LEMMA LineEmptied ==
  ASSUME StressInv, gate' = [gate EXCEPT !.line = <<>>], run.stopped => run'.stopped,
         \A v \in Vu : /\ vu'[v].ask # "waiting"
                       /\ vu'[v].ask \in Holding <=> vu[v].ask \in Holding,
         Potential' \subseteq Potential
  PROVE  GateSound' /\ gate' \in [held : 0..Vus, line : Seq(Vu)] /\ IsInjective(gate'.line)
<1>1. Hold' = Hold
  BY DEF Hold, Holding
<1>2. gate \in [held : 0..Vus, line : Seq(Vu)]
  BY DEF StressInv, StressTypeOK
<1>3. gate'.line = <<>> /\ gate'.held = gate.held /\ gate' \in [held : 0..Vus, line : Seq(Vu)]
  BY <1>2, EmptyLineMoves
<1>4. \A v \in Vu : vu'[v].ask = "waiting" <=> v \in ToSet(gate'.line)
  BY <1>3, EmptyLineMoves
<1>5. Cardinality(Potential') <= MaxConcurrency
  BY FewerPotential
<1> QED
  BY <1>1, <1>3, <1>4, <1>5, EmptyLineMoves DEF StressInv, GateSound

\* How many hold a permit, when A give theirs up and B get one.
LEMMA HoldMoves ==
  ASSUME StressInv, NEW A \in SUBSET Hold, NEW B \in SUBSET (Vu \ Hold),
         Hold' = (Hold \ A) \cup B
  PROVE  /\ Cardinality(Hold') = (gate.held - Cardinality(A)) + Cardinality(B)
         /\ Cardinality(Hold') \in 0..Vus
         /\ Cardinality(A) \in Nat /\ Cardinality(B) \in Nat /\ gate.held \in Nat
         /\ Cardinality(A) <= gate.held
<1>1. IsFiniteSet(Hold) /\ Hold \subseteq Vu /\ gate.held = Cardinality(Hold)
  BY CountsAreFinite DEF Hold, StressInv, GateSound
<1>2. IsFiniteSet(A) /\ IsFiniteSet(B) /\ IsFiniteSet(Vu)
  BY <1>1, VusAreFinite, FS_Subset
<1>3. Cardinality(A) \in Nat /\ Cardinality(B) \in Nat /\ gate.held \in Nat /\ Cardinality(A) <= gate.held
  BY <1>1, <1>2, FS_CardinalityType, FS_Subset
<1>4. Cardinality(Hold \ A) = gate.held - Cardinality(A) /\ IsFiniteSet(Hold \ A)
  <2>1. Hold \cap A = A
    OBVIOUS
  <2> QED
    BY <1>1, <1>2, <2>1, FS_Difference
<1>5. Cardinality(Hold') = Cardinality(Hold \ A) + Cardinality(B)
  <2>1. (Hold \ A) \cap B = {}
    OBVIOUS
  <2>2. Cardinality((Hold \ A) \cup B) =
          Cardinality(Hold \ A) + Cardinality(B) - Cardinality((Hold \ A) \cap B)
    BY <1>2, <1>4, FS_Union
  <2>3. Cardinality({}) = 0
    BY FS_EmptySet
  <2>4. Cardinality(Hold \ A) \in Nat
    BY <1>4, FS_CardinalityType
  <2>5. Cardinality((Hold \ A) \cup B) = Cardinality(Hold \ A) + Cardinality(B) - 0
    BY <2>1, <2>2, <2>3
  <2> QED
    BY <1>3, <2>4, <2>5
<1>6. Cardinality(Hold') \in 0..Vus
  <2>1. Hold' \subseteq Vu
    BY <1>1
  <2>2. Cardinality(Hold') \in Nat /\ Cardinality(Hold') <= Cardinality(Vu)
    BY <1>2, <2>1, FS_Subset, FS_CardinalityType
  <2> QED
    BY <2>2, VusAreFinite
<1> QED
  BY <1>3, <1>4, <1>5, <1>6

\* Someone gives a permit back, which the first in the line gets.
LEMMA ReleaseGivesOn ==
  ASSUME StressInv, NEW v \in Hold, NEW vs \in [Vu -> VuState], Release(vs), run' = run,
         vs[v].ask \in {"none", "refused"}, vs[v].wire \in {vu[v].wire, "idle"},
         \A u \in Vu \ {v} : vs[u] = vu[u]
  PROVE  /\ vu' \in [Vu -> VuState] /\ GateSound'
         /\ gate' \in [held : 0..Vus, line : Seq(Vu)] /\ IsInjective(gate'.line)
         /\ \A u \in Vu \ {v} : Moved(vu[u], vu'[u])
         /\ vu'[v] = vs[v]
<1> DEFINE line == gate.line
<1>1. /\ gate \in [held : 0..Vus, line : Seq(Vu)] /\ line \in Seq(Vu) /\ IsInjective(line)
      /\ vu \in [Vu -> VuState] /\ \A u \in Vu : vu[u].ask = "waiting" <=> u \in ToSet(line)
      /\ v \in Vu /\ vu[v].ask \in Holding
  BY DEF StressInv, StressTypeOK, GateSound, Hold, Holding
<1>2. gate.held = Cardinality(Hold) /\ (~run.stopped => gate.held <= MaxConcurrency)
  BY DEF StressInv, GateSound
<1>3. {v} \in SUBSET Hold /\ Cardinality({v}) = 1
  BY FS_Singleton
<1>4. CASE line = <<>>
  <2>1. gate' = [gate EXCEPT !.held = @ - 1] /\ vu' = vs
    BY <1>4 DEF Release
  <2>2. Hold' = (Hold \ {v}) \cup {}
    BY <1>1, <2>1 DEF Hold
  <2>3. Cardinality(Hold') = (gate.held - 1) + 0 /\ Cardinality(Hold') \in 0..Vus /\ gate.held \in Nat
    <3>1. Cardinality({}) = 0 /\ {} \in SUBSET (Vu \ Hold)
      BY FS_EmptySet
    <3> QED
      BY <1>3, <2>2, <3>1, HoldMoves
  <2>4. gate'.held = gate.held - 1 /\ gate'.line = line
    BY <1>1, <2>1
  <2>5. Potential' \subseteq Potential
    BY <1>1, <2>1 DEF Potential
  <2>6. Cardinality(Potential') <= MaxConcurrency
    BY <2>5, FewerPotential
  <2>7. \A u \in Vu : vu'[u].ask = "waiting" <=> u \in ToSet(gate'.line)
    BY <1>1, <2>1, <2>4 DEF Holding
  <2>8. gate' \in [held : 0..Vus, line : Seq(Vu)] /\ IsInjective(gate'.line)
    BY <1>1, <2>1, <2>3, <2>4
  <2>9. gate'.held = Cardinality(Hold') /\ (~run'.stopped => gate'.held <= MaxConcurrency)
    BY <1>2, <2>3, <2>4, StressAssumption
  <2> QED
    BY <2>1, <2>6, <2>7, <2>8, <2>9 DEF GateSound, Moved
<1>5. CASE line # <<>>
  <2> DEFINE h == Head(line)
  <2>1. /\ h \in Vu /\ h \in ToSet(line) /\ Tail(line) \in Seq(Vu) /\ IsInjective(Tail(line))
        /\ ToSet(Tail(line)) = ToSet(line) \ {h}
    BY <1>1, <1>5, LineMoves
  <2>2. gate' = [gate EXCEPT !.line = Tail(@)] /\ vu' = [vs EXCEPT ![h].ask = "admitted"]
    BY <1>5 DEF Release
  <2>3. vu[h].ask = "waiting" /\ h # v /\ h \notin Hold /\ vs[h] = vu[h]
    BY <1>1, <2>1 DEF Hold, Holding
  <2> HIDE DEF h
  <2>4. /\ \A u \in Vu \ {h} : vu'[u] = vs[u]
        /\ vu'[h] = [vu[h] EXCEPT !.ask = "admitted"] /\ vu' \in [Vu -> VuState]
    <3>1. vu[h] \in VuState /\ [vu[h] EXCEPT !.ask = "admitted"] \in VuState
      BY <1>1, <2>1 DEF VuState
    <3>2. vu' = [vs EXCEPT ![h] = [vs[h] EXCEPT !.ask = "admitted"]]
      BY <2>2
    <3> QED
      BY <2>1, <2>3, <3>1, <3>2
  <2>5. vu'[h].ask = "admitted" /\ vu'[h].wire = vu[h].wire
    BY <1>1, <2>1, <2>4 DEF VuState
  <2>6. Hold' = (Hold \ {v}) \cup {h}
    BY <1>1, <2>1, <2>3, <2>4, <2>5 DEF Hold
  <2>7. Cardinality(Hold') = (gate.held - 1) + 1 /\ Cardinality(Hold') \in 0..Vus /\ gate.held \in Nat
    <3>1. {h} \in SUBSET (Vu \ Hold) /\ Cardinality({h}) = 1
      BY <2>1, <2>3, FS_Singleton
    <3> QED
      BY <1>3, <2>6, <3>1, HoldMoves
  <2>8. gate'.held = gate.held /\ gate'.line = Tail(line)
    BY <1>1, <2>2
  <2>9. Potential' \subseteq Potential
    <3>1. \A u \in Vu \ {v, h} : vu'[u] = vu[u]
      BY <2>4
    <3>2. vu'[v] = vs[v] /\ vs[v].ask \notin {"entered", "leased"}
      BY <1>1, <2>3, <2>4
    <3>3. vs[v].wire = "sending" => vu[v].wire = "sending"
      OBVIOUS
    <3> QED
      BY <2>5, <3>1, <3>2, <3>3 DEF Potential
  <2>10. Cardinality(Potential') <= MaxConcurrency
    BY <2>9, FewerPotential
  <2>11. \A u \in Vu : vu'[u].ask = "waiting" <=> u \in ToSet(gate'.line)
    <3>1. \A u \in Vu \ {v, h} : vu'[u] = vu[u]
      BY <2>4
    <3>2. vu'[v].ask # "waiting" /\ v \notin ToSet(line)
      BY <1>1, <2>3, <2>4 DEF Holding
    <3> QED
      BY <1>1, <2>1, <2>5, <2>8, <3>1, <3>2
  <2>12. gate' \in [held : 0..Vus, line : Seq(Vu)] /\ IsInjective(gate'.line)
    BY <1>1, <2>1, <2>2, <2>8
  <2>13. gate'.held = Cardinality(Hold') /\ (~run'.stopped => gate'.held <= MaxConcurrency)
    BY <1>2, <2>7, <2>8
  <2>14. \A u \in Vu \ {v} : Moved(vu[u], vu'[u])
    BY <2>3, <2>4 DEF Moved
  <2>15. vu'[v] = vs[v]
    BY <1>1, <2>3, <2>4
  <2> QED
    BY <2>4, <2>10, <2>11, <2>12, <2>13, <2>14, <2>15 DEF GateSound
<1> QED
  BY <1>4, <1>5
-----------------------------------------------------------------------------
(***************************************************************************)
(* Requests and their permits                                              *)
(***************************************************************************)

\* A step of one VU that leaves the permits as they are, and of its worker.
LEMMA OneVuSteps ==
  ASSUME StressInv, NEW v \in Vu, NEW y \in VuState, NEW q \in WorkerState,
         vu' = [vu EXCEPT ![v] = y], worker' = [worker EXCEPT ![Home(v)] = q],
         run' = run, gate' = gate,
         SameWorker(worker[Home(v)], q), WorkerSound(q, run), VuSound(y, q, run, v),
         y.ask = "waiting" <=> vu[v].ask = "waiting",
         y.ask \in Holding <=> vu[v].ask \in Holding,
         y.wire = "sending" => vu[v].wire = "sending" \/ vu[v].ask \in {"entered", "leased"},
         y.ask \in {"entered", "leased"} => vu[v].ask \in {"entered", "leased"},
         run.stage # "over" \/ q = worker[Home(v)]
  PROVE  StressInv'
<1>1. /\ Home(v) \in Worker /\ run \in RunState /\ worker \in [Worker -> WorkerState]
      /\ vu \in [Vu -> VuState] /\ gate \in [held : 0..Vus, line : Seq(Vu)] /\ IsInjective(gate.line)
  BY VuFacts DEF StressInv, StressTypeOK
<1>2. StressTypeOK'
  <2>1. vu' \in [Vu -> VuState] /\ worker' \in [Worker -> WorkerState]
    BY <1>1
  <2> QED
    BY <1>1, <2>1 DEF StressTypeOK
<1>3. \A w \in Worker : SameWorker(worker[w], worker'[w])
  BY <1>1 DEF SameWorker
<1>4. AllVusSound'
  <2>1. \A u \in Vu \ {v} : Moved(vu[u], vu'[u]) /\ (vu'[u].ask = "waiting" => ~run'.stopped)
    <3>1. ASSUME NEW u \in Vu \ {v}
          PROVE  vu'[u] = vu[u] /\ (vu[u].ask = "waiting" => ~run.stopped)
      BY <1>1, VuFacts DEF VuSound, Wired
    <3> QED
      BY <3>1 DEF Moved
  <2>2. vu'[v] = y /\ worker'[Home(v)] = q
    BY <1>1
  <2>3. StopsAtMost(run, run')
    BY DEF StopsAtMost, SameStage
  <2>4. run' \in RunState /\ worker' \in [Worker -> WorkerState]
    BY <1>1
  <2>5. VuSound(vu'[v], worker'[Home(v)], run', v)
    BY <2>2
  <2> QED
    BY <1>3, <2>1, <2>3, <2>4, <2>5, OthersCarried
<1>5. AllWorkersSound'
  <2>1. ASSUME NEW w \in Worker
        PROVE  WorkerSound(worker'[w], run)
    <3>1. worker'[w] = IF w = Home(v) THEN q ELSE worker[w]
      BY <1>1
    <3> QED
      BY <3>1 DEF StressInv, AllWorkersSound
  <2> QED
    BY <2>1 DEF AllWorkersSound
<1>6. RunSound'
  <2>1. run.outcome = "complete" =>
          \A w \in Worker : /\ worker'[w].merged = worker[w].merged /\ worker'[w].sent = worker[w].sent
                            /\ worker'[w].tainted = worker[w].tainted
    <3>1. run.outcome = "complete" => run.stage = "over"
      BY DEF StressInv, RunSound, At
    <3> QED
      BY <1>1, <3>1
  <2> QED
    BY <1>1, <1>3, <2>1, RunCarried DEF SameStage
<1>7. GateSound'
  <2>1. \A u \in Vu : /\ vu'[u].ask = "waiting" <=> vu[u].ask = "waiting"
                      /\ vu'[u].ask \in Holding <=> vu[u].ask \in Holding
    BY <1>1
  <2>2. Potential' \subseteq Potential
    BY <1>1 DEF Potential
  <2> QED
    BY <2>1, <2>2, GateKept
<1> QED
  BY <1>2, <1>4, <1>5, <1>6, <1>7 DEF StressInv

\* A session that asks is working, and holds no permit yet.
LEMMA AskKeeps ==
  ASSUME StressInv, NEW v \in Vu, Ask(v)
  PROVE  StressInv'
<1> DEFINE x == vu[v]
           p == worker[Home(v)]
           y == [x EXCEPT !.wire = "asking", !.ask = "sent"]
           q == [p EXCEPT !.asked = @ + 1]
<1>1. /\ p \in WorkerState /\ x \in VuState /\ VuSound(x, p, run, v) /\ WorkerSound(p, run)
      /\ Home(v) \in Worker /\ vu \in [Vu -> VuState] /\ worker \in [Worker -> WorkerState]
  BY VuFacts
<1>2. /\ x.act = "working" /\ x.wire = "idle" /\ p.peer = "up" /\ p.alive /\ p.asked < MaxRequests
      /\ run' = run /\ gate' = gate
  BY DEF Ask, Serving, Up
<1>3. vu' = [vu EXCEPT ![v] = y] /\ worker' = [worker EXCEPT ![Home(v)] = q]
  BY <1>1 DEF Ask
<1>4. y \in VuState /\ q \in WorkerState /\ SameWorker(p, q) /\ WorkerSound(q, run)
  <2>1. y \in VuState
    BY <1>1 DEF VuState
  <2>2. p.asked \in 0..MaxRequests /\ MaxRequests \in Nat
    BY <1>1, StressAssumption DEF WorkerState
  <2>3. p.asked + 1 \in 0..MaxRequests
    BY <1>2, <2>2
  <2>4. q \in WorkerState
    BY <1>1, <2>3 DEF WorkerState
  <2>5. SameWorker(p, q) /\ WorkerSound(q, run)
    BY <1>1 DEF WorkerState, SameWorker, WorkerSound
  <2> QED
    BY <2>1, <2>4, <2>5
<1>5. y.wire = "asking" /\ y.ask = "sent" /\ y.act = x.act /\ y.call = x.call /\ x.ask = "none"
  BY <1>1, <1>2 DEF VuState, VuSound, Wired
<1>6. VuSound(y, q, run, v)
  <2>1. Called(y, q, run, v)
    BY <1>1, <1>4, <1>5 DEF VuSound, Called, SameWorker
  <2>2. Housed(y, q, run, v)
    BY <1>1, <1>4, <1>5 DEF VuSound, Housed, SameWorker
  <2>3. Wired(y, q, run)
    BY <1>1, <1>2, <1>4, <1>5 DEF VuSound, Wired, SameWorker, Quiet
  <2> QED
    BY <2>1, <2>2, <2>3 DEF VuSound
<1>7. run.stage # "over"
  BY <1>1, <1>2 DEF WorkerSound
<1> HIDE DEF x, p, y, q
<1> QED
  BY <1>2, <1>3, <1>4, <1>5, <1>6, <1>7, OneVuSteps DEF Holding, x, p

\* A step of one VU, after which permits move in the line.
LEMMA PermitSteps ==
  ASSUME StressInv, NEW v \in Vu, vu' \in [Vu -> VuState], run' = run, worker' = worker,
         \A u \in Vu \ {v} : Moved(vu[u], vu'[u]),
         VuSound(vu'[v], worker[Home(v)], run, v),
         gate' \in [held : 0..Vus, line : Seq(Vu)], IsInjective(gate'.line), GateSound'
  PROVE  StressInv'
<1>1. run \in RunState /\ worker \in [Worker -> WorkerState]
  BY DEF StressInv, StressTypeOK
<1>2. StressTypeOK'
  BY <1>1 DEF StressTypeOK
<1>3. \A w \in Worker : SameWorker(worker[w], worker'[w])
  BY DEF SameWorker
<1>4. AllVusSound'
  <2>1. ASSUME NEW u \in Vu \ {v}
        PROVE  vu'[u].ask = "waiting" => ~run'.stopped
    <3>1. vu[u] \in VuState /\ Moved(vu[u], vu'[u]) /\ (vu[u].ask = "waiting" => ~run.stopped)
      BY VuFacts DEF VuSound, Wired
    <3> QED
      BY <3>1, MovedState
  <2>2. StopsAtMost(run, run')
    BY DEF StopsAtMost, SameStage
  <2>3. VuSound(vu'[v], worker'[Home(v)], run', v)
    OBVIOUS
  <2>4. run' \in RunState /\ worker' \in [Worker -> WorkerState]
    BY <1>1
  <2> QED
    BY <1>3, <2>1, <2>2, <2>3, <2>4, OthersCarried
<1>5. AllWorkersSound'
  BY DEF StressInv, AllWorkersSound
<1>6. RunSound'
  BY <1>1, <1>3, RunCarried DEF SameStage
<1> QED
  BY <1>2, <1>4, <1>5, <1>6 DEF StressInv

\* A permit that is given back goes to the first in the line, or is free.
LEMMA ReleaseSteps ==
  ASSUME StressInv, NEW v \in Hold, NEW y \in VuState,
         Release([vu EXCEPT ![v] = y]), run' = run, worker' = worker,
         y.ask \in {"none", "refused"}, y.wire \in {vu[v].wire, "idle"},
         VuSound(y, worker[Home(v)], run, v)
  PROVE  StressInv'
<1> DEFINE vs == [vu EXCEPT ![v] = y]
<1>1. v \in Vu /\ vu \in [Vu -> VuState]
  BY DEF Hold, StressInv, StressTypeOK
<1>2. vs \in [Vu -> VuState] /\ vs[v] = y /\ \A u \in Vu \ {v} : vs[u] = vu[u]
  BY <1>1
<1>3. Release(vs)
  OBVIOUS
<1> HIDE DEF vs
<1>4. vs[v].ask \in {"none", "refused"} /\ vs[v].wire \in {vu[v].wire, "idle"}
  BY <1>2
<1>5. /\ vu' \in [Vu -> VuState] /\ GateSound'
      /\ gate' \in [held : 0..Vus, line : Seq(Vu)] /\ IsInjective(gate'.line)
      /\ \A u \in Vu \ {v} : Moved(vu[u], vu'[u])
      /\ vu'[v] = vs[v]
  BY <1>2, <1>3, <1>4, ReleaseGivesOn
<1>6. VuSound(vu'[v], worker[Home(v)], run, v)
  BY <1>2, <1>5
<1> QED
  BY <1>1, <1>5, <1>6, PermitSteps

\* The permit of a VU changes, and nothing else of it.
LEMMA AskChanges ==
  ASSUME NEW x \in VuState, NEW a \in {"waiting", "admitted", "entered", "leased", "refused"},
         NEW p \in WorkerState, NEW r \in RunState, NEW v \in Vu, VuSound(x, p, r, v),
         x.ask \in {"sent", "waiting", "admitted", "entered"},
         p.peer # "up" => a \in {"admitted", "entered"}, a = "waiting" => ~r.stopped
  PROVE  VuSound([x EXCEPT !.ask = a], p, r, v) /\ [x EXCEPT !.ask = a] \in VuState
<1> DEFINE y == [x EXCEPT !.ask = a]
<1>1. y \in VuState /\ y.call = x.call /\ y.act = x.act /\ y.wire = x.wire /\ y.ask = a
  BY DEF VuState
<1> HIDE DEF y
<1>2. Called(y, p, r, v)
  BY <1>1 DEF VuSound, Called
<1>3. Housed(y, p, r, v)
  BY <1>1 DEF VuSound, Housed
<1>4. Wired(y, p, r)
  BY <1>1 DEF VuSound, Wired
<1>5. VuSound(y, p, r, v)
  BY <1>2, <1>3, <1>4 DEF VuSound
<1> QED
  BY <1>1, <1>5 DEF y

\* A place is taken only below the limit; who waits joins the end of the line.
LEMMA EnterKeeps ==
  ASSUME StressInv, NEW v \in Vu, Enter(v)
  PROVE  StressInv'
<1> DEFINE x == vu[v]
           p == worker[Home(v)]
           y(a) == [x EXCEPT !.ask = a]
<1>1. /\ p \in WorkerState /\ x \in VuState /\ VuSound(x, p, run, v) /\ run \in RunState
      /\ vu \in [Vu -> VuState] /\ gate \in [held : 0..Vus, line : Seq(Vu)] /\ IsInjective(gate.line)
  BY VuFacts DEF StressInv, StressTypeOK
<1>2. x.ask = "sent" /\ run' = run /\ worker' = worker
  BY DEF Enter
<1>3. p.peer = "up"
  BY <1>1, <1>2 DEF VuSound, Wired
<1>4. v \notin Hold /\ v \notin ToSet(gate.line)
  BY <1>2 DEF Hold, StressInv, GateSound
<1>5. /\ VuSound(y("admitted"), p, run, v) /\ y("admitted") \in VuState
      /\ VuSound(y("refused"), p, run, v) /\ y("refused") \in VuState
      /\ ~run.stopped => VuSound(y("waiting"), p, run, v) /\ y("waiting") \in VuState
  BY <1>1, <1>2, <1>3, AskChanges
<1>6. /\ y("admitted").ask = "admitted" /\ y("refused").ask = "refused" /\ y("waiting").ask = "waiting"
      /\ y("admitted").wire = x.wire /\ y("refused").wire = x.wire /\ y("waiting").wire = x.wire
  BY <1>1 DEF VuState
<1> HIDE DEF y
<1>7. ASSUME NEW a, vu' = [vu EXCEPT ![v] = y(a)], VuSound(y(a), p, run, v), y(a) \in VuState,
             gate' \in [held : 0..Vus, line : Seq(Vu)], IsInjective(gate'.line), GateSound'
      PROVE  StressInv'
  <2>1. vu' \in [Vu -> VuState] /\ vu'[v] = y(a) /\ \A u \in Vu \ {v} : vu'[u] = vu[u]
    BY <1>1, <1>7
  <2>2. \A u \in Vu \ {v} : Moved(vu[u], vu'[u])
    BY <2>1 DEF Moved
  <2>3. VuSound(vu'[v], worker[Home(v)], run, v)
    BY <1>7, <2>1
  <2> QED
    BY <1>2, <1>7, <2>1, <2>2, <2>3, PermitSteps
<1>8. CASE /\ ~Barred(v) /\ gate.held < MaxConcurrency /\ gate.line = <<>>
           /\ vu' = [vu EXCEPT ![v].ask = "admitted"] /\ gate' = [gate EXCEPT !.held = @ + 1]
  <2>1. vu' = [vu EXCEPT ![v] = y("admitted")]
    BY <1>1, <1>8 DEF y
  <2>2. \A u \in Vu : vu'[u] = IF u = v THEN y("admitted") ELSE vu[u]
    BY <1>1, <2>1
  <2>3. Hold' = (Hold \ {}) \cup {v}
    BY <1>6, <2>2 DEF Hold
  <2>4. Cardinality(Hold') = (gate.held - 0) + 1 /\ Cardinality(Hold') \in 0..Vus /\ gate.held \in Nat
    <3>1. {v} \in SUBSET (Vu \ Hold) /\ Cardinality({v}) = 1 /\ Cardinality({}) = 0
      BY <1>4, FS_Singleton, FS_EmptySet
    <3> QED
      BY <2>3, <3>1, HoldMoves
  <2>5. gate'.held = gate.held + 1 /\ gate'.line = gate.line
    BY <1>1, <1>8
  <2>6. gate' \in [held : 0..Vus, line : Seq(Vu)] /\ IsInjective(gate'.line)
    BY <1>1, <1>8, <2>4, <2>5
  <2>7. Potential' \subseteq Potential
    BY <1>2, <1>6, <2>2 DEF Potential
  <2>8. \A u \in Vu : vu'[u].ask = "waiting" <=> u \in ToSet(gate'.line)
    BY <1>2, <1>6, <2>2, <2>5 DEF StressInv, GateSound
  <2>9. gate'.held = Cardinality(Hold') /\ gate'.held <= MaxConcurrency
    BY <1>8, <2>4, <2>5, StressAssumption
  <2>10. GateSound'
    BY <2>7, <2>8, <2>9, FewerPotential DEF GateSound
  <2> HIDE DEF x, p
  <2> QED
    BY <1>5, <1>7, <2>1, <2>6, <2>10
<1>9. CASE /\ ~Barred(v) /\ vu' = [vu EXCEPT ![v].ask = "waiting"]
           /\ gate' = [gate EXCEPT !.line = Append(@, v)]
  <2>1. vu' = [vu EXCEPT ![v] = y("waiting")] /\ ~run.stopped
    BY <1>1, <1>9 DEF Barred, y
  <2>2. \A u \in Vu : vu'[u] = IF u = v THEN y("waiting") ELSE vu[u]
    BY <1>1, <2>1
  <2>3. Hold' = Hold
    BY <1>4, <1>6, <2>2 DEF Hold
  <2>4. gate'.held = gate.held /\ gate'.line = Append(gate.line, v)
    BY <1>1, <1>9
  <2>5. /\ gate'.line \in Seq(Vu) /\ IsInjective(gate'.line)
        /\ ToSet(gate'.line) = ToSet(gate.line) \cup {v}
    BY <1>1, <1>4, <2>4, LineMoves
  <2>6. gate' \in [held : 0..Vus, line : Seq(Vu)]
    BY <1>1, <1>9, <2>4, <2>5
  <2>7. Potential' \subseteq Potential
    BY <1>2, <1>6, <2>2 DEF Potential
  <2>8. \A u \in Vu : vu'[u].ask = "waiting" <=> u \in ToSet(gate'.line)
    BY <1>6, <2>2, <2>5 DEF StressInv, GateSound
  <2>9. GateSound'
    BY <1>2, <2>3, <2>4, <2>7, <2>8, FewerPotential DEF StressInv, GateSound
  <2> HIDE DEF x, p
  <2> QED
    BY <1>5, <1>7, <2>1, <2>5, <2>6, <2>9
<1>10. CASE vu' = [vu EXCEPT ![v].ask = "refused"] /\ gate' = gate
  <2>1. vu' = [vu EXCEPT ![v] = y("refused")]
    BY <1>1, <1>10 DEF y
  <2>2. \A u \in Vu : vu'[u] = IF u = v THEN y("refused") ELSE vu[u]
    BY <1>1, <2>1
  <2>3. Potential' \subseteq Potential
    BY <1>2, <1>6, <2>2 DEF Potential
  <2>4. \A u \in Vu : /\ vu'[u].ask = "waiting" <=> vu[u].ask = "waiting"
                      /\ vu'[u].ask \in Holding <=> vu[u].ask \in Holding
    BY <1>2, <1>6, <2>2 DEF Holding
  <2>5. GateSound'
    BY <1>2, <1>10, <2>3, <2>4, GateKept
  <2>6. gate' \in [held : 0..Vus, line : Seq(Vu)] /\ IsInjective(gate'.line)
    BY <1>1, <1>10
  <2> HIDE DEF x, p
  <2> QED
    BY <1>5, <1>7, <2>1, <2>5, <2>6
<1> QED
  BY <1>8, <1>9, <1>10 DEF Enter

\* Who has waited uses the place only when nothing was stopped meanwhile.
LEMMA PaceKeeps ==
  ASSUME StressInv, NEW v \in Vu, Pace(v)
  PROVE  StressInv'
<1> DEFINE x == vu[v]
           p == worker[Home(v)]
           y(a) == [x EXCEPT !.ask = a]
<1>1. /\ p \in WorkerState /\ x \in VuState /\ VuSound(x, p, run, v) /\ run \in RunState
      /\ vu \in [Vu -> VuState] /\ gate \in [held : 0..Vus, line : Seq(Vu)] /\ IsInjective(gate.line)
  BY VuFacts DEF StressInv, StressTypeOK
<1>2. x.ask = "admitted" /\ run' = run /\ worker' = worker
  BY DEF Pace
<1>3. v \in Hold
  BY <1>2 DEF Hold
<1>4. /\ p.peer = "up" => VuSound(y("refused"), p, run, v) /\ y("refused") \in VuState
      /\ VuSound(y("entered"), p, run, v) /\ y("entered") \in VuState
  BY <1>1, <1>2, AskChanges
<1>5. p.peer # "up" => VuSound(y("none"), p, run, v) /\ y("none") \in VuState
  BY <1>1, <1>2 DEF VuState, VuSound, Called, Housed, Wired
<1>6. \A a \in {"none", "refused", "entered"} : y(a).ask = a /\ y(a).wire = x.wire
  BY <1>1 DEF VuState
<1> HIDE DEF y
<1>7. CASE Barred(v)
  <2>1. Release([vu EXCEPT ![v] = y("refused")]) \/ p.peer # "up"
    BY <1>1, <1>2, <1>7 DEF Pace, y, Up
  <2>2. Release([vu EXCEPT ![v] = y("none")]) \/ p.peer = "up"
    BY <1>1, <1>2, <1>7 DEF Pace, y, Up
  <2>3. CASE p.peer = "up"
    <3>1. y("refused").ask \in {"none", "refused"} /\ y("refused").wire \in {vu[v].wire, "idle"}
      BY <1>6
    <3> QED
      BY <1>2, <1>3, <1>4, <2>1, <2>3, <3>1, ReleaseSteps
  <2>4. CASE p.peer # "up"
    <3>1. y("none").ask \in {"none", "refused"} /\ y("none").wire \in {vu[v].wire, "idle"}
      BY <1>6
    <3> QED
      BY <1>2, <1>3, <1>5, <2>2, <2>4, <3>1, ReleaseSteps
  <2> QED
    BY <2>3, <2>4
<1>8. CASE ~Barred(v)
  <2>1. vu' = [vu EXCEPT ![v] = y("entered")] /\ gate' = gate /\ ~run.stopped
    BY <1>1, <1>8 DEF Pace, Admitted, Barred, y
  <2>2. vu' \in [Vu -> VuState] /\ \A u \in Vu : vu'[u] = IF u = v THEN y("entered") ELSE vu[u]
    BY <1>1, <1>4, <2>1
  <2>3. Hold' = Hold
    BY <1>2, <1>6, <2>2 DEF Hold
  <2>4. Potential \cup {v} \subseteq Hold
    <3>1. ASSUME NEW u \in Potential
          PROVE  u \in Hold
      <4>1. u \in Vu /\ (vu[u].wire = "sending" \/ vu[u].ask \in {"entered", "leased"})
        BY DEF Potential
      <4>2. Wired(vu[u], worker[Home(u)], run)
        BY <4>1, VuFacts DEF VuSound
      <4> QED
        BY <2>1, <4>1, <4>2 DEF Wired, Hold
    <3> QED
      BY <1>3, <3>1
  <2>5. Potential' \subseteq Hold
    BY <1>6, <2>2, <2>4 DEF Potential
  <2>6. Cardinality(Potential') <= MaxConcurrency
    <3>1. IsFiniteSet(Hold) /\ Cardinality(Hold) \in Nat /\ Cardinality(Hold) <= MaxConcurrency
      BY <2>1, CountsAreFinite DEF StressInv, GateSound
    <3>2. Cardinality(Potential') <= Cardinality(Hold) /\ Cardinality(Potential') \in Nat
      BY <2>5, <3>1, FS_Subset, FS_CardinalityType
    <3> QED
      BY <3>1, <3>2, StressAssumption
  <2>7. \A u \in Vu : vu'[u].ask = "waiting" <=> vu[u].ask = "waiting"
    BY <1>2, <1>6, <2>2
  <2>8. GateSound'
    BY <1>2, <2>1, <2>3, <2>6, <2>7 DEF StressInv, GateSound
  <2>9. vu'[v] = y("entered") /\ \A u \in Vu \ {v} : Moved(vu[u], vu'[u])
    BY <2>2 DEF Moved
  <2>10. VuSound(vu'[v], worker[Home(v)], run, v)
    BY <1>4, <2>9
  <2>11. gate' \in [held : 0..Vus, line : Seq(Vu)] /\ IsInjective(gate'.line)
    BY <1>1, <2>1
  <2> HIDE DEF x, p
  <2> QED
    BY <1>2, <2>2, <2>8, <2>9, <2>10, <2>11, PermitSteps
<1> QED
  BY <1>7, <1>8

\* A lease is given only to a worker that is trusted.
LEMMA GrantKeeps ==
  ASSUME StressInv, NEW v \in Vu, Grant(v)
  PROVE  StressInv'
<1> DEFINE x == vu[v]
           p == worker[Home(v)]
           y(a) == [x EXCEPT !.ask = a]
<1>1. /\ p \in WorkerState /\ x \in VuState /\ VuSound(x, p, run, v) /\ run \in RunState
      /\ vu \in [Vu -> VuState] /\ gate \in [held : 0..Vus, line : Seq(Vu)] /\ IsInjective(gate.line)
  BY VuFacts DEF StressInv, StressTypeOK
<1>2. x.ask = "entered" /\ run' = run /\ worker' = worker
  BY DEF Grant
<1>3. v \in Hold
  BY <1>2 DEF Hold
<1>4. p.peer = "up" => VuSound(y("leased"), p, run, v) /\ y("leased") \in VuState
  BY <1>1, <1>2, AskChanges
<1>5. p.peer # "up" => VuSound(y("none"), p, run, v) /\ y("none") \in VuState
  BY <1>1, <1>2 DEF VuState, VuSound, Called, Housed, Wired
<1>6. \A a \in {"none", "leased"} : y(a).ask = a /\ y(a).wire = x.wire
  BY <1>1 DEF VuState
<1> HIDE DEF y
<1>7. CASE p.peer # "up"
  <2>1. Release([vu EXCEPT ![v] = y("none")])
    BY <1>1, <1>2, <1>7 DEF Grant, y, Up
  <2>2. y("none").ask \in {"none", "refused"} /\ y("none").wire \in {vu[v].wire, "idle"}
    BY <1>6
  <2> QED
    BY <1>2, <1>3, <1>5, <1>7, <2>1, <2>2, ReleaseSteps
<1>8. CASE p.peer = "up"
  <2>1. vu' = [vu EXCEPT ![v] = y("leased")] /\ gate' = gate
    BY <1>1, <1>8 DEF Grant, Up, y
  <2>2. vu' \in [Vu -> VuState] /\ \A u \in Vu : vu'[u] = IF u = v THEN y("leased") ELSE vu[u]
    BY <1>1, <1>4, <1>8, <2>1
  <2>3. Potential' \subseteq Potential
    BY <1>2, <1>6, <2>2 DEF Potential
  <2>4. \A u \in Vu : /\ vu'[u].ask = "waiting" <=> vu[u].ask = "waiting"
                      /\ vu'[u].ask \in Holding <=> vu[u].ask \in Holding
    BY <1>2, <1>6, <2>2 DEF Holding
  <2>5. GateSound'
    BY <1>2, <2>1, <2>3, <2>4, GateKept
  <2>6. vu'[v] = y("leased") /\ \A u \in Vu \ {v} : Moved(vu[u], vu'[u])
    BY <2>2 DEF Moved
  <2>7. VuSound(vu'[v], worker[Home(v)], run, v)
    BY <1>4, <1>8, <2>6
  <2>8. gate' \in [held : 0..Vus, line : Seq(Vu)] /\ IsInjective(gate'.line)
    BY <1>1, <2>1
  <2> HIDE DEF x, p
  <2> QED
    BY <1>2, <2>2, <2>5, <2>6, <2>7, <2>8, PermitSteps
<1> QED
  BY <1>7, <1>8

\* The request is over when its lease is released.
LEMMA GiveBackKeeps ==
  ASSUME StressInv, NEW v \in Vu, GiveBack(v)
  PROVE  StressInv'
<1> DEFINE x == vu[v]
           p == worker[Home(v)]
           y == [x EXCEPT !.wire = "idle", !.ask = "none"]
<1>1. /\ p \in WorkerState /\ x \in VuState /\ VuSound(x, p, run, v) /\ vu \in [Vu -> VuState]
  BY VuFacts
<1>2. /\ x.ask = "leased" /\ run' = run /\ worker' = worker /\ p.peer = "up" /\ p.alive
      /\ v \in Hold
  BY DEF GiveBack, Serving, Up, Hold
<1>3. y \in VuState /\ y.ask = "none" /\ y.wire = "idle" /\ y.act = x.act /\ y.call = x.call
  BY <1>1 DEF VuState
<1>4. Release([vu EXCEPT ![v] = y])
  BY <1>1 DEF GiveBack
<1> HIDE DEF y
<1>5. VuSound(y, p, run, v)
  BY <1>1, <1>2, <1>3 DEF VuSound, Called, Housed, Wired
<1> QED
  BY <1>2, <1>3, <1>4, <1>5, ReleaseSteps

\* A request is sent with a lease, and noted as pending in the same step.
LEMMA AnsweredKeeps ==
  ASSUME StressInv, NEW v \in Vu, Answered(v)
  PROVE  StressInv'
<1> DEFINE x == vu[v]
           p == worker[Home(v)]
           y1 == [x EXCEPT !.wire = "idle", !.ask = "none"]
           y2 == [x EXCEPT !.wire = "releasing"]
           y3 == [x EXCEPT !.wire = "sending"]
           q == [p EXCEPT !.sent = @ + 1, !.pending = @ + 1]
<1>1. /\ p \in WorkerState /\ x \in VuState /\ VuSound(x, p, run, v) /\ WorkerSound(p, run)
      /\ Home(v) \in Worker /\ vu \in [Vu -> VuState] /\ worker \in [Worker -> WorkerState]
  BY VuFacts
<1>2. x.wire = "asking" /\ p.peer = "up" /\ p.alive /\ run' = run /\ gate' = gate
  BY DEF Answered, Serving, Up
<1>3. run.stage # "over" /\ x.act = "working" /\ p.step \notin Counted
  BY <1>1, <1>2 DEF WorkerSound, VuSound, Wired, Housed, Quiet
<1>4. worker = [worker EXCEPT ![Home(v)] = p] /\ SameWorker(p, p)
  BY <1>1 DEF SameWorker
<1>5. CASE x.ask = "refused" /\ vu' = [vu EXCEPT ![v] = y1] /\ worker' = worker
  <2>1. y1 \in VuState /\ y1.ask = "none" /\ y1.wire = "idle" /\ y1.act = x.act /\ y1.call = x.call
    BY <1>1 DEF VuState
  <2> HIDE DEF y1
  <2>2. VuSound(y1, p, run, v)
    BY <1>1, <1>2, <2>1 DEF VuSound, Called, Housed, Wired
  <2> QED
    BY <1>1, <1>2, <1>3, <1>4, <1>5, <2>1, <2>2, OneVuSteps DEF Holding
<1>6. CASE x.ask = "leased" /\ vu' = [vu EXCEPT ![v] = y2] /\ worker' = worker
  <2>1. y2 \in VuState /\ y2.ask = x.ask /\ y2.wire = "releasing" /\ y2.act = x.act /\ y2.call = x.call
    BY <1>1 DEF VuState
  <2> HIDE DEF y2
  <2>2. VuSound(y2, p, run, v)
    BY <1>1, <1>2, <1>3, <1>6, <2>1 DEF VuSound, Called, Housed, Wired, Quiet
  <2> QED
    BY <1>1, <1>2, <1>3, <1>4, <1>6, <2>1, <2>2, OneVuSteps DEF Holding
<1>7. CASE /\ x.ask = "leased" /\ vu' = [vu EXCEPT ![v] = y3]
           /\ worker' = [worker EXCEPT ![Home(v)] = q]
  <2>1. y3 \in VuState /\ y3.ask = x.ask /\ y3.wire = "sending" /\ y3.act = x.act /\ y3.call = x.call
    BY <1>1 DEF VuState
  <2>2. q \in WorkerState /\ SameWorker(p, q)
    <3>1. p.sent + 1 \in Nat /\ p.pending + 1 \in Nat
      BY <1>1 DEF WorkerState
    <3>2. q \in WorkerState
      BY <1>1, <3>1 DEF WorkerState
    <3> QED
      BY <1>1, <3>2 DEF WorkerState, SameWorker
  <2>3. WorkerSound(q, run)
    BY <1>1, <1>2, <1>3 DEF WorkerSound, WorkerState, Counted, Marked
  <2> HIDE DEF y3, q
  <2>4. VuSound(y3, p, run, v)
    BY <1>1, <1>2, <1>3, <1>7, <2>1 DEF VuSound, Called, Housed, Wired, Quiet
  <2>5. VuSound(y3, q, run, v)
    BY <2>2, <2>4 DEF VuSound, Called, Housed, Wired, SameWorker
  <2> QED
    BY <1>2, <1>3, <1>7, <2>1, <2>2, <2>3, <2>5, OneVuSteps DEF Holding
<1> QED
  BY <1>1, <1>5, <1>6, <1>7 DEF Answered

\* A response ends the request, not the lease.
LEMMA RespondKeeps ==
  ASSUME StressInv, NEW v \in Vu, Respond(v)
  PROVE  StressInv'
<1> DEFINE x == vu[v]
           p == worker[Home(v)]
           y == [x EXCEPT !.wire = "releasing"]
<1>1. /\ p \in WorkerState /\ x \in VuState /\ VuSound(x, p, run, v) /\ WorkerSound(p, run)
      /\ Home(v) \in Worker /\ vu \in [Vu -> VuState] /\ worker \in [Worker -> WorkerState]
  BY VuFacts
<1>2. /\ x.wire = "sending" /\ run' = run /\ gate' = gate /\ vu' = [vu EXCEPT ![v] = y]
      /\ worker' = [worker EXCEPT ![Home(v)] = p]
  BY <1>1 DEF Respond
<1>3. y \in VuState /\ y.ask = x.ask /\ y.wire = "releasing" /\ y.act = x.act /\ y.call = x.call
  BY <1>1 DEF VuState
<1> HIDE DEF y
<1>4. VuSound(y, p, run, v)
  BY <1>1, <1>2, <1>3 DEF VuSound, Called, Housed, Wired, Quiet
<1> QED
  BY <1>1, <1>2, <1>3, <1>4, OneVuSteps DEF SameWorker

\* The call of a VU begins at its worker.
LEMMA BeginKeeps ==
  ASSUME StressInv, NEW v \in Vu, Begin(v)
  PROVE  StressInv'
<1> DEFINE x == vu[v]
           p == worker[Home(v)]
           y == [x EXCEPT !.act = "working"]
<1>1. /\ p \in WorkerState /\ x \in VuState /\ VuSound(x, p, run, v) /\ WorkerSound(p, run)
      /\ Home(v) \in Worker /\ vu \in [Vu -> VuState] /\ worker \in [Worker -> WorkerState]
  BY VuFacts
<1>2. /\ x.call # "none" /\ p.peer = "up" /\ p.alive /\ run' = run /\ gate' = gate
      /\ vu' = [vu EXCEPT ![v] = y] /\ worker' = [worker EXCEPT ![Home(v)] = p]
  BY <1>1 DEF Begin, Serving, Up
<1>3. y \in VuState /\ y.ask = x.ask /\ y.wire = x.wire /\ y.act = "working" /\ y.call = x.call
  BY <1>1 DEF VuState
<1> HIDE DEF y
<1>4. VuSound(y, p, run, v)
  <2>1. Called(y, p, run, v)
    BY <1>1, <1>3 DEF VuSound, Called
  <2>2. x.call \in {"create", "execute", "close"}
    BY <1>1, <1>2 DEF VuState
  <2>3. run.stage \in {"create", "window", "drain", "closing"} /\ (run.stage = "closing" => v = run.turn)
    BY <1>1, <2>2 DEF VuSound, Called
  <2>4. ~run.tidy /\ p.step \notin Counted
    BY <1>1, <2>3 DEF StressInv, RunSound, WorkerSound, Late
  <2>5. Housed(y, p, run, v)
    <3>1. run.turn \in Nat
      BY StressAssumption DEF StressInv, StressTypeOK, RunState
    <3> QED
      BY <1>2, <1>3, <2>3, <2>4, <3>1 DEF Housed, Late, Spawning, Vu
  <2>6. Wired(y, p, run)
    BY <1>1, <1>3 DEF VuSound, Wired, Quiet
  <2> QED
    BY <2>1, <2>5, <2>6 DEF VuSound
<1> QED
  BY <1>1, <1>2, <1>3, <1>4, OneVuSteps DEF SameWorker
-----------------------------------------------------------------------------
(***************************************************************************)
(* Steps within a stage                                                    *)
(***************************************************************************)

SameReport(p, q) ==
  /\ SameWorker(p, q)
  /\ q.tainted = p.tainted /\ q.sent = p.sent /\ q.noted = p.noted
  /\ q.pending = p.pending /\ q.merged = p.merged /\ q.known = p.known
FlagsAtMost(r, s) ==
  /\ SameStage(r, s)
  /\ r.stopped => s.stopped
  /\ r.aborted => s.aborted
  /\ r.marked => s.marked
  /\ s.private = r.private /\ s.outcome = r.outcome

\* A step of one VU, and of all who wait, that tells workers to stop at most.
LEMMA CallSteps ==
  ASSUME StressInv, NEW v \in Vu, run' \in RunState, FlagsAtMost(run, run'),
         worker' \in [Worker -> WorkerState],
         \A w \in Worker : SameReport(worker[w], worker'[w]),
         vu' \in [Vu -> VuState],
         \A u \in Vu \ {v} : Moved(vu[u], vu'[u]) /\ (vu'[u].ask = "waiting" => ~run'.stopped),
         VuSound(vu'[v], worker'[Home(v)], run', v),
         gate' \in [held : 0..Vus, line : Seq(Vu)], IsInjective(gate'.line), GateSound'
  PROVE  StressInv'
<1>1. StressTypeOK'
  BY DEF StressTypeOK
<1>2. \A w \in Worker : SameWorker(worker[w], worker'[w])
  BY DEF SameReport
<1>3. SameStage(run, run') /\ StopsAtMost(run, run')
  BY DEF FlagsAtMost, StopsAtMost
<1>4. AllVusSound'
  BY <1>2, <1>3, OthersCarried
<1>5. AllWorkersSound'
  <2>1. run'.stage = run.stage /\ (run.marked => run'.marked)
    BY DEF FlagsAtMost, SameStage
  <2>2. \A w \in Worker : /\ SameWorker(worker[w], worker'[w])
                          /\ worker'[w].tainted = worker[w].tainted
                          /\ worker'[w].sent = worker[w].sent /\ worker'[w].noted = worker[w].noted
                          /\ worker'[w].pending = worker[w].pending
                          /\ worker'[w].merged = worker[w].merged /\ worker'[w].known = worker[w].known
    BY DEF SameReport
  <2> QED
    BY <2>1, <2>2, WorkersCarried
<1>6. RunSound'
  <2>1. \A w \in Worker : /\ worker'[w].merged = worker[w].merged /\ worker'[w].sent = worker[w].sent
                          /\ worker'[w].tainted = worker[w].tainted
    BY DEF SameReport
  <2>2. /\ run.stopped => run'.stopped
        /\ run.aborted => run'.aborted
        /\ run'.private = run.private /\ run'.outcome = run.outcome
    BY DEF FlagsAtMost
  <2> QED
    BY <1>2, <1>3, <2>1, <2>2, RunCarried
<1> QED
  BY <1>1, <1>4, <1>5, <1>6 DEF StressInv

\* A step of one worker, which goes on where it is.
LEMMA WorkerSteps ==
  ASSUME StressInv, NEW w \in Worker, NEW q \in WorkerState, worker' = [worker EXCEPT ![w] = q],
         run' \in RunState, SameStage(run, run'), run'.stopped = run.stopped,
         run'.aborted = run.aborted, run'.marked = run.marked, run'.private = run.private,
         run'.outcome = run.outcome, run.stage # "over",
         vu' = vu, gate' = gate, SameWorker(worker[w], q), WorkerSound(q, run')
  PROVE  StressInv'
<1>1. /\ run \in RunState /\ worker \in [Worker -> WorkerState] /\ vu \in [Vu -> VuState]
      /\ gate \in [held : 0..Vus, line : Seq(Vu)] /\ IsInjective(gate.line)
  BY DEF StressInv, StressTypeOK
<1>2. /\ worker' \in [Worker -> WorkerState]
      /\ \A x \in Worker : worker'[x] = IF x = w THEN q ELSE worker[x]
  BY <1>1
<1>3. StressTypeOK'
  BY <1>1, <1>2 DEF StressTypeOK
<1>4. \A x \in Worker : SameWorker(worker[x], worker'[x])
  BY <1>2 DEF SameWorker
<1>5. AllVusSound'
  <2>1. ASSUME NEW u \in Vu
        PROVE  Moved(vu[u], vu'[u]) /\ (vu'[u].ask = "waiting" => ~run'.stopped)
    BY VuFacts DEF VuSound, Wired, Moved
  <2>2. StopsAtMost(run, run')
    BY DEF StopsAtMost
  <2> QED
    BY <1>2, <1>4, <2>1, <2>2, AllCarried
<1>6. AllWorkersSound'
  <2>1. ASSUME NEW x \in Worker
        PROVE  WorkerSound(worker'[x], run')
    <3>1. CASE x = w
      BY <1>2, <3>1
    <3>2. CASE x # w
      <4>1. worker'[x] = worker[x] /\ WorkerSound(worker[x], run)
        BY <1>2, <3>2 DEF StressInv, AllWorkersSound
      <4> QED
        BY <4>1 DEF WorkerSound, SameStage
    <3> QED
      BY <3>1, <3>2
  <2> QED
    BY <2>1 DEF AllWorkersSound
<1>7. RunSound'
  <2>1. run.outcome # "complete"
    BY DEF StressInv, RunSound, At
  <2> QED
    BY <1>4, <2>1, RunCarried
<1>8. GateSound'
  <2>1. Potential' = Potential
    BY DEF Potential
  <2> QED
    BY <2>1, GateKept
<1> QED
  BY <1>3, <1>5, <1>6, <1>7, <1>8 DEF StressInv

\* What a state that keeps the invariant says of a worker.
LEMMA WorkerFacts ==
  ASSUME StressInv, NEW w \in Worker
  PROVE  /\ worker[w] \in WorkerState /\ WorkerSound(worker[w], run) /\ run \in RunState
         /\ worker \in [Worker -> WorkerState]
BY DEF StressInv, StressTypeOK, AllWorkersSound

\* A stop changes nothing but the signals of the worker.
LEMMA DeliverStopKeeps ==
  ASSUME StressInv, NEW w \in Worker, DeliverStop(w)
  PROVE  StressInv'
<1> DEFINE p == worker[w]
           q == [p EXCEPT !.stopping = FALSE, !.quit = TRUE]
<1>1. p \in WorkerState /\ WorkerSound(p, run) /\ run \in RunState
  BY WorkerFacts
<1>2. p.alive /\ run' = run /\ vu' = vu /\ gate' = gate /\ worker' = [worker EXCEPT ![w] = q]
  BY DEF DeliverStop
<1>3. q \in WorkerState /\ SameWorker(p, q) /\ WorkerSound(q, run')
  BY <1>1, <1>2 DEF WorkerState, SameWorker, WorkerSound
<1>4. run.stage # "over"
  BY <1>1, <1>2 DEF WorkerSound
<1> HIDE DEF q
<1> QED
  BY <1>1, <1>2, <1>3, <1>4, WorkerSteps DEF SameStage

\* An observation moves from what is pending to what is noted.
LEMMA NoteKeeps ==
  ASSUME StressInv, NEW w \in Worker, Note(w)
  PROVE  StressInv'
<1> DEFINE p == worker[w]
           q == [p EXCEPT !.noted = @ + 1, !.pending = @ - 1]
<1>1. p \in WorkerState /\ WorkerSound(p, run) /\ run \in RunState
  BY WorkerFacts
<1>2. /\ p.pending > 0 /\ p.alive /\ run' = run /\ vu' = vu /\ gate' = gate
      /\ worker' = [worker EXCEPT ![w] = q]
  BY DEF Note, Serving
<1>3. p.noted \in Nat /\ p.pending \in Nat /\ p.sent \in Nat
  BY <1>1 DEF WorkerState
<1>4. p.noted + 1 \in Nat /\ p.pending - 1 \in Nat
  BY <1>2, <1>3
<1>5. q \in WorkerState /\ SameWorker(p, q) /\ q.noted = p.noted + 1 /\ q.pending = p.pending - 1
  BY <1>1, <1>4 DEF WorkerState, SameWorker
<1>6. WorkerSound(q, run')
  BY <1>1, <1>2, <1>3, <1>5 DEF WorkerState, WorkerSound
<1>7. run.stage # "over"
  BY <1>1, <1>2 DEF WorkerSound
<1> HIDE DEF q
<1> QED
  BY <1>1, <1>2, <1>5, <1>6, <1>7, WorkerSteps DEF SameStage

\* An observation that is lost taints the worker.
LEMMA LoseNoteKeeps ==
  ASSUME StressInv, NEW w \in Worker, LoseNote(w)
  PROVE  StressInv'
<1> DEFINE p == worker[w]
           q == [p EXCEPT !.tainted = TRUE, !.quit = TRUE, !.pending = @ - 1]
<1>1. p \in WorkerState /\ WorkerSound(p, run) /\ run \in RunState
  BY WorkerFacts
<1>2. /\ p.pending > 0 /\ p.alive /\ run' = [run EXCEPT !.faults = @ + 1] /\ vu' = vu
      /\ gate' = gate /\ worker' = [worker EXCEPT ![w] = q] /\ run.faults < MaxFaults
  BY DEF LoseNote, Serving
<1>3. p.pending \in Nat /\ p.pending - 1 \in Nat /\ p.step \notin Counted
  BY <1>1, <1>2 DEF WorkerState, WorkerSound
<1>4. q \in WorkerState /\ SameWorker(p, q) /\ q.tainted
  BY <1>1, <1>3 DEF WorkerState, SameWorker
<1>5. run' \in RunState
  <2>1. run.faults + 1 \in 0..MaxFaults
    BY <1>1, <1>2, StressAssumption DEF RunState
  <2> QED
    BY <1>1, <1>2, <2>1 DEF RunState
<1>6. /\ SameStage(run, run') /\ run'.stopped = run.stopped
      /\ run'.aborted = run.aborted /\ run'.marked = run.marked /\ run'.private = run.private
      /\ run'.outcome = run.outcome
  BY <1>1, <1>2 DEF RunState, SameStage
<1>7. WorkerSound(q, run')
  BY <1>1, <1>3, <1>4, <1>6 DEF WorkerState, WorkerSound, SameStage, Counted, Marked
<1>8. run.stage # "over"
  BY <1>1, <1>2 DEF WorkerSound
<1> HIDE DEF q
<1> QED
  BY <1>2, <1>4, <1>5, <1>6, <1>7, <1>8, WorkerSteps
-----------------------------------------------------------------------------
(***************************************************************************)
(* The calls of the scheduler                                              *)
(***************************************************************************)

\* The parts of a state that keeps the invariant.
LEMMA StateFacts ==
  ASSUME StressInv
  PROVE  /\ run \in RunState /\ worker \in [Worker -> WorkerState] /\ vu \in [Vu -> VuState]
         /\ gate \in [held : 0..Vus, line : Seq(Vu)] /\ IsInjective(gate.line)
         /\ \A u \in Vu : vu[u].ask = "waiting" <=> u \in ToSet(gate.line)
         /\ \A u \in Vu : vu[u].ask = "waiting" => ~run.stopped
BY VuFacts DEF StressInv, StressTypeOK, GateSound, VuSound, Wired

\* Doing nothing is allowed to everyone.
LEMMA NobodyMoves == \A x : Moved(x, x) /\ SameWorker(x, x) /\ SameReport(x, x)
BY DEF Moved, SameWorker, SameReport

\* A worker that is told to stop changes nothing else.
LEMMA ToldState ==
  ASSUME StressInv, NEW S
  PROVE  /\ Told(worker, S) \in [Worker -> WorkerState]
         /\ \A w \in Worker : SameReport(worker[w], Told(worker, S)[w])
<1>1. worker \in [Worker -> WorkerState]
  BY StateFacts
<1>2. ASSUME NEW w \in Worker
      PROVE  LET q == IF w \in S /\ worker[w].peer = "up"
                      THEN [worker[w] EXCEPT !.stopping = TRUE] ELSE worker[w]
             IN  q \in WorkerState /\ SameReport(worker[w], q)
  BY <1>1 DEF WorkerState, SameReport, SameWorker
<1> QED
  BY <1>2 DEF Told

\* Whoever waits is refused.
LEMMA RejectedMoves ==
  ASSUME StressInv
  PROVE  LET vs == Rejected(vu, ToSet(gate.line)) IN
         /\ vs \in [Vu -> VuState]
         /\ \A u \in Vu : /\ Moved(vu[u], vs[u]) /\ vs[u].ask # "waiting"
                          /\ vs[u].ask \in Holding <=> vu[u].ask \in Holding
                          /\ vs[u].call = vu[u].call /\ vs[u].act = vu[u].act /\ vs[u].wire = vu[u].wire
                          /\ vs[u].ask \in {"entered", "leased"} => vu[u].ask \in {"entered", "leased"}
                          /\ vu[u].ask # "waiting" => vs[u] = vu[u]
<1> DEFINE vs == Rejected(vu, ToSet(gate.line))
<1>1. ASSUME NEW u \in Vu
      PROVE  /\ vs[u] \in VuState /\ Moved(vu[u], vs[u]) /\ vs[u].ask # "waiting"
             /\ vs[u].ask \in Holding <=> vu[u].ask \in Holding
             /\ vs[u].call = vu[u].call /\ vs[u].act = vu[u].act /\ vs[u].wire = vu[u].wire
             /\ vs[u].ask \in {"entered", "leased"} => vu[u].ask \in {"entered", "leased"}
             /\ vu[u].ask # "waiting" => vs[u] = vu[u]
  <2>1. vu[u] \in VuState /\ (vu[u].ask = "waiting" <=> u \in ToSet(gate.line))
    BY StateFacts
  <2>2. vs[u] = IF vu[u].ask = "waiting" THEN [vu[u] EXCEPT !.ask = "refused"] ELSE vu[u]
    BY <2>1 DEF Rejected
  <2> HIDE DEF vs
  <2> QED
    BY <2>1, <2>2 DEF VuState, Moved, Holding
<1>2. vs \in [Vu -> VuState]
  BY <1>1 DEF Rejected
<1> QED
  BY <1>1, <1>2

\* Refusing all who wait takes no permit from anyone.
LEMMA EmptyLineSteps ==
  ASSUME StressInv, EmptyLine, run.stopped => run'.stopped
  PROVE  /\ vu' \in [Vu -> VuState] /\ GateSound'
         /\ gate' \in [held : 0..Vus, line : Seq(Vu)] /\ IsInjective(gate'.line)
         /\ \A u \in Vu : Moved(vu[u], vu'[u]) /\ vu'[u].ask # "waiting"
<1> DEFINE vs == Rejected(vu, ToSet(gate.line))
<1>1. vu' = vs /\ gate' = [gate EXCEPT !.line = <<>>]
  BY DEF EmptyLine
<1>2. /\ vs \in [Vu -> VuState]
      /\ \A u \in Vu : /\ Moved(vu[u], vs[u]) /\ vs[u].ask # "waiting"
                       /\ vs[u].ask \in Holding <=> vu[u].ask \in Holding
                       /\ vs[u].wire = vu[u].wire
                       /\ vs[u].ask \in {"entered", "leased"} => vu[u].ask \in {"entered", "leased"}
  BY RejectedMoves
<1> HIDE DEF vs
<1>3. Potential' \subseteq Potential
  BY <1>1, <1>2 DEF Potential
<1> QED
  BY <1>1, <1>2, <1>3, LineEmptied

\* An abort sets flags of the run, and nothing else.
LEMMA AbortedRunState ==
  ASSUME StressInv
  PROVE  LET r == AbortedRun(run) IN
         /\ r \in RunState /\ FlagsAtMost(run, r) /\ r.aborted
         /\ run.stage \notin Spawning \cup {"finish", "over"} => r.stopped
         /\ run.stage \in Spawning \cup {"finish", "over"} => r.stopped = run.stopped
         /\ r.failures = run.failures /\ r.faults = run.faults /\ r.budget = run.budget
BY StateFacts DEF AbortedRun, RunState, FlagsAtMost, SameStage

\* So does the scheduler when it gives up.
LEMMA AbandonedState ==
  ASSUME NEW r \in RunState
  PROVE  Abandoned(r) \in RunState /\ FlagsAtMost(r, Abandoned(r)) /\ Abandoned(r).stopped
BY DEF Abandoned, RunState, FlagsAtMost, SameStage

\* There is a first virtual user.
LEMMA SomeVu == 1 \in Vu
BY StressAssumption DEF Vu

\* A step that moves nobody but who waits.
LEMMA MovedSteps ==
  ASSUME StressInv, run' \in RunState, FlagsAtMost(run, run'),
         worker' \in [Worker -> WorkerState],
         \A w \in Worker : SameReport(worker[w], worker'[w]),
         vu' \in [Vu -> VuState],
         \A u \in Vu : Moved(vu[u], vu'[u]) /\ (vu'[u].ask = "waiting" => ~run'.stopped),
         gate' \in [held : 0..Vus, line : Seq(Vu)], IsInjective(gate'.line), GateSound'
  PROVE  StressInv'
<1>1. VuSound(vu'[1], worker'[Home(1)], run', 1)
  <2>1. /\ Home(1) \in Worker /\ worker[Home(1)] \in WorkerState /\ vu[1] \in VuState
        /\ run \in RunState /\ VuSound(vu[1], worker[Home(1)], run, 1)
    BY SomeVu, VuFacts
  <2>2. worker'[Home(1)] \in WorkerState /\ SameWorker(worker[Home(1)], worker'[Home(1)])
    BY <2>1 DEF SameReport
  <2>3. StopsAtMost(run, run')
    BY DEF FlagsAtMost, StopsAtMost
  <2> QED
    BY <2>1, <2>2, <2>3, SomeVu, VuCarried
<1> QED
  BY <1>1, SomeVu, CallSteps

\* An abort stops the scheduler, if it runs already, and empties the line.
LEMMA AbortKeeps ==
  ASSUME StressInv, Abort
  PROVE  StressInv'
<1> DEFINE r == AbortedRun(run)
<1>1. run' = r /\ worker' = Told(worker, Worker)
  BY DEF Abort
<1>2. /\ r \in RunState /\ FlagsAtMost(run, r)
      /\ run.stage \in Spawning \cup {"finish", "over"} => r.stopped = run.stopped
  BY AbortedRunState
<1> HIDE DEF r
<1>3. worker' \in [Worker -> WorkerState] /\ \A w \in Worker : SameReport(worker[w], worker'[w])
  BY <1>1, ToldState
<1>4. run.stopped => run'.stopped
  BY <1>1, <1>2 DEF FlagsAtMost
<1>5. /\ vu' \in [Vu -> VuState] /\ GateSound'
      /\ gate' \in [held : 0..Vus, line : Seq(Vu)] /\ IsInjective(gate'.line)
      /\ \A u \in Vu : Moved(vu[u], vu'[u]) /\ (vu'[u].ask = "waiting" => ~run'.stopped)
  <2>1. CASE run.stage \in Spawning
    <3>1. vu' = vu /\ gate' = gate /\ run'.stopped = run.stopped
      BY <1>1, <1>2, <2>1 DEF Abort
    <3>2. Potential' = Potential
      BY <3>1 DEF Potential
    <3> QED
      BY <1>4, <3>1, <3>2, GateKept, StateFacts, NobodyMoves
  <2>2. CASE run.stage \notin Spawning
    <3>1. EmptyLine
      BY <2>2 DEF Abort
    <3> QED
      BY <1>4, <3>1, EmptyLineSteps
  <2> QED
    BY <2>1, <2>2
<1> QED
  BY <1>1, <1>2, <1>3, <1>5, MovedSteps

\* So does a graceful stop that takes too long.
LEMMA DrainTimeoutKeeps ==
  ASSUME StressInv, DrainTimeout
  PROVE  StressInv'
<1> DEFINE r == Abandoned(run)
<1>1. run' = r /\ EmptyLine
  BY DEF DrainTimeout
<1>2. r \in RunState /\ FlagsAtMost(run, r)
  BY StateFacts, AbandonedState
<1> HIDE DEF r
<1>3. run.stopped => run'.stopped
  BY <1>1, <1>2 DEF FlagsAtMost
<1>4. worker' \in [Worker -> WorkerState] /\ \A w \in Worker : SameReport(worker[w], worker'[w])
  <2> DEFINE S == {Home(b) : b \in Busy}
  <2>1. worker' = Told(worker, S)
    BY DEF DrainTimeout
  <2> HIDE DEF S
  <2> QED
    BY <2>1, ToldState
<1>5. /\ vu' \in [Vu -> VuState] /\ GateSound'
      /\ gate' \in [held : 0..Vus, line : Seq(Vu)] /\ IsInjective(gate'.line)
      /\ \A u \in Vu : Moved(vu[u], vu'[u]) /\ vu'[u].ask # "waiting"
  BY <1>1, <1>3, EmptyLineSteps
<1> QED
  BY <1>1, <1>2, <1>4, <1>5, MovedSteps

\* A call to one VU, with its permits as they are.
LEMMA OneCallSteps ==
  ASSUME StressInv, NEW v \in Vu, NEW y \in VuState, vu' = [vu EXCEPT ![v] = y], gate' = gate,
         run' \in RunState, FlagsAtMost(run, run'), run'.stopped = run.stopped,
         worker' \in [Worker -> WorkerState],
         \A w \in Worker : SameReport(worker[w], worker'[w]),
         VuSound(y, worker'[Home(v)], run', v), y.ask = vu[v].ask, y.wire = vu[v].wire
  PROVE  StressInv'
<1>1. vu' \in [Vu -> VuState] /\ \A u \in Vu : vu'[u] = IF u = v THEN y ELSE vu[u]
  BY StateFacts
<1>2. GateSound'
  <2>1. Potential' = Potential
    BY <1>1 DEF Potential
  <2>2. \A u \in Vu : vu'[u].ask = vu[u].ask
    BY <1>1
  <2> QED
    BY <2>1, <2>2, GateKept
<1>3. gate' \in [held : 0..Vus, line : Seq(Vu)] /\ IsInjective(gate'.line)
  BY StateFacts
<1>4. ASSUME NEW u \in Vu \ {v}
      PROVE  Moved(vu[u], vu'[u]) /\ (vu'[u].ask = "waiting" => ~run'.stopped)
  BY <1>1, StateFacts, NobodyMoves
<1>5. VuSound(vu'[v], worker'[Home(v)], run', v)
  BY <1>1
<1> QED
  BY <1>1, <1>2, <1>3, <1>4, <1>5, CallSteps

\* The next virtual user is created after all before it.
LEMMA CreateVuKeeps ==
  ASSUME StressInv, CreateVu
  PROVE  StressInv'
<1> DEFINE v == run.made + 1
           y == [vu[v] EXCEPT !.call = "create"]
<1>1. /\ At("create") /\ run.made < Vus /\ ~run.stopped /\ vu' = [vu EXCEPT ![v] = y]
      /\ run' = run /\ worker' = worker /\ gate' = gate /\ run \in RunState
      /\ vu[v].call = "none"
  BY StateFacts DEF CreateVu, Creating, Call
<1>2. v \in Vu
  BY <1>1, StressAssumption DEF RunState, Vu
<1>3. /\ Home(v) \in Worker /\ worker[Home(v)] \in WorkerState /\ vu[v] \in VuState
      /\ VuSound(vu[v], worker[Home(v)], run, v)
  BY <1>2, VuFacts
<1>4. worker[Home(v)].peer = "up"
  BY <1>1, <1>3 DEF StressInv, RunSound, Manned, At, Spawning, Up
<1>5. /\ y \in VuState /\ y.call = "create" /\ y.act = vu[v].act
      /\ y.wire = vu[v].wire /\ y.ask = vu[v].ask
  BY <1>3 DEF VuState
<1>6. FlagsAtMost(run, run') /\ run'.stopped = run.stopped /\ v = run.made + 1
  BY <1>1 DEF FlagsAtMost, SameStage
<1> HIDE DEF y, v
<1>7. VuSound(y, worker[Home(v)], run, v)
  BY <1>1, <1>3, <1>4, <1>5, <1>6 DEF VuSound, Called, Housed, Wired, At, Spawning, Late
<1>8. \A w \in Worker : SameReport(worker[w], worker'[w])
  BY <1>1, NobodyMoves
<1> QED
  BY <1>1, <1>2, <1>5, <1>6, <1>7, <1>8, OneCallSteps, StateFacts

\* An iteration is launched in the window only, on a virtual user without a call.
LEMMA LaunchKeeps ==
  ASSUME StressInv, NEW v \in Vu, Launch(v)
  PROVE  StressInv'
<1> DEFINE y == [vu[v] EXCEPT !.call = "execute"]
<1>1. /\ At("window") /\ run.budget > 0 /\ ~run.stopped /\ vu' = [vu EXCEPT ![v] = y]
      /\ run' = [run EXCEPT !.budget = @ - 1] /\ worker' = worker /\ gate' = gate /\ run \in RunState
      /\ vu[v].call = "none"
  BY StateFacts DEF Launch, Call
<1>2. /\ Home(v) \in Worker /\ worker[Home(v)] \in WorkerState /\ vu[v] \in VuState
      /\ VuSound(vu[v], worker[Home(v)], run, v)
  BY VuFacts
<1>3. worker[Home(v)].peer = "up" /\ run.made = Vus /\ v <= run.made
  BY <1>1, <1>2, StressAssumption DEF StressInv, RunSound, Manned, Turned, At, Spawning, Up, Vu
<1>4. /\ y \in VuState /\ y.call = "execute" /\ y.act = vu[v].act
      /\ y.wire = vu[v].wire /\ y.ask = vu[v].ask
  BY <1>2 DEF VuState
<1>5. run' \in RunState /\ FlagsAtMost(run, run') /\ run'.stopped = run.stopped
  <2>1. run.budget - 1 \in 0..MaxIterations
    BY <1>1, StressAssumption DEF RunState
  <2> QED
    BY <1>1, <2>1 DEF RunState, FlagsAtMost, SameStage
<1> HIDE DEF y
<1>6. VuSound(y, worker[Home(v)], run', v)
  <2>1. SameStage(run, run')
    BY <1>5 DEF FlagsAtMost
  <2>2. Called(y, worker[Home(v)], run', v)
    BY <1>1, <1>3, <1>4, <2>1 DEF Called, At, SameStage
  <2>3. Housed(y, worker[Home(v)], run', v)
    BY <1>1, <1>2, <1>3, <1>4, <2>1 DEF VuSound, Housed, At, SameStage
  <2>4. Wired(y, worker[Home(v)], run')
    BY <1>1, <1>2, <1>4, <1>5 DEF VuSound, Wired
  <2> QED
    BY <2>2, <2>3, <2>4 DEF VuSound
<1>7. \A w \in Worker : SameReport(worker[w], worker'[w])
  BY <1>1, NobodyMoves
<1> QED
  BY <1>1, <1>4, <1>5, <1>6, <1>7, OneCallSteps, StateFacts
-----------------------------------------------------------------------------
(***************************************************************************)
(* From the set-up to the last VU that is closed                           *)
(***************************************************************************)

\* A step that may go on to another stage, while nothing is collected yet.
LEMMA EarlySteps ==
  ASSUME StressInv, run.stage \in Early, run' \in RunState, run'.stage \in Early,
         run.stopped => run'.stopped, run.marked => run'.marked,
         run'.private = run.private, run'.outcome = run.outcome, run'.tidy = run.tidy,
         Turned',
         worker' \in [Worker -> WorkerState],
         \A w \in Worker : SameReport(worker[w], worker'[w]),
         vu' \in [Vu -> VuState],
         \A u \in Vu : VuSound(vu'[u], worker[Home(u)], run', u),
         gate' \in [held : 0..Vus, line : Seq(Vu)], IsInjective(gate'.line), GateSound'
  PROVE  StressInv'
<1>1. StressTypeOK'
  BY DEF StressTypeOK
<1>2. AllVusSound'
  <2>1. ASSUME NEW u \in Vu
        PROVE  VuSound(vu'[u], worker'[Home(u)], run', u)
    <3>1. Home(u) \in Worker /\ worker[Home(u)] \in WorkerState /\ worker'[Home(u)] \in WorkerState
      BY VuFacts
    <3>2. SameWorker(worker[Home(u)], worker'[Home(u)]) /\ Moved(vu'[u], vu'[u])
      BY <3>1, NobodyMoves DEF SameReport
    <3>3. StopsAtMost(run', run') /\ (vu'[u].ask = "waiting" => ~run'.stopped)
      BY DEF StopsAtMost, SameStage, VuSound, Wired
    <3> QED
      BY <3>1, <3>2, <3>3, VuCarried
  <2> QED
    BY <2>1 DEF AllVusSound, Home
<1>3. \A w \in Worker : /\ worker[w].step \notin Counted /\ worker[w].step \notin Marked
                        /\ worker[w].step # "projected" /\ worker[w].peer # "gone"
  BY WorkerFacts DEF WorkerSound, Early, Late, Counted, Marked
<1>4. AllWorkersSound'
  <2>1. ASSUME NEW w \in Worker
        PROVE  WorkerSound(worker'[w], run')
    <3>1. WorkerSound(worker[w], run) /\ SameReport(worker[w], worker'[w])
      BY WorkerFacts
    <3> QED
      BY <1>3, <3>1 DEF WorkerSound, SameReport, SameWorker, Early
  <2> QED
    BY <2>1 DEF AllWorkersSound
<1>5. RunSound'
  <2>1. Manned'
    BY DEF StressInv, RunSound, Manned, Early, Spawning, SameReport, SameWorker, Up, At
  <2>2. Stepped'
    BY <1>3 DEF StressInv, RunSound, Stepped, Early, SameReport, SameWorker, At
  <2>3. ~run'.tidy /\ run'.outcome # "complete" /\ run'.stage # "teardown"
    BY DEF StressInv, RunSound, Early, Late, At
  <2> QED
    BY <2>1, <2>2, <2>3 DEF RunSound, At
<1> QED
  BY <1>1, <1>2, <1>4, <1>5 DEF StressInv

\* A step of the scheduler alone.
LEMMA StageSteps ==
  ASSUME StressInv, run.stage \in Early, run' \in RunState, run'.stage \in Early,
         run.stopped => run'.stopped, run.marked => run'.marked,
         run'.private = run.private, run'.outcome = run.outcome, run'.tidy = run.tidy,
         Turned', worker' = worker, vu' = vu, gate' = gate,
         \A u \in Vu : VuSound(vu[u], worker[Home(u)], run', u)
  PROVE  StressInv'
<1>1. Potential' = Potential
  BY DEF Potential
<1>2. GateSound'
  BY <1>1, GateKept
<1> QED
  BY <1>2, StateFacts, NobodyMoves, EarlySteps

\* The scheduler's next stage.
LEMMA StepState ==
  ASSUME StressInv, NEW stage \in Stages, NEW turn \in 1..Vus + 1
  PROVE  /\ Step(stage, turn) \in RunState
         /\ LET r == Step(stage, turn) IN
            /\ r.stage = stage /\ r.turn = turn /\ r.stopped = run.stopped /\ r.marked = run.marked
            /\ r.private = run.private /\ r.outcome = run.outcome /\ r.tidy = run.tidy
            /\ r.made = run.made /\ r.aborted = run.aborted /\ r.fatal = run.fatal
BY StateFacts DEF Step, RunState

\* The set-up leads to the first virtual user, or to the drain.
LEMMA SetUpKeeps ==
  ASSUME StressInv, SetUp
  PROVE  StressInv'
<1>1. run.stage = "setup" /\ vu' = vu /\ worker' = worker /\ gate' = gate /\ run.made = 0
  BY DEF SetUp, At, StressInv, RunSound, Turned, Spawning
<1>2. /\ run' \in RunState /\ run'.stage \in {"create", "drain"} /\ run'.turn = 1
      /\ run.stopped => run'.stopped
      /\ run.marked => run'.marked
      /\ run'.private = run.private /\ run'.outcome = run.outcome /\ run'.tidy = run.tidy
      /\ run'.made = run.made
  <2>1. "create" \in Stages /\ "drain" \in Stages /\ 1 \in 1..Vus + 1
    BY StressAssumption DEF Stages
  <2>2. CASE run' = Step("create", 1)
    BY <2>1, <2>2, StepState
  <2>3. CASE run' = [Step("create", 1) EXCEPT !.fatal = TRUE, !.marked = TRUE]
    <3> DEFINE r == Step("create", 1)
    <3>1. r \in RunState
      BY <2>1, StepState
    <3>2. /\ r.stage = "create" /\ r.turn = 1 /\ r.stopped = run.stopped
          /\ r.private = run.private /\ r.outcome = run.outcome /\ r.tidy = run.tidy
          /\ r.made = run.made
      BY <2>1, StepState
    <3>3. run' = [r EXCEPT !.fatal = TRUE, !.marked = TRUE]
      BY <2>3
    <3> HIDE DEF r
    <3> QED
      BY <3>1, <3>2, <3>3 DEF RunState
  <2>4. CASE run' = Abandoned(Step("drain", 1))
    <3> DEFINE r == Step("drain", 1)
    <3>1. r \in RunState
      BY <2>1, StepState
    <3>2. /\ r.stage = "drain" /\ r.turn = 1 /\ r.stopped = run.stopped /\ r.marked = run.marked
          /\ r.private = run.private /\ r.outcome = run.outcome /\ r.tidy = run.tidy
          /\ r.made = run.made
      BY <2>1, StepState
    <3> HIDE DEF r
    <3> QED
      BY <2>4, <3>1, <3>2, AbandonedState DEF FlagsAtMost, SameStage, r
  <2> QED
    BY <2>2, <2>3, <2>4 DEF SetUp
<1>3. ASSUME NEW u \in Vu
      PROVE  VuSound(vu[u], worker[Home(u)], run', u)
  <2>1. /\ VuSound(vu[u], worker[Home(u)], run, u) /\ worker[Home(u)] \in WorkerState
        /\ vu[u] \in VuState /\ run \in RunState /\ run.turn \in Nat
    BY VuFacts, StressAssumption DEF RunState
  <2>2. vu[u].call = "none" /\ vu[u].act = "none" /\ vu[u].wire = "idle" /\ vu[u].ask = "none"
    BY <1>1, <2>1 DEF VuSound, Called, Housed, Wired, VuState, Quiet
  <2>3. Called(vu[u], worker[Home(u)], run', u)
    BY <2>2 DEF Called
  <2>4. Housed(vu[u], worker[Home(u)], run', u)
    BY <2>2 DEF Housed, Quiet
  <2>5. Wired(vu[u], worker[Home(u)], run')
    BY <2>2 DEF Wired
  <2> QED
    BY <2>3, <2>4, <2>5 DEF VuSound
<1>4. Turned'
  BY <1>1, <1>2 DEF Turned, At, Spawning
<1> QED
  BY <1>1, <1>2, <1>3, <1>4, StageSteps DEF Early

\* The window opens when all are made, and on none that is being made.
LEMMA EndCreateKeeps ==
  ASSUME StressInv, EndCreate
  PROVE  StressInv'
<1> DEFINE stage == IF run.stopped \/ run.fatal THEN "drain" ELSE "window"
<1>1. /\ run.stage = "create" /\ vu' = vu /\ worker' = worker /\ gate' = gate
      /\ run' = Step(stage, 1) /\ \A u \in Vu : vu[u].call = "none"
  BY DEF EndCreate, At
<1>2. stage = "window" => run.made = Vus
  BY StateFacts, StressAssumption DEF EndCreate, Creating, RunState
<1>3. stage \in Stages /\ stage \in {"drain", "window"} /\ 1 \in 1..Vus + 1
  BY StressAssumption DEF Stages
<1> HIDE DEF stage
<1>4. /\ run' \in RunState /\ run'.stage = stage /\ run'.turn = 1
      /\ run'.stopped = run.stopped /\ run'.marked = run.marked
      /\ run'.private = run.private /\ run'.outcome = run.outcome /\ run'.tidy = run.tidy
      /\ run'.made = run.made
  BY <1>1, <1>3, StepState
<1>5. ASSUME NEW u \in Vu
      PROVE  VuSound(vu[u], worker[Home(u)], run', u)
  <2>1. VuSound(vu[u], worker[Home(u)], run, u)
    BY VuFacts
  <2> QED
    BY <1>1, <1>3, <1>4, <2>1 DEF VuSound, Called, Housed, Wired, Late, Spawning
<1>6. Turned'
  BY <1>2, <1>3, <1>4 DEF Turned, At, Spawning
<1> QED
  BY <1>1, <1>3, <1>4, <1>5, <1>6, StageSteps DEF Early

\* The window closes at any time.
LEMMA EndWindowKeeps ==
  ASSUME StressInv, EndWindow
  PROVE  StressInv'
<1>1. /\ run.stage = "window" /\ vu' = vu /\ worker' = worker /\ gate' = gate
      /\ run' = Step("drain", 1)
  BY DEF EndWindow, At
<1>2. /\ run' \in RunState /\ run'.stage = "drain" /\ run'.turn = 1
      /\ run'.stopped = run.stopped /\ run'.marked = run.marked
      /\ run'.private = run.private /\ run'.outcome = run.outcome /\ run'.tidy = run.tidy
      /\ run'.made = run.made
  <2>1. "drain" \in Stages /\ 1 \in 1..Vus + 1
    BY StressAssumption DEF Stages
  <2> QED
    BY <1>1, <2>1, StepState
<1>3. ASSUME NEW u \in Vu
      PROVE  VuSound(vu[u], worker[Home(u)], run', u)
  <2>1. VuSound(vu[u], worker[Home(u)], run, u)
    BY VuFacts
  <2> QED
    BY <1>1, <1>2, <2>1 DEF VuSound, Called, Housed, Wired, Late, Spawning
<1>4. Turned'
  BY <1>2 DEF Turned, At, Spawning
<1> QED
  BY <1>1, <1>2, <1>3, <1>4, StageSteps DEF Early

\* No iteration is under way when the sessions are closed.
LEMMA DrainedKeeps ==
  ASSUME StressInv, Drained
  PROVE  StressInv'
<1>1. /\ run.stage = "drain" /\ vu' = vu /\ worker' = worker /\ gate' = gate
      /\ run' = Step("closing", 1) /\ \A u \in Vu : vu[u].call # "execute"
  BY DEF Drained, At, Busy
<1>2. /\ run' \in RunState /\ run'.stage = "closing" /\ run'.turn = 1
      /\ run'.stopped = run.stopped /\ run'.marked = run.marked
      /\ run'.private = run.private /\ run'.outcome = run.outcome /\ run'.tidy = run.tidy
      /\ run'.made = run.made
  <2>1. "closing" \in Stages /\ 1 \in 1..Vus + 1
    BY StressAssumption DEF Stages
  <2> QED
    BY <1>1, <2>1, StepState
<1>3. ASSUME NEW u \in Vu
      PROVE  VuSound(vu[u], worker[Home(u)], run', u)
  <2>1. VuSound(vu[u], worker[Home(u)], run, u) /\ vu[u] \in VuState
    BY VuFacts
  <2>2. vu[u].call = "none"
    BY <1>1, <2>1 DEF VuSound, Called, VuState
  <2>3. Called(vu[u], worker[Home(u)], run', u)
    BY <2>2 DEF Called
  <2>4. Housed(vu[u], worker[Home(u)], run', u)
    BY <1>1, <1>2, <2>1 DEF VuSound, Housed, Late, Spawning, Vu
  <2>5. Wired(vu[u], worker[Home(u)], run')
    BY <1>2, <2>1 DEF VuSound, Wired
  <2> QED
    BY <2>3, <2>4, <2>5 DEF VuSound
<1>4. Turned'
  BY <1>2, StateFacts, StressAssumption DEF Turned, At, Spawning, RunState
<1> QED
  BY <1>1, <1>2, <1>3, <1>4, StageSteps DEF Early

\* In the closing stage only the VU whose turn it is may have a call.
LEMMA ClosingFacts ==
  ASSUME StressInv, run.stage = "closing", NEW u \in Vu
  PROVE  /\ vu[u].call \in {"none", "close"} /\ (vu[u].call = "close" => u = run.turn)
         /\ run.turn \in 1..run.made + 1 /\ run.made \in 0..Vus
<1>1. VuSound(vu[u], worker[Home(u)], run, u) /\ vu[u] \in VuState
  BY VuFacts
<1>2. run.turn \in 1..run.made + 1
  BY DEF StressInv, RunSound, Turned, At, Spawning
<1> QED
  BY <1>1, <1>2, StateFacts DEF VuSound, Called, VuState, RunState

\* The turn passes to the next VU, when that one is closed or not to be asked.
LEMMA TurnPasses ==
  ASSUME StressInv, run.stage = "closing", run.turn <= run.made, NEW y \in VuState,
         run' \in RunState, run'.stage = "closing", run'.turn = run.turn + 1,
         run'.stopped = run.stopped, run.marked => run'.marked,
         run'.private = run.private, run'.outcome = run.outcome, run'.tidy = run.tidy,
         run'.made = run.made, worker' = worker, gate' = gate,
         vu' = [vu EXCEPT ![run.turn] = y], y.call = "none",
         y.ask = vu[run.turn].ask, y.wire = vu[run.turn].wire,
         VuSound(y, worker[Home(run.turn)], run, run.turn),
         worker[Home(run.turn)].peer # "failed" => y.act \in Quiet
  PROVE  StressInv'
<1>1. run.turn \in Vu /\ run.turn \in Nat /\ run.made \in Nat
  <2>1. run.turn \in 1..run.made + 1 /\ run.made \in 0..Vus
    BY ClosingFacts, SomeVu
  <2> QED
    BY <2>1, StressAssumption DEF Vu
<1>2. vu' \in [Vu -> VuState] /\ \A u \in Vu : vu'[u] = IF u = run.turn THEN y ELSE vu[u]
  BY StateFacts
<1>3. ASSUME NEW u \in Vu
      PROVE  VuSound(vu'[u], worker[Home(u)], run', u)
  <2>1. VuSound(vu[u], worker[Home(u)], run, u)
    BY VuFacts
  <2>2. CASE u = run.turn
    <3>1. vu'[u] = y
      BY <1>2, <2>2
    <3>2. Called(y, worker[Home(u)], run', u)
      BY DEF Called
    <3>3. Housed(y, worker[Home(u)], run', u)
      BY <1>1, <2>2 DEF VuSound, Housed, Late, Spawning
    <3>4. Wired(y, worker[Home(u)], run')
      BY <2>2 DEF VuSound, Wired
    <3> QED
      BY <3>1, <3>2, <3>3, <3>4 DEF VuSound
  <2>3. CASE u # run.turn
    <3>1. vu'[u] = vu[u] /\ vu[u].call = "none" /\ u \in Nat
      BY <1>2, <2>3, ClosingFacts DEF Vu
    <3>2. Called(vu[u], worker[Home(u)], run', u)
      BY <3>1 DEF Called
    <3>3. Housed(vu[u], worker[Home(u)], run', u)
      BY <1>1, <2>1, <2>3, <3>1 DEF VuSound, Housed, Late, Spawning
    <3>4. Wired(vu[u], worker[Home(u)], run')
      BY <2>1 DEF VuSound, Wired
    <3> QED
      BY <3>1, <3>2, <3>3, <3>4 DEF VuSound
  <2> QED
    BY <2>2, <2>3
<1>4. Turned'
  BY <1>1 DEF Turned, At, Spawning
<1>5. GateSound'
  <2>1. Potential' = Potential
    BY <1>2 DEF Potential
  <2>2. \A u \in Vu : vu'[u].ask = vu[u].ask
    BY <1>2
  <2> QED
    BY <2>1, <2>2, GateKept
<1> QED
  BY <1>2, <1>3, <1>4, <1>5, StateFacts, NobodyMoves, EarlySteps DEF Early

\* Sessions are closed one after the other, a failed worker's passed over.
LEMMA CloseVuKeeps ==
  ASSUME StressInv, CloseVu
  PROVE  StressInv'
<1> DEFINE v == run.turn
           y == [vu[v] EXCEPT !.call = "close"]
           p == worker[Home(v)]
<1>1. run.stage = "closing" /\ v <= run.made /\ vu[v].call = "none" /\ gate' = gate
  BY DEF CloseVu, At
<1>2. v \in Vu /\ v \in Nat /\ run.made \in 0..Vus
  BY <1>1, ClosingFacts, SomeVu, StressAssumption DEF Vu
<1>3. /\ Home(v) \in Worker /\ p \in WorkerState /\ vu[v] \in VuState
      /\ VuSound(vu[v], p, run, v) /\ WorkerSound(p, run)
      /\ run \in RunState /\ worker \in [Worker -> WorkerState] /\ vu \in [Vu -> VuState]
  BY <1>2, VuFacts
<1>4. CASE p.peer = "up"
  <2>1. /\ y \in VuState /\ y.call = "close" /\ y.act = vu[v].act
        /\ y.wire = vu[v].wire /\ y.ask = vu[v].ask
    BY <1>3 DEF VuState
  <2>2. /\ vu' = [vu EXCEPT ![v] = y] /\ run' = run
        /\ worker' = IF run.stopped /\ p.alive
                     THEN [worker EXCEPT ![Home(v)].quit = TRUE, ![Home(v)].stopping = FALSE]
                     ELSE worker
    BY <1>4 DEF CloseVu, Up, Call
  <2> HIDE DEF y
  <2>3. VuSound(y, p, run, v)
    BY <1>1, <1>3, <1>4, <2>1 DEF VuSound, Called, Housed, Wired, Late, Spawning
  <2>4. worker' \in [Worker -> WorkerState] /\ \A w \in Worker : SameReport(worker[w], worker'[w])
    <3>1. CASE worker' = worker
      BY <1>3, <3>1, NobodyMoves
    <3>2. CASE worker' # worker
      <4> DEFINE q == [p EXCEPT !.quit = TRUE, !.stopping = FALSE]
      <4>1. worker' = [worker EXCEPT ![Home(v)] = q]
        BY <1>3, <2>2, <3>2
      <4>2. q \in WorkerState /\ SameReport(p, q)
        BY <1>3 DEF WorkerState, SameReport, SameWorker
      <4> HIDE DEF q
      <4> QED
        BY <1>3, <4>1, <4>2, NobodyMoves
    <3> QED
      BY <3>1, <3>2
  <2>5. VuSound(y, worker'[Home(v)], run, v)
    <3>1. SameWorker(p, worker'[Home(v)])
      BY <1>3, <2>4 DEF SameReport
    <3> QED
      BY <2>3, <3>1 DEF VuSound, Called, Housed, Wired, SameWorker
  <2>6. FlagsAtMost(run, run') /\ run' \in RunState /\ run'.stopped = run.stopped
    BY <1>3, <2>2 DEF FlagsAtMost, SameStage
  <2>7. VuSound(y, worker'[Home(v)], run', v)
    BY <2>2, <2>5
  <2> HIDE DEF p, v
  <2> QED
    BY <1>1, <1>2, <2>1, <2>2, <2>4, <2>6, <2>7, OneCallSteps
<1>5. CASE p.peer # "up"
  <2>1. run' = Step("closing", v + 1) /\ worker' = worker /\ vu' = vu
    BY <1>5 DEF CloseVu, Up
  <2>2. "closing" \in Stages /\ v + 1 \in 1..Vus + 1
    BY <1>1, <1>2, StressAssumption DEF Stages
  <2>3. /\ run' \in RunState /\ run'.stage = "closing" /\ run'.turn = v + 1
        /\ run'.stopped = run.stopped /\ run'.marked = run.marked
        /\ run'.private = run.private /\ run'.outcome = run.outcome /\ run'.tidy = run.tidy
        /\ run'.made = run.made
    BY <2>1, <2>2, StepState
  <2>4. vu' = [vu EXCEPT ![v] = vu[v]]
    BY <1>3, <2>1
  <2>5. p.peer # "failed" => vu[v].act \in Quiet
    BY <1>1, <1>3, <1>5 DEF VuSound, Housed, WorkerSound, WorkerState, Quiet, Late, Counted
  <2> QED
    BY <1>1, <1>3, <2>1, <2>3, <2>4, <2>5, TurnPasses
<1> QED
  BY <1>4, <1>5

\* A call that is refused or fails; act is what becomes of the session.
LEMMA CallFailsKeeps ==
  ASSUME StressInv, NEW v \in Vu, NEW act \in {"none", "idle", "closed"}, CallFails(v, act),
         vu[v].call # "none", Serving(Home(v)),
         vu[v].call # "execute" => act \in Quiet,
         act \in Quiet => vu[v].wire = "idle" /\ vu[v].ask = "none",
         vu[v].wire \in {"idle", "releasing"}
  PROVE  StressInv'
<1> DEFINE p == worker[Home(v)]
           x == vu[v]
           y == [x EXCEPT !.call = "none", !.act = act]
           vs == Rejected(vu, ToSet(gate.line))
<1>1. /\ Home(v) \in Worker /\ p \in WorkerState /\ x \in VuState
      /\ VuSound(x, p, run, v) /\ run \in RunState /\ vu \in [Vu -> VuState]
      /\ p.peer = "up" /\ p.alive
  BY VuFacts DEF Serving, Up
<1>2. y \in VuState /\ y.call = "none" /\ y.act = act /\ y.wire = x.wire /\ y.ask = x.ask
  BY <1>1 DEF VuState
<1>3. x.ask # "waiting" /\ x.call \in {"create", "execute", "close"}
  BY <1>1 DEF VuSound, Wired, VuState
<1> HIDE DEF y
<1>4. CASE x.call = "close"
  <2>1. /\ run' = [Step("closing", run.turn + 1) EXCEPT !.marked = TRUE]
        /\ vu' = [vu EXCEPT ![v] = y] /\ worker' = worker /\ gate' = gate
    BY <1>1, <1>4 DEF CallFails, y
  <2>2. run.stage = "closing" /\ v = run.turn /\ run.turn <= run.made
    BY <1>1, <1>4 DEF VuSound, Called
  <2>3. "closing" \in Stages /\ run.turn + 1 \in 1..Vus + 1
    BY <2>2, ClosingFacts, StressAssumption DEF Stages
  <2>4. /\ run' \in RunState /\ run'.stage = "closing" /\ run'.turn = run.turn + 1
        /\ run'.stopped = run.stopped /\ run'.marked
        /\ run'.private = run.private /\ run'.outcome = run.outcome /\ run'.tidy = run.tidy
        /\ run'.made = run.made
    <3> DEFINE r == Step("closing", run.turn + 1)
    <3>1. /\ r \in RunState /\ r.stage = "closing" /\ r.turn = run.turn + 1
          /\ r.stopped = run.stopped
          /\ r.private = run.private /\ r.outcome = run.outcome /\ r.tidy = run.tidy
          /\ r.made = run.made
      BY <2>3, StepState
    <3>2. run' = [r EXCEPT !.marked = TRUE]
      BY <2>1
    <3> HIDE DEF r
    <3> QED
      BY <3>1, <3>2 DEF RunState
  <2>5. VuSound(y, p, run, v)
    BY <1>1, <1>2, <1>4 DEF VuSound, Called, Housed, Wired, Quiet, Spawning, Late
  <2>6. y.act \in Quiet
    BY <1>2, <1>4
  <2> HIDE DEF x, p
  <2> QED
    BY <1>2, <2>1, <2>2, <2>4, <2>5, <2>6, TurnPasses DEF x, p
<1>5. CASE x.call # "close"
  <2> DEFINE r == IF x.call = "create" THEN Step("drain", 1) ELSE run
             S == {Home(b) : b \in Busy \ {v}}
  <2>1. /\ run' = Abandoned(r) /\ gate' = [gate EXCEPT !.line = <<>>]
        /\ worker' = IF run.stopped THEN worker ELSE Told(worker, S)
        /\ vu' = [vs EXCEPT ![v].call = "none", ![v].act = act]
    BY <1>5 DEF CallFails
  <2>2. /\ vs \in [Vu -> VuState]
        /\ \A u \in Vu : /\ Moved(vu[u], vs[u]) /\ vs[u].ask # "waiting"
                         /\ vs[u].ask \in Holding <=> vu[u].ask \in Holding
                         /\ vs[u].wire = vu[u].wire
                         /\ vs[u].ask \in {"entered", "leased"} => vu[u].ask \in {"entered", "leased"}
                         /\ vu[u].ask # "waiting" => vs[u] = vu[u]
    BY RejectedMoves
  <2>3. vs[v] = x
    BY <1>3, <2>2
  <2> HIDE DEF vs, S
  <2>4. vu' = [vs EXCEPT ![v] = y]
    BY <2>1, <2>2, <2>3 DEF y
  <2>5. vu' \in [Vu -> VuState] /\ \A u \in Vu : vu'[u] = IF u = v THEN y ELSE vs[u]
    BY <1>2, <2>2, <2>4
  <2>6. worker' \in [Worker -> WorkerState] /\ \A w \in Worker : SameReport(worker[w], worker'[w])
    BY <2>1, ToldState, StateFacts, NobodyMoves
  <2>7. /\ r \in RunState /\ r.stopped = run.stopped /\ r.marked = run.marked
        /\ r.private = run.private /\ r.outcome = run.outcome /\ r.tidy = run.tidy
        /\ r.made = run.made /\ r.aborted = run.aborted
        /\ r.stage = IF x.call = "create" THEN "drain" ELSE run.stage
        /\ r.turn = IF x.call = "create" THEN 1 ELSE run.turn
    <3>1. "drain" \in Stages /\ 1 \in 1..Vus + 1
      BY StressAssumption DEF Stages
    <3>2. CASE x.call = "create"
      BY <3>1, <3>2, StepState
    <3>3. CASE x.call # "create"
      BY <1>1, <3>3
    <3> QED
      BY <3>2, <3>3
  <2> HIDE DEF r
  <2>8. run' \in RunState /\ FlagsAtMost(r, run') /\ run'.stopped
    BY <2>1, <2>7, AbandonedState
  <2>9. GateSound' /\ gate' \in [held : 0..Vus, line : Seq(Vu)] /\ IsInjective(gate'.line)
    <3>1. \A u \in Vu : /\ vu'[u].ask # "waiting"
                        /\ vu'[u].ask \in Holding <=> vu[u].ask \in Holding
      BY <1>2, <1>3, <2>2, <2>5
    <3>2. Potential' \subseteq Potential
      BY <1>2, <2>2, <2>5 DEF Potential
    <3> QED
      BY <2>1, <2>8, <3>1, <3>2, LineEmptied
  <2>10. CASE x.call = "execute"
    <3>1. r = run /\ FlagsAtMost(run, run')
      BY <2>8, <2>10 DEF r
    <3>2. VuSound(y, p, run, v)
      <4>1. run.stage \in {"window", "drain"} /\ v <= run.made /\ v \in Nat /\ run.made \in Nat
        BY <1>1, <2>10, StressAssumption DEF VuSound, Called, Vu, RunState
      <4>2. ~run.tidy /\ p.step \notin Counted
        BY <1>1, <4>1, WorkerFacts DEF StressInv, RunSound, WorkerSound, Late
      <4>3. Called(y, p, run, v)
        BY <1>2 DEF Called
      <4>4. Housed(y, p, run, v)
        <5>1. ~(v > run.made)
          BY <4>1
        <5> QED
          BY <1>1, <1>2, <4>1, <4>2, <5>1 DEF Housed, Spawning, Late
      <4>5. Wired(y, p, run)
        BY <1>1, <1>2 DEF VuSound, Wired, Quiet
      <4> QED
        BY <4>3, <4>4, <4>5 DEF VuSound
    <3>3. VuSound(vu'[v], worker'[Home(v)], run', v)
      <4>1. SameWorker(p, worker'[Home(v)]) /\ worker'[Home(v)] \in WorkerState
        BY <1>1, <2>6 DEF SameReport
      <4>2. StopsAtMost(run, run') /\ Moved(y, y)
        BY <3>1, NobodyMoves DEF FlagsAtMost, StopsAtMost
      <4>3. vu'[v] = y /\ y.ask # "waiting"
        BY <1>2, <1>3, <2>5
      <4> QED
        BY <1>1, <1>2, <2>8, <3>2, <4>1, <4>2, <4>3, VuCarried
    <3>4. \A u \in Vu \ {v} : Moved(vu[u], vu'[u]) /\ (vu'[u].ask = "waiting" => ~run'.stopped)
      BY <2>2, <2>5
    <3> QED
      BY <2>5, <2>6, <2>8, <2>9, <3>1, <3>3, <3>4, CallSteps
  <2>11. CASE x.call = "create"
    <3>1. /\ run.stage = "create" /\ v = run.made + 1 /\ run'.stage = "drain" /\ run'.turn = 1
          /\ run'.made = run.made /\ run'.tidy = run.tidy /\ (run.marked => run'.marked)
          /\ run'.private = run.private /\ run'.outcome = run.outcome
      BY <1>1, <2>7, <2>8, <2>11 DEF VuSound, Called, FlagsAtMost, SameStage
    <3>2. ASSUME NEW u \in Vu
          PROVE  VuSound(vu'[u], worker[Home(u)], run', u)
      <4>1. /\ worker[Home(u)] \in WorkerState /\ vu[u] \in VuState
            /\ VuSound(vu[u], worker[Home(u)], run, u)
        BY VuFacts
      <4>2. CASE u = v
        <5>1. vu'[u] = y
          BY <2>5, <4>2
        <5>2. Called(y, p, run', v)
          BY <1>2 DEF Called
        <5>3. Housed(y, p, run', v)
          BY <1>1, <1>2, <2>11, <3>1 DEF VuSound, Housed, Quiet, Spawning, Late, Counted
        <5>4. Wired(y, p, run')
          BY <1>1, <1>2, <1>3, <2>11 DEF VuSound, Wired, Quiet
        <5> QED
          BY <4>2, <5>1, <5>2, <5>3, <5>4 DEF VuSound
      <4>3. CASE u # v
        <5>1. vu'[u] = vs[u] /\ Moved(vu[u], vs[u]) /\ vs[u].ask # "waiting"
          BY <2>2, <2>5, <4>3
        <5>2. vu[u].call = "none"
          BY <3>1, <4>1, <4>3 DEF VuSound, Called, VuState
        <5>3. VuSound(vs[u], worker[Home(u)], run, u) /\ vs[u] \in VuState /\ vs[u].call = "none"
          <6>1. SameWorker(worker[Home(u)], worker[Home(u)]) /\ StopsAtMost(run, run)
            BY DEF SameWorker, StopsAtMost, SameStage
          <6> QED
            BY <1>1, <4>1, <5>1, <5>2, <6>1, VuCarried, MovedState
        <5>4. Called(vs[u], worker[Home(u)], run', u)
          BY <5>3 DEF Called
        <5>5. Housed(vs[u], worker[Home(u)], run', u)
          BY <3>1, <5>3 DEF VuSound, Housed, Spawning, Late
        <5>6. Wired(vs[u], worker[Home(u)], run')
          BY <2>8, <5>1, <5>3 DEF VuSound, Wired
        <5> QED
          BY <5>1, <5>4, <5>5, <5>6 DEF VuSound
      <4> QED
        BY <4>2, <4>3
    <3>3. Turned'
      BY <3>1 DEF Turned, At, Spawning
    <3> QED
      BY <2>5, <2>6, <2>8, <2>9, <3>1, <3>2, <3>3, EarlySteps DEF Early
  <2> QED
    BY <1>3, <1>5, <2>10, <2>11
<1> QED
  BY <1>4, <1>5

\* A call that is refused leaves its session as it was.
LEMMA RefuseKeeps ==
  ASSUME StressInv, NEW v \in Vu, Refuse(v)
  PROVE  StressInv'
<1> DEFINE x == vu[v]
           p == worker[Home(v)]
<1>1. p \in WorkerState /\ x \in VuState /\ VuSound(x, p, run, v) /\ run \in RunState
  BY VuFacts
<1>2. /\ x.call # "none" /\ Serving(Home(v)) /\ p.peer = "up" /\ p.alive
      /\ x.act # "working" /\ ~Accepts(v) /\ CallFails(v, x.act)
  BY DEF Refuse, Serving, Up
<1>3. x.act \in {"none", "idle", "closed"} /\ x.call \in {"create", "execute", "close"}
  BY <1>1, <1>2 DEF VuState
<1>4. CASE x.call = "create"
  <2>1. v = run.made + 1
    BY <1>1, <1>4 DEF VuSound, Called
  <2>2. v > run.made
    BY <1>1, <2>1, StressAssumption DEF RunState
  <2>3. x.act # "idle"
    BY <1>1, <1>2, <2>2 DEF VuSound, Housed
  <2>4. x.act \in Quiet
    BY <1>3, <2>3 DEF Quiet
  <2>5. x.wire = "idle" /\ x.ask = "none"
    BY <1>1, <2>4 DEF VuSound, Wired
  <2> QED
    BY <1>2, <1>3, <2>4, <2>5, CallFailsKeeps
<1>5. CASE x.call = "close"
  <2>1. x.act # "idle"
    BY <1>2, <1>5 DEF Accepts
  <2>2. x.act \in Quiet
    BY <1>3, <2>1 DEF Quiet
  <2>3. x.wire = "idle" /\ x.ask = "none"
    BY <1>1, <2>2 DEF VuSound, Wired
  <2> QED
    BY <1>2, <1>3, <2>2, <2>3, CallFailsKeeps
<1>6. CASE x.call = "execute"
  <2>1. x.act \in Quiet => x.wire = "idle" /\ x.ask = "none"
    BY <1>1 DEF VuSound, Wired
  <2>2. x.wire \in {"idle", "releasing"}
    BY <1>1, <1>2 DEF VuSound, Wired, VuState
  <2> QED
    BY <1>2, <1>3, <1>6, <2>1, <2>2, CallFailsKeeps
<1> QED
  BY <1>3, <1>4, <1>5, <1>6

\* A session that fails has no request on the wire.
LEMMA SessionFailsKeeps ==
  ASSUME StressInv, NEW v \in Vu, SessionFails(v)
  PROVE  StressInv'
<1> DEFINE x == vu[v]
           p == worker[Home(v)]
<1>1. p \in WorkerState /\ x \in VuState /\ VuSound(x, p, run, v)
  BY VuFacts
<1>2. CASE /\ x.call = "execute" /\ Serving(Home(v))
           /\ x.wire \in {"idle", "releasing"} /\ CallFails(v, "idle")
  BY <1>2, CallFailsKeeps DEF Quiet
<1>3. CASE Ready(v) /\ x.call # "execute" /\ CallFails(v, "closed")
  <2>1. x.call # "none" /\ x.wire = "idle" /\ Serving(Home(v))
    BY <1>3 DEF Ready
  <2>2. x.ask = "none"
    BY <1>1, <2>1 DEF VuSound, Wired, Serving, Up
  <2> QED
    BY <1>3, <2>1, <2>2, CallFailsKeeps DEF Quiet
<1> QED
  BY <1>2, <1>3 DEF SessionFails

\* A call that is answered has closed, or kept, its session.
LEMMA AnswerKeeps ==
  ASSUME StressInv, NEW v \in Vu, Answer(v)
  PROVE  StressInv'
<1> DEFINE x == vu[v]
           p == worker[Home(v)]
           y == [x EXCEPT !.call = "none", !.act = IF x.call = "close" THEN "closed" ELSE "idle"]
<1>1. /\ Home(v) \in Worker /\ p \in WorkerState /\ x \in VuState /\ VuSound(x, p, run, v)
      /\ run \in RunState /\ vu \in [Vu -> VuState] /\ v \in Nat /\ run.made \in Nat
  BY VuFacts, StressAssumption DEF Vu, RunState
<1>2. /\ x.call # "none" /\ x.wire = "idle" /\ p.peer = "up" /\ p.alive
      /\ worker' = worker /\ gate' = gate /\ vu' = [vu EXCEPT ![v] = y]
  BY <1>1 DEF Answer, Ready, Serving, Up
<1>3. /\ y \in VuState /\ y.call = "none" /\ y.act = IF x.call = "close" THEN "closed" ELSE "idle"
      /\ y.wire = "idle" /\ y.ask = x.ask /\ x.wire = "idle" /\ x.ask = "none"
  BY <1>1, <1>2 DEF VuState, VuSound, Wired
<1>4. x.call \in {"create", "execute", "close"}
  BY <1>1, <1>2 DEF VuState
<1> HIDE DEF y
<1>5. ASSUME NEW r \in RunState
      PROVE  Wired(y, p, r) /\ Called(y, p, r, v)
  BY <1>1, <1>2, <1>3 DEF Wired, Called
<1>6. vu' \in [Vu -> VuState] /\ \A u \in Vu : vu'[u] = IF u = v THEN y ELSE vu[u]
  BY <1>1, <1>2, <1>3
<1>7. CASE x.call = "execute"
  <2>1. run' = run
    BY <1>7 DEF Answer
  <2>2. run.stage \in {"window", "drain"} /\ v <= run.made
    BY <1>1, <1>7 DEF VuSound, Called
  <2>3. ~run.tidy /\ p.step \notin Counted
    BY <1>1, <2>2, WorkerFacts DEF StressInv, RunSound, WorkerSound, Late
  <2>4. Housed(y, p, run, v)
    BY <1>1, <1>2, <1>3, <1>7, <2>2, <2>3 DEF Housed, Spawning, Late
  <2>5. VuSound(y, p, run, v)
    BY <1>1, <1>5, <2>4 DEF VuSound
  <2>6. FlagsAtMost(run, run') /\ run'.stopped = run.stopped /\ run' \in RunState
    BY <1>1, <2>1 DEF FlagsAtMost, SameStage
  <2>7. VuSound(y, worker'[Home(v)], run', v)
    BY <1>2, <2>1, <2>5
  <2>8. \A w \in Worker : SameReport(worker[w], worker'[w])
    BY <1>2, NobodyMoves
  <2> HIDE DEF x, p
  <2> QED
    BY <1>2, <1>3, <2>6, <2>7, <2>8, OneCallSteps, StateFacts DEF x
<1>8. CASE x.call = "close"
  <2>1. run' = [run EXCEPT !.turn = @ + 1]
    BY <1>8 DEF Answer
  <2>2. run.stage = "closing" /\ v = run.turn /\ run.turn <= run.made
    BY <1>1, <1>8 DEF VuSound, Called
  <2>3. run.turn + 1 \in 1..Vus + 1
    BY <2>2, ClosingFacts, StressAssumption
  <2>4. /\ run' \in RunState /\ run'.stage = "closing" /\ run'.turn = run.turn + 1
        /\ run'.stopped = run.stopped /\ run'.marked = run.marked
        /\ run'.private = run.private /\ run'.outcome = run.outcome /\ run'.tidy = run.tidy
        /\ run'.made = run.made
    BY <1>1, <2>1, <2>2, <2>3 DEF RunState
  <2>5. y.act \in Quiet
    BY <1>3, <1>8 DEF Quiet
  <2>6. Housed(y, p, run, v)
    BY <1>1, <1>2, <1>3, <1>8, <2>2, <2>5 DEF VuSound, Housed, Spawning
  <2>7. VuSound(y, p, run, v)
    BY <1>1, <1>5, <2>6 DEF VuSound
  <2> HIDE DEF x, p
  <2> QED
    BY <1>2, <1>3, <2>2, <2>4, <2>5, <2>7, TurnPasses DEF x, p
<1>9. CASE x.call = "create"
  <2>1. run' = [run EXCEPT !.made = @ + 1]
    BY <1>9 DEF Answer
  <2>2. run.stage = "create" /\ v = run.made + 1
    BY <1>1, <1>9 DEF VuSound, Called
  <2>3. run.made + 1 \in 0..Vus
    BY <1>1, <2>2, StressAssumption DEF Vu
  <2>4. /\ run' \in RunState /\ run'.stage = "create" /\ run'.turn = run.turn
        /\ run'.stopped = run.stopped /\ run'.marked = run.marked
        /\ run'.private = run.private /\ run'.outcome = run.outcome /\ run'.tidy = run.tidy
        /\ run'.made = run.made + 1 /\ run.turn \in Nat
    BY <1>1, <2>1, <2>2, <2>3, StressAssumption DEF RunState
  <2>5. ASSUME NEW u \in Vu
        PROVE  VuSound(vu'[u], worker[Home(u)], run', u)
    <3>1. /\ worker[Home(u)] \in WorkerState /\ vu[u] \in VuState
          /\ VuSound(vu[u], worker[Home(u)], run, u) /\ u \in Nat
      BY VuFacts, StressAssumption DEF Vu
    <3>2. CASE u = v
      <4>1. vu'[u] = y
        BY <1>6, <3>2
      <4>2. ~run.tidy /\ p.step \notin Counted
        BY <1>1, <2>2, WorkerFacts DEF StressInv, RunSound, WorkerSound, Late
      <4>3. Housed(y, p, run', v)
        BY <1>1, <1>2, <1>3, <1>9, <2>2, <2>4, <4>2 DEF Housed, Spawning, Late
      <4> QED
        BY <1>5, <2>4, <3>2, <4>1, <4>3 DEF VuSound
    <3>3. CASE u # v
      <4>1. vu'[u] = vu[u] /\ vu[u].call = "none"
        BY <1>6, <2>2, <3>1, <3>3 DEF VuSound, Called, VuState
      <4>2. Called(vu[u], worker[Home(u)], run', u)
        BY <4>1 DEF Called
      <4>3. Housed(vu[u], worker[Home(u)], run', u)
        <5>1. u > run'.made => u > run.made
          BY <1>1, <2>4, <3>1
        <5> QED
          BY <2>2, <2>4, <3>1, <5>1 DEF VuSound, Housed, Spawning, Late
      <4>4. Wired(vu[u], worker[Home(u)], run')
        BY <2>4, <3>1 DEF VuSound, Wired
      <4> QED
        BY <4>1, <4>2, <4>3, <4>4 DEF VuSound
    <3> QED
      BY <3>2, <3>3
  <2>6. Turned'
    BY <2>4 DEF Turned, At, Spawning
  <2>7. GateSound'
    <3>1. Potential' = Potential
      BY <1>3, <1>6 DEF Potential
    <3>2. \A u \in Vu : vu'[u].ask = vu[u].ask
      BY <1>3, <1>6
    <3> QED
      BY <1>2, <2>4, <3>1, <3>2, GateKept
  <2> HIDE DEF x, p
  <2> QED
    BY <1>2, <1>6, <2>2, <2>4, <2>5, <2>6, <2>7, StateFacts, NobodyMoves, EarlySteps DEF Early
<1> QED
  BY <1>4, <1>7, <1>8, <1>9
-----------------------------------------------------------------------------
(***************************************************************************)
(* What the workers are asked once nothing is open any more                *)
(***************************************************************************)

\* No worker that is trusted has anything open, and nobody waits.
LEMMA LateFacts ==
  ASSUME StressInv, run.stage \in Late
  PROVE  /\ \A u \in Vu : vu[u].call = "none"
         /\ \A u \in Vu : worker[Home(u)].peer # "failed" =>
              vu[u].act \in Quiet /\ vu[u].wire = "idle" /\ vu[u].ask = "none"
         /\ \A u \in Vu : vu[u].ask \in {"none", "admitted", "entered"}
         /\ gate.line = <<>>
<1>1. ASSUME NEW u \in Vu
      PROVE  /\ vu[u].call = "none" /\ vu[u].ask \in {"none", "admitted", "entered"}
             /\ worker[Home(u)].peer # "failed" =>
                  vu[u].act \in Quiet /\ vu[u].wire = "idle" /\ vu[u].ask = "none"
  <2>1. vu[u] \in VuState /\ VuSound(vu[u], worker[Home(u)], run, u)
    BY VuFacts
  <2>2. vu[u].call = "none"
    BY <2>1 DEF VuSound, Called, VuState, Late
  <2>3. worker[Home(u)].peer # "failed" =>
          vu[u].act \in Quiet /\ vu[u].wire = "idle" /\ vu[u].ask = "none"
    BY <2>1 DEF VuSound, Housed, Wired
  <2>4. worker[Home(u)].peer = "failed" => vu[u].ask \in {"none", "admitted", "entered"}
    BY <2>1 DEF VuSound, Wired
  <2> QED
    BY <2>2, <2>3, <2>4
<1>2. ToSet(gate.line) = {}
  <2>1. ToSet(gate.line) \subseteq Vu
    BY StateFacts, LineMoves
  <2> QED
    BY <1>1, <2>1, StateFacts
<1>3. gate.line = <<>>
  BY <1>2, StateFacts, EmptyLineMoves
<1> QED
  BY <1>1, <1>3

\* A step of the coordinator and of workers that it trusts.
LEMMA LateSteps ==
  ASSUME StressInv, run' \in RunState, run'.stage \in Late,
         \A u \in Vu : vu[u].call = "none",
         \A u \in Vu : worker[Home(u)].peer # "failed" =>
           vu[u].act \in Quiet /\ vu[u].wire = "idle" /\ vu[u].ask = "none",
         run.stopped => run'.stopped,
         run'.tidy => run.tidy \/ \A w \in Worker : worker[w].peer # "failed",
         worker' \in [Worker -> WorkerState],
         \A w \in Worker : worker[w].peer = "failed" => SameWorker(worker[w], worker'[w]),
         \A w \in Worker : worker[w].peer # "failed" =>
           worker'[w].peer # "failed" /\ (worker'[w].peer = "none" => worker[w].peer = "none"),
         \A w \in Worker : WorkerSound(worker'[w], run'),
         vu' = vu, gate' = gate, RunSound'
  PROVE  StressInv'
<1>1. StressTypeOK'
  BY StateFacts DEF StressTypeOK
<1>2. AllVusSound'
  <2>1. ASSUME NEW u \in Vu
        PROVE  VuSound(vu[u], worker'[Home(u)], run', u)
    <3> DEFINE x == vu[u]
               p == worker[Home(u)]
               q == worker'[Home(u)]
    <3>1. /\ Home(u) \in Worker /\ p \in WorkerState /\ x \in VuState /\ VuSound(x, p, run, u)
          /\ q \in WorkerState /\ x.call = "none"
      BY VuFacts
    <3>2. Called(x, q, run', u)
      BY <3>1 DEF Called
    <3>3. CASE p.peer # "failed"
      <4>1. x.act \in Quiet /\ x.wire = "idle" /\ x.ask = "none"
        BY <3>3
      <4>2. q.peer = "none" => x.act = "none"
        BY <3>1, <3>3 DEF VuSound, Housed
      <4>3. Housed(x, q, run', u)
        BY <4>1, <4>2 DEF Housed, Quiet, Late, Spawning
      <4>4. Wired(x, q, run')
        BY <4>1 DEF Wired
      <4> QED
        BY <3>2, <4>3, <4>4 DEF VuSound
    <3>4. CASE p.peer = "failed"
      <4>1. SameWorker(p, q)
        BY <3>1, <3>4
      <4>2. run'.tidy => run.tidy
        BY <3>1, <3>4
      <4>3. Housed(x, q, run', u)
        BY <3>1, <3>4, <4>1, <4>2 DEF VuSound, Housed, SameWorker, Late, Spawning
      <4>4. Wired(x, q, run')
        BY <3>1, <3>4, <4>1 DEF VuSound, Wired, SameWorker
      <4> QED
        BY <3>2, <4>3, <4>4 DEF VuSound
    <3> QED
      BY <3>3, <3>4
  <2> QED
    BY <2>1 DEF AllVusSound, Home
<1>3. AllWorkersSound'
  BY DEF AllWorkersSound
<1>4. GateSound'
  <2>1. Potential' = Potential
    BY DEF Potential
  <2> QED
    BY <2>1, GateKept
<1> QED
  BY <1>1, <1>2, <1>3, <1>4 DEF StressInv

\* The same, of the part of the invariant that is about the run.
LEMMA LateRun ==
  ASSUME StressInv, run.stage \in (Late \cup {"closing"}) \ {"over"},
         run'.stage \in Late \ {"over"}, run'.stopped = run.stopped, run'.outcome = run.outcome,
         Turned', Stepped', run'.stage = "teardown" => run'.tidy,
         \A w \in Worker : \/ worker'[w].peer = worker[w].peer
                           \/ run'.stage \in {"shutdown", "finish"} /\ worker'[w].peer = "gone",
         run.stage \in {"shutdown", "finish"} => run'.stage \in {"shutdown", "finish"},
         run.stage = "finish" => run'.stage = "finish"
  PROVE  RunSound'
<1>1. Manned'
  <2>1. run'.stage \notin Spawning /\ run.stage \notin Spawning
    BY DEF Late, Spawning
  <2>2. ASSUME run'.stage # "finish", ~run'.stopped, NEW w \in Worker
        PROVE  Up(w)' \/ (At("shutdown")' /\ worker'[w].peer = "gone")
    <3>1. run.stage \notin Spawning \cup {"finish", "over"} /\ ~run.stopped
      BY <2>1, <2>2
    <3>2. Up(w) \/ (At("shutdown") /\ worker[w].peer = "gone")
      BY <3>1 DEF StressInv, RunSound, Manned
    <3> QED
      BY <2>2, <3>2 DEF Up, At
  <2> QED
    BY <2>1, <2>2 DEF Manned
<1>2. run'.outcome # "complete"
  BY DEF StressInv, RunSound, At
<1> QED
  BY <1>1, <1>2 DEF RunSound, At

\* Nothing is marked before the private exchange begins.
LEMMA UnmarkedFacts ==
  ASSUME StressInv, run.stage \notin Private
  PROVE  /\ \A w \in Worker : worker[w].step \notin Marked /\ worker[w].step # "projected"
         /\ ~run.private
BY WorkerFacts DEF StressInv, RunSound, Stepped, WorkerSound, Marked, Private

\* With the last session closed nothing is open with any trusted worker.
LEMMA EndClosingKeeps ==
  ASSUME StressInv, EndClosing
  PROVE  StressInv'
<1> DEFINE r == Step("collect", 1)
<1>1. /\ run.stage = "closing" /\ run.turn > run.made /\ vu' = vu /\ worker' = worker /\ gate' = gate
      /\ run' = [r EXCEPT !.tidy = ~run.stopped]
  BY DEF EndClosing, At
<1>2. /\ r \in RunState /\ r.stage = "collect" /\ r.turn = 1 /\ r.stopped = run.stopped
      /\ r.marked = run.marked /\ r.private = run.private /\ r.outcome = run.outcome
      /\ r.made = run.made
  <2>1. "collect" \in Stages /\ 1 \in 1..Vus + 1
    BY StressAssumption DEF Stages
  <2> QED
    BY <2>1, StepState
<1> HIDE DEF r
<1>3. /\ run' \in RunState /\ run'.stage = "collect" /\ run'.turn = 1 /\ run'.stopped = run.stopped
      /\ run'.marked = run.marked /\ run'.private = run.private /\ run'.outcome = run.outcome
      /\ run'.made = run.made /\ run'.tidy = ~run.stopped
  BY <1>1, <1>2, StateFacts DEF RunState
<1>4. ASSUME NEW u \in Vu
      PROVE  /\ vu[u].call = "none"
             /\ worker[Home(u)].peer # "failed" =>
                  vu[u].act \in Quiet /\ vu[u].wire = "idle" /\ vu[u].ask = "none"
  <2>1. /\ vu[u] \in VuState /\ VuSound(vu[u], worker[Home(u)], run, u) /\ u \in Nat
        /\ worker[Home(u)] \in WorkerState /\ WorkerSound(worker[Home(u)], run)
    BY VuFacts, StressAssumption DEF Vu
  <2>2. vu[u].call \in {"none", "close"} /\ (vu[u].call = "close" => u = run.turn /\ u <= run.made)
        /\ run.turn \in Nat /\ run.made \in Nat
    <3>1. run.turn \in Nat /\ run.made \in Nat
      BY StateFacts, StressAssumption DEF RunState
    <3> QED
      BY <1>1, <2>1, <3>1, ClosingFacts DEF VuSound, Called
  <2>3. vu[u].call = "none"
    BY <1>1, <2>2
  <2>4. ASSUME worker[Home(u)].peer # "failed"
        PROVE  vu[u].act \in Quiet
    <3>1. CASE u < run.turn
      BY <1>1, <2>1, <2>4, <3>1 DEF VuSound, Housed
    <3>2. CASE ~(u < run.turn)
      <4>1. u > run.made
        BY <1>1, <2>1, <2>2, <3>2
      <4>2. vu[u].act # "idle"
        BY <2>1, <2>4, <4>1 DEF VuSound, Housed
      <4>3. worker[Home(u)].peer # "gone"
        BY <1>1, <2>1 DEF WorkerSound, Late
      <4>4. worker[Home(u)].peer = "none" => vu[u].act = "none"
        BY <2>1 DEF VuSound, Housed
      <4>5. worker[Home(u)].peer = "up" => vu[u].act # "working"
        BY <2>1, <2>3 DEF VuSound, Housed
      <4> QED
        BY <2>1, <2>4, <4>2, <4>3, <4>4, <4>5 DEF VuState, WorkerState, Quiet
    <3> QED
      BY <3>1, <3>2
  <2> QED
    BY <2>1, <2>3, <2>4 DEF VuSound, Wired
<1>5. run'.tidy => \A w \in Worker : worker[w].peer # "failed"
  BY <1>1, <1>3 DEF StressInv, RunSound, Manned, Up, Spawning, At
<1>6. \A w \in Worker : WorkerSound(worker'[w], run')
  BY <1>1, <1>3, WorkerFacts DEF WorkerSound, Late, Counted, Marked
<1>7. Turned'
  BY <1>3, StressAssumption DEF Turned, At, Spawning
<1>8. Stepped'
  BY <1>1, <1>3, UnmarkedFacts DEF Stepped, At, Private
<1>9. RunSound'
  BY <1>1, <1>3, <1>7, <1>8, LateRun DEF Late
<1> QED
  BY <1>1, <1>3, <1>4, <1>5, <1>6, <1>9, StateFacts, NobodyMoves, LateSteps DEF Late

\* From one of these stages to one of these stages.
LEMMA LateOn ==
  ASSUME StressInv, run.stage \in Late \ {"over"}, run' \in RunState, run'.stage \in Late \ {"over"},
         run'.stopped = run.stopped, run'.tidy = run.tidy, run'.outcome = run.outcome,
         worker' \in [Worker -> WorkerState],
         \A w \in Worker : worker[w].peer = "failed" => SameWorker(worker[w], worker'[w]),
         \A w \in Worker : \/ worker'[w].peer = worker[w].peer
                           \/ run'.stage \in {"shutdown", "finish"} /\ worker'[w].peer = "gone",
         \A w \in Worker : WorkerSound(worker'[w], run'),
         vu' = vu, gate' = gate, Turned', Stepped', run'.stage = "teardown" => run'.tidy,
         run.stage \in {"shutdown", "finish"} => run'.stage \in {"shutdown", "finish"},
         run.stage = "finish" => run'.stage = "finish"
  PROVE  StressInv'
<1>1. RunSound'
  BY LateRun
<1>2. \A w \in Worker : worker[w].peer # "failed" =>
         worker'[w].peer # "failed" /\ (worker'[w].peer = "none" => worker[w].peer = "none")
  OBVIOUS
<1>3. /\ run.stopped => run'.stopped
      /\ run'.tidy => run.tidy
      /\ run'.stage \in Late /\ run.stage \in Late
  OBVIOUS
<1> QED
  BY <1>1, <1>2, <1>3, LateFacts, LateSteps

\* A worker is collected with nothing pending: it has counted what it sent.
LEMMA CollectKeeps ==
  ASSUME StressInv, Collect
  PROVE  StressInv'
<1> DEFINE w == run.turn
           p == worker[w]
           q == [p EXCEPT !.step = "drained", !.merged = p.noted]
           r == Step("collect", w + 1)
<1>1. /\ run.stage = "collect" /\ w \in 1..Workers + 1 /\ w <= Workers /\ p.peer = "up" /\ p.alive
      /\ DrainAllowed(w) /\ p.pending = 0 /\ p.step = "started" /\ vu' = vu /\ gate' = gate
      /\ worker' = [worker EXCEPT ![w] = q]
      /\ run' = [r EXCEPT !.marked = @ \/ p.tainted]
  BY DEF Collect, At, Serving, Up, Flushed, DrainAllowed, StressInv, RunSound, Turned, Spawning
<1>2. w \in Worker /\ w + 1 \in 1..Vus + 1 /\ w + 1 \in 1..Workers + 1
  BY <1>1, StressAssumption DEF Worker
<1>3. p \in WorkerState /\ WorkerSound(p, run) /\ worker \in [Worker -> WorkerState]
  BY <1>2, WorkerFacts
<1>4. /\ r \in RunState /\ r.stage = "collect" /\ r.turn = w + 1 /\ r.stopped = run.stopped
      /\ r.marked = run.marked /\ r.private = run.private /\ r.outcome = run.outcome
      /\ r.made = run.made /\ r.tidy = run.tidy
  <2>1. "collect" \in Stages
    BY DEF Stages
  <2> QED
    BY <1>2, <2>1, StepState
<1>5. /\ q \in WorkerState /\ q.step = "drained" /\ q.merged = p.noted /\ q.peer = p.peer
      /\ q.alive = p.alive /\ q.tainted = p.tainted /\ q.sent = p.sent /\ q.noted = p.noted
      /\ q.pending = p.pending
  BY <1>3 DEF WorkerState
<1> HIDE DEF q, r
<1>6. /\ run' \in RunState /\ run'.stage = "collect" /\ run'.turn = w + 1
      /\ run'.stopped = run.stopped /\ run'.private = run.private /\ run'.outcome = run.outcome
      /\ run'.made = run.made /\ run'.tidy = run.tidy /\ (p.tainted => run'.marked)
      /\ run.marked => run'.marked
  <2>1. p.tainted \in BOOLEAN
    BY <1>3 DEF WorkerState
  <2> HIDE DEF p, w
  <2> QED
    BY <1>1, <1>4, <2>1 DEF RunState
<1>7. /\ worker' \in [Worker -> WorkerState]
      /\ \A x \in Worker : worker'[x] = IF x = w THEN q ELSE worker[x]
  BY <1>1, <1>2, <1>3, <1>5
<1>8. WorkerSound(q, run')
  <2>1. p.noted \in Nat /\ p.sent \in Nat
    BY <1>3 DEF WorkerState
  <2>2. ~p.tainted => p.sent = p.noted
    BY <1>1, <1>3, <2>1 DEF WorkerSound
  <2> QED
    BY <1>1, <1>3, <1>5, <1>6, <2>2 DEF WorkerSound, Late, Counted, Marked
<1>9. ASSUME NEW x \in Worker
      PROVE  WorkerSound(worker'[x], run')
  <2>1. CASE x = w
    BY <1>7, <1>8, <2>1
  <2>2. CASE x # w
    BY <1>1, <1>6, <1>7, <2>2, WorkerFacts DEF WorkerSound, Late
  <2> QED
    BY <2>1, <2>2
<1>10. Turned'
  BY <1>2, <1>6 DEF Turned, At, Spawning
<1>11. Stepped'
  <2>1. \A x \in Worker : worker'[x].step # "projected"
    BY <1>1, <1>5, <1>7, UnmarkedFacts DEF Private
  <2>2. ~run'.private
    BY <1>1, <1>6, UnmarkedFacts DEF Private
  <2> QED
    BY <1>6, <2>1, <2>2 DEF Stepped, At
<1>12. \A x \in Worker : /\ worker'[x].peer = worker[x].peer
                         /\ worker[x].peer = "failed" => SameWorker(worker[x], worker'[x])
  BY <1>1, <1>5, <1>7 DEF SameWorker
<1> QED
  BY <1>1, <1>6, <1>7, <1>9, <1>10, <1>11, <1>12, LateOn DEF Late

\* A step of the scheduler alone, before the private exchange.
LEMMA LateStage ==
  ASSUME StressInv, run.stage \in {"collect", "teardown", "check"},
         run' \in RunState, run'.stage \in {"collect", "teardown", "check", "finish"},
         run'.stopped = run.stopped, run'.tidy = run.tidy, run'.outcome = run.outcome,
         run'.private = run.private, run.marked => run'.marked, run'.made = run.made,
         worker' = worker, vu' = vu, gate' = gate, Turned', run'.stage = "teardown" => run'.tidy
  PROVE  StressInv'
<1>1. \A w \in Worker : WorkerSound(worker'[w], run')
  BY WorkerFacts, UnmarkedFacts DEF WorkerSound, Late, Private
<1>2. Stepped'
  BY UnmarkedFacts DEF Stepped, At, Private
<1> QED
  BY <1>1, <1>2, StateFacts, NobodyMoves, LateOn DEF Late

\* Nobody waits for what a worker leaves that cannot be collected.
LEMMA CollectFailsKeeps ==
  ASSUME StressInv, CollectFails
  PROVE  StressInv'
<1> DEFINE w == run.turn
           r == Step("collect", w + 1)
<1>1. /\ run.stage = "collect" /\ w \in 1..Workers + 1 /\ w <= Workers /\ worker' = worker
      /\ run' = [r EXCEPT !.failures = @ \/ worker[w].peer # "none"]
  BY DEF CollectFails, At, StressInv, RunSound, Turned, Spawning
<1>2. /\ \A u \in Vu : vu[u].ask \in {"none", "admitted", "entered"}
      /\ gate.line = <<>>
  BY <1>1, LateFacts DEF Late
<1>3. Leased(w) = {} /\ Lucky(w) = {} /\ Remaining(w) = <<>>
  <2>1. ToSet(gate.line) = {}
    BY <1>2, EmptyLineMoves
  <2>2. Lucky(w) = {}
    BY <2>1 DEF Lucky
  <2>3. Leased(w) = {}
    BY <1>2 DEF Leased, VusOf
  <2> QED
    BY <1>2, <2>2, <2>3 DEF Remaining
<1>4. vu' = vu
  <2>1. vu' = [v \in Vu |->
         IF v \in Leased(w) THEN [vu[v] EXCEPT !.ask = "none"]
         ELSE IF v \in Lucky(w) THEN [vu[v] EXCEPT !.ask = "admitted"]
         ELSE IF v \in VusOf(w) /\ vu[v].ask = "waiting" THEN [vu[v] EXCEPT !.ask = "refused"]
         ELSE vu[v]]
    BY DEF CollectFails
  <2>2. vu' = [v \in Vu |-> vu[v]]
    BY <1>2, <1>3, <2>1
  <2> QED
    BY <2>2, StateFacts
<1>5. gate' = gate
  <2>1. gate' = [held |-> HeldWithout(w), line |-> Remaining(w)]
    BY DEF CollectFails
  <2>2. gate.held \in Nat /\ Cardinality({}) = 0
    BY StateFacts, FS_EmptySet
  <2>3. HeldWithout(w) = gate.held
    BY <1>3, <2>2 DEF HeldWithout
  <2> QED
    BY <1>2, <1>3, <2>1, <2>3, StateFacts
<1>6. w + 1 \in 1..Vus + 1 /\ w + 1 \in 1..Workers + 1
  BY <1>1, StressAssumption DEF Worker
<1>7. /\ r \in RunState /\ r.stage = "collect" /\ r.turn = w + 1 /\ r.stopped = run.stopped
      /\ r.marked = run.marked /\ r.private = run.private /\ r.outcome = run.outcome
      /\ r.made = run.made /\ r.tidy = run.tidy
  <2>1. "collect" \in Stages
    BY DEF Stages
  <2> QED
    BY <1>6, <2>1, StepState
<1> HIDE DEF r
<1>8. /\ run' \in RunState /\ run'.stage = "collect" /\ run'.turn = w + 1
      /\ run'.stopped = run.stopped /\ run'.private = run.private /\ run'.outcome = run.outcome
      /\ run'.made = run.made /\ run'.tidy = run.tidy /\ run'.marked = run.marked
  BY <1>1, <1>7 DEF RunState
<1>9. Turned'
  BY <1>6, <1>8 DEF Turned, At, Spawning
<1> QED
  BY <1>1, <1>4, <1>5, <1>8, <1>9, LateStage

\* The run is torn down only when it is tidy.
LEMMA EndCollectKeeps ==
  ASSUME StressInv, EndCollect
  PROVE  StressInv'
<1> DEFINE stage == IF run.tidy THEN "teardown" ELSE "check"
<1>1. /\ run.stage = "collect" /\ vu' = vu /\ worker' = worker /\ gate' = gate
      /\ run' = Step(stage, 1)
  BY DEF EndCollect, At
<1>2. /\ stage \in Stages /\ 1 \in 1..Vus + 1 /\ stage \in {"teardown", "check"}
      /\ stage = "teardown" => run.tidy
  BY StressAssumption DEF Stages
<1> HIDE DEF stage
<1>3. /\ run' \in RunState /\ run'.stage = stage /\ run'.turn = 1
      /\ run'.stopped = run.stopped /\ run'.marked = run.marked
      /\ run'.private = run.private /\ run'.outcome = run.outcome /\ run'.tidy = run.tidy
      /\ run'.made = run.made
  BY <1>1, <1>2, StepState
<1>4. Turned'
  BY <1>2, <1>3 DEF Turned, At, Spawning
<1> QED
  BY <1>1, <1>2, <1>3, <1>4, LateStage

\* The teardown changes nothing but the report.
LEMMA TearDownKeeps ==
  ASSUME StressInv, TearDown
  PROVE  StressInv'
<1> DEFINE r == Step("check", 1)
<1>1. /\ run.stage = "teardown" /\ vu' = vu /\ worker' = worker /\ gate' = gate
      /\ run' = r \/ run' = [r EXCEPT !.marked = TRUE]
  BY DEF TearDown, At
<1>2. /\ r \in RunState /\ r.stage = "check" /\ r.turn = 1 /\ r.stopped = run.stopped
      /\ r.marked = run.marked /\ r.private = run.private /\ r.outcome = run.outcome
      /\ r.made = run.made /\ r.tidy = run.tidy
  <2>1. "check" \in Stages /\ 1 \in 1..Vus + 1
    BY StressAssumption DEF Stages
  <2> QED
    BY <2>1, StepState
<1> HIDE DEF r
<1>3. /\ run' \in RunState /\ run'.stage = "check" /\ run'.turn = 1
      /\ run'.stopped = run.stopped /\ (run.marked => run'.marked)
      /\ run'.private = run.private /\ run'.outcome = run.outcome /\ run'.tidy = run.tidy
      /\ run'.made = run.made
  BY <1>1, <1>2 DEF RunState
<1>4. Turned'
  BY <1>3 DEF Turned, At, Spawning
<1> QED
  BY <1>1, <1>3, <1>4, LateStage

\* Markers are asked for only when every worker was drained.
LEMMA CheckKeeps ==
  ASSUME StressInv, Check
  PROVE  StressInv'
<1>1. run.stage = "check" /\ vu' = vu /\ worker' = worker /\ gate' = gate
  BY DEF Check, At
<1>2. CASE Whole
  <2>1. run' = Step("markers", 1)
    BY <1>2 DEF Check
  <2>2. "markers" \in Stages /\ 1 \in 1..Vus + 1 /\ 1 \in 1..Workers
    BY StressAssumption DEF Stages
  <2>3. /\ run' \in RunState /\ run'.stage = "markers" /\ run'.turn = 1
        /\ run'.stopped = run.stopped /\ run'.marked = run.marked
        /\ run'.private = run.private /\ run'.outcome = run.outcome /\ run'.tidy = run.tidy
        /\ run'.made = run.made
    BY <2>1, <2>2, StepState
  <2>4. \A w \in Worker : worker[w].step = "drained"
    BY <1>2 DEF Whole
  <2>5. Turned'
    BY <2>2, <2>3 DEF Turned, At, Spawning
  <2>6. Stepped'
    <3>1. \A w \in Worker : ~(w < 1)
      BY DEF Worker
    <3>2. ~run.private
      BY <1>1, UnmarkedFacts DEF Private
    <3> QED
      BY <1>1, <2>3, <2>4, <3>1, <3>2 DEF Stepped, At, Passed
  <2>7. \A w \in Worker : WorkerSound(worker'[w], run')
    BY <1>1, <2>3, <2>4, WorkerFacts DEF WorkerSound, Late, Marked
  <2> QED
    BY <1>1, <2>3, <2>5, <2>6, <2>7, StateFacts, NobodyMoves, LateOn DEF Late
<1>3. CASE ~Whole
  <2>1. run' = [run EXCEPT !.stage = "finish", !.marked = @ \/ ~run.legacy]
    BY <1>3 DEF Check, Withheld
  <2>2. /\ run' \in RunState /\ run'.stage = "finish" /\ run'.turn = run.turn
        /\ run'.stopped = run.stopped /\ (run.marked => run'.marked)
        /\ run'.private = run.private /\ run'.outcome = run.outcome /\ run'.tidy = run.tidy
        /\ run'.made = run.made /\ run.turn \in Nat
    <3> DEFINE b == run.marked \/ ~run.legacy
    <3>1. run \in RunState /\ run.turn \in Nat
      BY StateFacts, StressAssumption DEF RunState
    <3>2. b \in BOOLEAN /\ (run.marked => b) /\ "finish" \in Stages
      BY DEF Stages
    <3>3. run' = [run EXCEPT !.stage = "finish", !.marked = b]
      BY <2>1, <3>1 DEF RunState
    <3> HIDE DEF b
    <3> QED
      BY <3>1, <3>2, <3>3 DEF RunState
  <2>3. Turned'
    BY <2>2 DEF Turned, At, Spawning
  <2> QED
    BY <1>1, <2>2, <2>3, LateStage
<1> QED
  BY <1>2, <1>3

\* The private exchange goes from worker to worker.
LEMMA ExchangeFacts ==
  ASSUME StressInv, run.stage \in {"markers", "union", "shutdown"}
  PROVE  /\ run.turn \in Worker /\ run.turn \in 1..Workers /\ 1 \in 1..Workers /\ 1 \in 1..Vus + 1
         /\ run.turn < Workers => run.turn + 1 \in 1..Workers /\ run.turn + 1 \in 1..Vus + 1
         /\ \A w \in Worker : ~(w < 1)
         /\ \A w \in Worker : w < run.turn + 1 <=> w < run.turn \/ w = run.turn
         /\ ~(run.turn < Workers) => \A w \in Worker : w < run.turn \/ w = run.turn
         /\ ~run.private
<1>1. run.turn \in 1..Workers
  BY DEF StressInv, RunSound, Turned, Spawning, At
<1>2. ~run.private
  BY DEF StressInv, RunSound, Stepped
<1> QED
  BY <1>1, <1>2, StressAssumption DEF Worker

\* What becomes of the run when a worker has answered.
LEMMA ExchangeStep ==
  ASSUME StressInv, run.stage \in {"markers", "union"},
         NEW next \in {"union", "shutdown"},
         run' = IF run.turn < Workers THEN Step(run.stage, run.turn + 1) ELSE Step(next, 1)
  PROVE  /\ run' \in RunState /\ run'.stopped = run.stopped /\ run'.marked = run.marked
         /\ run'.private = run.private /\ run'.outcome = run.outcome /\ run'.tidy = run.tidy
         /\ run'.made = run.made
         /\ run'.stage = IF run.turn < Workers THEN run.stage ELSE next
         /\ run'.turn = IF run.turn < Workers THEN run.turn + 1 ELSE 1
         /\ Turned'
<1>1. run.stage \in Stages /\ next \in Stages
  BY DEF Stages
<1>2. CASE run.turn < Workers
  <2>1. run' = Step(run.stage, run.turn + 1)
    BY <1>2
  <2>2. /\ run' \in RunState /\ run'.stopped = run.stopped /\ run'.marked = run.marked
        /\ run'.private = run.private /\ run'.outcome = run.outcome /\ run'.tidy = run.tidy
        /\ run'.made = run.made /\ run'.stage = run.stage /\ run'.turn = run.turn + 1
    BY <1>1, <1>2, <2>1, ExchangeFacts, StepState
  <2>3. Turned'
    BY <1>2, <2>2, ExchangeFacts DEF Turned, At, Spawning
  <2> QED
    BY <1>2, <2>2, <2>3
<1>3. CASE ~(run.turn < Workers)
  <2>1. run' = Step(next, 1)
    BY <1>3
  <2>2. /\ run' \in RunState /\ run'.stopped = run.stopped /\ run'.marked = run.marked
        /\ run'.private = run.private /\ run'.outcome = run.outcome /\ run'.tidy = run.tidy
        /\ run'.made = run.made /\ run'.stage = next /\ run'.turn = 1
    BY <1>1, <2>1, ExchangeFacts, StepState
  <2>3. Turned'
    BY <2>2, ExchangeFacts DEF Turned, At, Spawning
  <2> QED
    BY <1>3, <2>2, <2>3
<1> QED
  BY <1>2, <1>3

\* A worker that was drained tells all the markers of what it sent.
LEMMA MarkersKeeps ==
  ASSUME StressInv, Markers
  PROVE  StressInv'
<1> DEFINE w == run.turn
           p == worker[w]
           q == [p EXCEPT !.step = "ready", !.known = p.sent]
<1>1. /\ run.stage = "markers" /\ p.peer = "up" /\ p.alive /\ vu' = vu /\ gate' = gate
      /\ worker' = [worker EXCEPT ![w] = q]
      /\ run' = IF w < Workers THEN Step("markers", w + 1) ELSE Step("union", 1)
  BY DEF Markers, At, Serving, Up
<1>2. w \in Worker /\ p \in WorkerState /\ WorkerSound(p, run) /\ worker \in [Worker -> WorkerState]
  BY <1>1, ExchangeFacts, WorkerFacts
<1>3. \A x \in Worker : worker[x].step = IF x < w THEN "ready" ELSE "drained"
  BY <1>1 DEF StressInv, RunSound, Stepped, At, Passed
<1>4. p.step = "drained"
  <2>1. ~(w < w)
    BY <1>1, ExchangeFacts
  <2> QED
    BY <1>2, <1>3, <2>1
<1>5. /\ q \in WorkerState /\ q.step = "ready" /\ q.known = p.sent /\ q.peer = p.peer
      /\ q.alive = p.alive /\ q.tainted = p.tainted /\ q.sent = p.sent /\ q.noted = p.noted
      /\ q.pending = p.pending /\ q.merged = p.merged
  BY <1>2 DEF WorkerState
<1> HIDE DEF q
<1>6. /\ run' \in RunState /\ run'.stopped = run.stopped /\ run'.marked = run.marked
      /\ run'.private = run.private /\ run'.outcome = run.outcome /\ run'.tidy = run.tidy
      /\ run'.made = run.made
      /\ run'.stage = IF w < Workers THEN "markers" ELSE "union"
      /\ run'.turn = IF w < Workers THEN w + 1 ELSE 1
      /\ Turned'
  BY <1>1, ExchangeStep
<1>7. /\ worker' \in [Worker -> WorkerState]
      /\ \A x \in Worker : worker'[x] = IF x = w THEN q ELSE worker[x]
  BY <1>1, <1>2, <1>5
<1>8. ASSUME NEW x \in Worker
      PROVE  WorkerSound(worker'[x], run')
  <2>1. CASE x = w
    <3>1. worker'[x] = q
      BY <1>7, <2>1
    <3> QED
      BY <1>1, <1>2, <1>4, <1>5, <1>6, <3>1 DEF WorkerSound, Late, Private, Counted, Marked
  <2>2. CASE x # w
    BY <1>1, <1>6, <1>7, <2>2, WorkerFacts DEF WorkerSound, Late, Private
  <2> QED
    BY <2>1, <2>2
<1>9. Stepped'
  <2>1. ~run'.private /\ \A x \in Worker : worker'[x].step # "projected"
    BY <1>1, <1>3, <1>5, <1>6, <1>7, ExchangeFacts
  <2>2. CASE w < Workers
    <3>1. \A x \in Worker : worker'[x].step = IF x < w + 1 THEN "ready" ELSE "drained"
      BY <1>1, <1>3, <1>5, <1>7, ExchangeFacts
    <3> QED
      BY <1>6, <2>1, <2>2, <3>1 DEF Stepped, At, Passed
  <2>3. CASE ~(w < Workers)
    <3>1. \A x \in Worker : worker'[x].step = "ready"
      BY <1>1, <1>3, <1>5, <1>7, <2>3, ExchangeFacts
    <3>2. \A x \in Worker : ~(x < run'.turn)
      BY <1>1, <1>6, <2>3, ExchangeFacts
    <3> QED
      BY <1>6, <2>1, <2>3, <3>1, <3>2 DEF Stepped, At, Passed
  <2> QED
    BY <2>2, <2>3
<1>10. \A x \in Worker : /\ worker'[x].peer = worker[x].peer
                         /\ worker[x].peer = "failed" => SameWorker(worker[x], worker'[x])
  BY <1>1, <1>5, <1>7 DEF SameWorker
<1> HIDE DEF w, p
<1> QED
  BY <1>1, <1>6, <1>7, <1>8, <1>9, <1>10, LateOn DEF Late

\* The union goes out when the last worker has told its markers.
LEMMA UnionKeeps ==
  ASSUME StressInv, Union
  PROVE  StressInv'
<1> DEFINE w == run.turn
           p == worker[w]
           q == [p EXCEPT !.step = "projected"]
<1>1. /\ run.stage = "union" /\ p.peer = "up" /\ p.alive /\ vu' = vu /\ gate' = gate
      /\ worker' = [worker EXCEPT ![w] = q]
      /\ run' = IF w < Workers THEN Step("union", w + 1) ELSE Step("shutdown", 1)
  BY DEF Union, Project, At, Serving, Up
<1>2. w \in Worker /\ p \in WorkerState /\ WorkerSound(p, run) /\ worker \in [Worker -> WorkerState]
  BY <1>1, ExchangeFacts, WorkerFacts
<1>3. \A x \in Worker : worker[x].step = IF x < w THEN "projected" ELSE "ready"
  BY <1>1 DEF StressInv, RunSound, Stepped, At, Passed
<1>4. p.step = "ready"
  <2>1. ~(w < w)
    BY <1>1, ExchangeFacts
  <2> QED
    BY <1>2, <1>3, <2>1
<1>5. /\ q \in WorkerState /\ q.step = "projected" /\ q.known = p.known /\ q.peer = p.peer
      /\ q.alive = p.alive /\ q.tainted = p.tainted /\ q.sent = p.sent /\ q.noted = p.noted
      /\ q.pending = p.pending /\ q.merged = p.merged
  BY <1>2 DEF WorkerState
<1> HIDE DEF q
<1>6. /\ run' \in RunState /\ run'.stopped = run.stopped /\ run'.marked = run.marked
      /\ run'.private = run.private /\ run'.outcome = run.outcome /\ run'.tidy = run.tidy
      /\ run'.made = run.made
      /\ run'.stage = IF w < Workers THEN "union" ELSE "shutdown"
      /\ run'.turn = IF w < Workers THEN w + 1 ELSE 1
      /\ Turned'
  BY <1>1, ExchangeStep
<1>7. /\ worker' \in [Worker -> WorkerState]
      /\ \A x \in Worker : worker'[x] = IF x = w THEN q ELSE worker[x]
  BY <1>1, <1>2, <1>5
<1>8. ASSUME NEW x \in Worker
      PROVE  WorkerSound(worker'[x], run')
  <2>1. CASE x = w
    <3>1. worker'[x] = q
      BY <1>7, <2>1
    <3> QED
      BY <1>1, <1>2, <1>4, <1>5, <1>6, <3>1 DEF WorkerSound, Late, Private, Counted, Marked
  <2>2. CASE x # w
    BY <1>1, <1>6, <1>7, <2>2, WorkerFacts DEF WorkerSound, Late, Private
  <2> QED
    BY <2>1, <2>2
<1>9. Stepped'
  <2>1. ~run'.private /\ \A x \in Worker : worker'[x].step \in Marked
    BY <1>1, <1>3, <1>5, <1>6, <1>7, ExchangeFacts DEF Marked
  <2>2. CASE w < Workers
    <3>1. \A x \in Worker : worker'[x].step = IF x < w + 1 THEN "projected" ELSE "ready"
      BY <1>1, <1>3, <1>5, <1>7, ExchangeFacts
    <3> QED
      BY <1>6, <2>1, <2>2, <3>1 DEF Stepped, At, Passed
  <2>3. CASE ~(w < Workers)
    <3>1. \A x \in Worker : worker'[x].step = "projected"
      BY <1>1, <1>3, <1>5, <1>7, <2>3, ExchangeFacts
    <3> QED
      BY <1>6, <2>1, <2>3, <3>1 DEF Stepped, At, Passed
  <2> QED
    BY <2>2, <2>3
<1>10. \A x \in Worker : /\ worker'[x].peer = worker[x].peer
                         /\ worker[x].peer = "failed" => SameWorker(worker[x], worker'[x])
  BY <1>1, <1>5, <1>7 DEF SameWorker
<1> HIDE DEF w, p
<1> QED
  BY <1>1, <1>6, <1>7, <1>8, <1>9, <1>10, LateOn DEF Late

\* A worker is shut down when all have projected.
LEMMA ShutdownKeeps ==
  ASSUME StressInv, Shutdown
  PROVE  StressInv'
<1> DEFINE w == run.turn
           p == worker[w]
           q == [p EXCEPT !.peer = "gone", !.alive = FALSE, !.stopping = FALSE]
<1>1. /\ run.stage = "shutdown" /\ p.peer = "up" /\ p.alive /\ vu' = vu /\ gate' = gate
      /\ worker' = [worker EXCEPT ![w] = q]
      /\ run' = IF w < Workers THEN Step("shutdown", w + 1)
                ELSE [Step("finish", 1) EXCEPT !.private = TRUE]
  BY DEF Shutdown, At, Serving, Up
<1>2. w \in Worker /\ p \in WorkerState /\ WorkerSound(p, run) /\ worker \in [Worker -> WorkerState]
  BY <1>1, ExchangeFacts, WorkerFacts
<1>3. \A x \in Worker : worker[x].step = "projected"
  BY <1>1 DEF StressInv, RunSound, Stepped, At
<1>4. /\ q \in WorkerState /\ q.step = p.step /\ q.known = p.known /\ q.peer = "gone"
      /\ ~q.alive /\ q.tainted = p.tainted /\ q.sent = p.sent /\ q.noted = p.noted
      /\ q.pending = p.pending /\ q.merged = p.merged
  BY <1>2 DEF WorkerState
<1> HIDE DEF q
<1>5. /\ run' \in RunState /\ run'.stopped = run.stopped /\ run'.marked = run.marked
      /\ run'.outcome = run.outcome /\ run'.tidy = run.tidy
      /\ run'.made = run.made /\ run'.stage \in {"shutdown", "finish"}
      /\ run'.stage = "shutdown" => ~run'.private /\ run'.turn \in 1..Workers
      /\ run'.turn \in Nat
  <2>1. CASE w < Workers
    <3>1. "shutdown" \in Stages /\ w + 1 \in 1..Vus + 1 /\ w + 1 \in 1..Workers
      BY <1>1, <2>1, ExchangeFacts DEF Stages
    <3>2. run' = Step("shutdown", w + 1)
      BY <1>1, <2>1
    <3>3. /\ run' \in RunState /\ run'.stopped = run.stopped /\ run'.marked = run.marked
          /\ run'.outcome = run.outcome /\ run'.tidy = run.tidy /\ run'.made = run.made
          /\ run'.stage = "shutdown" /\ run'.turn = w + 1 /\ run'.private = run.private
      BY <3>1, <3>2, StepState
    <3>4. ~run.private
      BY <1>1, ExchangeFacts
    <3> HIDE DEF w
    <3> QED
      BY <3>1, <3>3, <3>4
  <2>2. CASE ~(w < Workers)
    <3> DEFINE r == Step("finish", 1)
    <3>1. "finish" \in Stages /\ 1 \in 1..Vus + 1
      BY <1>1, ExchangeFacts DEF Stages
    <3>2. /\ r \in RunState /\ r.stopped = run.stopped /\ r.marked = run.marked
          /\ r.outcome = run.outcome /\ r.tidy = run.tidy /\ r.made = run.made
          /\ r.stage = "finish" /\ r.turn = 1
      BY <3>1, StepState
    <3>3. run' = [r EXCEPT !.private = TRUE]
      BY <1>1, <2>2
    <3> HIDE DEF r, w, p
    <3>4. /\ run' \in RunState /\ run'.stopped = r.stopped /\ run'.marked = r.marked
          /\ run'.outcome = r.outcome /\ run'.tidy = r.tidy /\ run'.made = r.made
          /\ run'.stage = r.stage /\ run'.turn = r.turn
      BY <3>2, <3>3 DEF RunState
    <3> QED
      BY <3>2, <3>4
  <2> QED
    BY <2>1, <2>2
<1>6. /\ worker' \in [Worker -> WorkerState]
      /\ \A x \in Worker : worker'[x] = IF x = w THEN q ELSE worker[x]
  BY <1>1, <1>2, <1>4
<1>7. ASSUME NEW x \in Worker
      PROVE  WorkerSound(worker'[x], run')
  <2>1. CASE x = w
    <3>1. worker'[x] = q
      BY <1>6, <2>1
    <3>2. p.step \in Counted
      BY <1>2, <1>3 DEF Counted
    <3> QED
      BY <1>1, <1>2, <1>4, <1>5, <3>1, <3>2 DEF WorkerSound, Late, Private
  <2>2. CASE x # w
    BY <1>1, <1>5, <1>6, <2>2, WorkerFacts DEF WorkerSound, Late, Private
  <2> QED
    BY <2>1, <2>2
<1>8. \A x \in Worker : worker'[x].step = "projected"
  BY <1>2, <1>3, <1>4, <1>6
<1>9. Stepped'
  BY <1>5, <1>8 DEF Stepped, At, Marked
<1>10. Turned'
  BY <1>5 DEF Turned, At, Spawning
<1>11. \A x \in Worker : /\ worker'[x].peer = worker[x].peer \/ worker'[x].peer = "gone"
                         /\ worker[x].peer = "failed" => SameWorker(worker[x], worker'[x])
  BY <1>1, <1>4, <1>6 DEF SameWorker
<1> HIDE DEF w, p
<1> QED
  BY <1>1, <1>5, <1>6, <1>7, <1>9, <1>10, <1>11, LateOn DEF Late

\* An exchange that fails leaves the report incomplete.
LEMMA ExchangeFailsKeeps ==
  ASSUME StressInv, ExchangeFails
  PROVE  StressInv'
<1>1. /\ run.stage \in {"markers", "union", "shutdown"} /\ vu' = vu /\ gate' = gate /\ worker' = worker
      /\ run' = [run EXCEPT !.stage = "finish", !.marked = TRUE, !.failures = TRUE]
  BY DEF ExchangeFails
<1>2. run \in RunState /\ run.turn \in Nat /\ "finish" \in Stages
  BY StateFacts, StressAssumption DEF RunState, Stages
<1>3. /\ run' \in RunState /\ run'.stage = "finish" /\ run'.turn = run.turn
      /\ run'.stopped = run.stopped /\ run'.marked
      /\ run'.private = run.private /\ run'.outcome = run.outcome /\ run'.tidy = run.tidy
  BY <1>1, <1>2 DEF RunState
<1>4. Turned'
  BY <1>2, <1>3 DEF Turned, At, Spawning
<1>5. Stepped'
  <2>1. (\E w \in Worker : worker[w].step = "projected") => \A w \in Worker : worker[w].step \in Marked
    BY DEF StressInv, RunSound, Stepped
  <2> QED
    BY <1>1, <1>3, <2>1, ExchangeFacts DEF Stepped, At
<1>6. \A w \in Worker : WorkerSound(worker'[w], run')
  BY <1>1, <1>3, WorkerFacts DEF WorkerSound, Late, Private
<1> QED
  BY <1>1, <1>3, <1>4, <1>5, <1>6, StateFacts, NobodyMoves, LateOn DEF Late

\* The report is complete only when no part of it is marked and no worker failed.
LEMMA FinishKeeps ==
  ASSUME StressInv, Finish
  PROVE  StressInv'
<1>1. /\ run.stage = "finish" /\ gate' = gate
      /\ run' = [run EXCEPT !.stage = "over", !.outcome = Outcome]
      /\ worker' = [w \in Worker |->
                     [worker[w] EXCEPT !.alive = FALSE, !.stopping = FALSE, !.pending = 0]]
      /\ vu' = [v \in Vu |-> [vu[v] EXCEPT !.wire = "idle"]]
  BY DEF Finish, At
<1>2. run \in RunState /\ "over" \in Stages /\ run.turn \in Nat
  BY StateFacts, StressAssumption DEF RunState, Stages
<1>3. Outcome \in {"none", "failed", "numeric", "partial", "complete"}
  BY DEF Outcome
<1>4. /\ run' \in RunState /\ run'.stage = "over" /\ run'.turn = run.turn /\ run'.stopped = run.stopped
      /\ run'.marked = run.marked /\ run'.private = run.private /\ run'.made = run.made
      /\ run'.tidy = run.tidy /\ run'.outcome = Outcome
  <2> DEFINE o == Outcome
  <2>1. /\ o \in {"none", "failed", "numeric", "partial", "complete"}
        /\ run' = [run EXCEPT !.stage = "over", !.outcome = o]
    BY <1>1, <1>3
  <2> HIDE DEF o
  <2>2. /\ run' \in RunState /\ run'.stage = "over" /\ run'.turn = run.turn /\ run'.stopped = run.stopped
        /\ run'.marked = run.marked /\ run'.private = run.private /\ run'.made = run.made
        /\ run'.tidy = run.tidy /\ run'.outcome = o
    BY <1>2, <2>1 DEF RunState
  <2> QED
    BY <2>2 DEF o
<1>5. ASSUME NEW w \in Worker
      PROVE  /\ worker'[w] \in WorkerState /\ ~worker'[w].alive /\ worker'[w].pending = 0
             /\ worker'[w].peer = worker[w].peer /\ worker'[w].step = worker[w].step
             /\ worker'[w].tainted = worker[w].tainted /\ worker'[w].sent = worker[w].sent
             /\ worker'[w].merged = worker[w].merged /\ worker'[w].known = worker[w].known
             /\ worker'[w].noted = worker[w].noted
  <2>1. worker'[w] = [worker[w] EXCEPT !.alive = FALSE, !.stopping = FALSE, !.pending = 0]
    BY <1>1
  <2> QED
    <3> DEFINE p == worker[w]
               q == worker'[w]
    <3>1. p \in WorkerState /\ q = [p EXCEPT !.alive = FALSE, !.stopping = FALSE, !.pending = 0]
      BY <2>1, WorkerFacts
    <3> HIDE DEF p, q
    <3>2. q \in WorkerState
      <4>1. [p EXCEPT !.alive = FALSE, !.stopping = FALSE] \in WorkerState
        BY <3>1 DEF WorkerState
      <4> DEFINE o == [p EXCEPT !.alive = FALSE, !.stopping = FALSE]
      <4>2. q = [o EXCEPT !.pending = 0]
        BY <3>1
      <4>3. o \in WorkerState
        BY <4>1
      <4> HIDE DEF o
      <4> QED
        BY <4>2, <4>3 DEF WorkerState
    <3>3. /\ ~q.alive /\ q.pending = 0 /\ q.peer = p.peer /\ q.step = p.step
          /\ q.tainted = p.tainted /\ q.sent = p.sent
          /\ q.merged = p.merged /\ q.known = p.known /\ q.noted = p.noted
      BY <3>1 DEF WorkerState
    <3> QED
      BY <3>2, <3>3 DEF p, q
<1>6. ASSUME NEW u \in Vu
      PROVE  /\ vu'[u] \in VuState /\ vu'[u].wire = "idle" /\ vu'[u].call = vu[u].call
             /\ vu'[u].act = vu[u].act /\ vu'[u].ask = vu[u].ask
  <2>1. vu'[u] = [vu[u] EXCEPT !.wire = "idle"]
    BY <1>1
  <2> QED
    BY <2>1, VuFacts DEF VuState
<1>7. worker' \in [Worker -> WorkerState] /\ vu' \in [Vu -> VuState]
  <2>1. worker' \in [Worker -> WorkerState]
    BY <1>1, <1>5
  <2>2. vu' \in [Vu -> VuState]
    BY <1>1, <1>6
  <2> QED
    BY <2>1, <2>2
<1>8. StressTypeOK'
  BY <1>1, <1>4, <1>7, StateFacts DEF StressTypeOK
<1>9. AllVusSound'
  <2>1. ASSUME NEW u \in Vu
        PROVE  VuSound(vu'[u], worker'[Home(u)], run', u)
    <3> DEFINE p == worker[Home(u)]
               q == worker'[Home(u)]
               x == vu[u]
               y == vu'[u]
    <3>1. VuSound(x, p, run, u) /\ p \in WorkerState /\ x.call = "none" /\ Home(u) \in Worker
      BY <1>1, VuFacts, LateFacts DEF Late
    <3>2. /\ q \in WorkerState /\ ~q.alive /\ q.peer = p.peer /\ q.step = p.step
          /\ y.wire = "idle" /\ y.call = "none" /\ y.act = x.act /\ y.ask = x.ask
      BY <1>5, <1>6, <3>1
    <3> HIDE DEF q, y
    <3>3. Called(y, q, run', u)
      BY <3>2 DEF Called
    <3>4. Housed(y, q, run', u)
      BY <1>1, <1>4, <3>1, <3>2 DEF VuSound, Housed, Late, Spawning
    <3>5. Wired(y, q, run')
      BY <1>4, <3>1, <3>2 DEF VuSound, Wired
    <3> QED
      BY <3>3, <3>4, <3>5 DEF VuSound, q, y
  <2> QED
    BY <2>1 DEF AllVusSound, Home
<1>10. AllWorkersSound'
  <2>1. ASSUME NEW w \in Worker
        PROVE  WorkerSound(worker'[w], run')
    <3>1. WorkerSound(worker[w], run)
      BY WorkerFacts
    <3> QED
      BY <1>1, <1>4, <1>5, <3>1 DEF WorkerSound, Late, Private
  <2> QED
    BY <2>1 DEF AllWorkersSound
<1>11. RunSound'
  <2>1. Turned' /\ Manned'
    BY <1>2, <1>4 DEF Turned, Manned, At, Spawning
  <2>2. Stepped'
    <3>1. /\ run.private => \A w \in Worker : worker[w].step = "projected"
          /\ (\E w \in Worker : worker[w].step = "projected") => \A w \in Worker : worker[w].step \in Marked
      BY DEF StressInv, RunSound, Stepped
    <3>2. \A w \in Worker : worker'[w].step = worker[w].step
      BY <1>5
    <3> QED
      BY <1>4, <3>1, <3>2 DEF Stepped, At
  <2>3. ASSUME run'.outcome = "complete"
        PROVE  CompleteIsWhole' /\ run'.private
    <3>1. run.private /\ ~run.marked
      BY <1>4, <2>3 DEF Outcome
    <3>2. ASSUME NEW w \in Worker
          PROVE  worker[w].merged = worker[w].sent /\ ~worker[w].tainted
      <4>1. worker[w].step = "projected"
        BY <3>1 DEF StressInv, RunSound, Stepped
      <4> QED
        BY <3>1, <4>1, WorkerFacts DEF WorkerSound, Counted
    <3>3. \A w \in Worker : worker'[w].merged = worker'[w].sent /\ ~worker'[w].tainted
      BY <1>5, <3>2
    <3> QED
      BY <1>4, <3>1, <3>3 DEF CompleteIsWhole
  <2> QED
    BY <1>1, <1>4, <2>1, <2>2, <2>3 DEF RunSound, At, Late
<1>12. GateSound'
  <2>1. Potential' \subseteq Potential
    BY <1>6 DEF Potential
  <2>2. \A u \in Vu : vu'[u].ask = vu[u].ask
    BY <1>6
  <2> QED
    BY <1>1, <1>4, <2>1, <2>2, GateKept
<1> QED
  BY <1>8, <1>9, <1>10, <1>11, <1>12 DEF StressInv
-----------------------------------------------------------------------------
(***************************************************************************)
(* Starting the workers                                                    *)
(***************************************************************************)

\* Before the scheduler begins nobody has a session, and workers come up in turn.
LEMMA SpawnFacts ==
  ASSUME StressInv, run.stage \in Spawning
  PROVE  /\ \A u \in Vu : vu[u].call = "none" /\ vu[u].act = "none"
                          /\ vu[u].wire = "idle" /\ vu[u].ask = "none"
         /\ \A w \in Worker : worker[w].step \notin Counted
         /\ run.made = 0 /\ run.turn \in Worker /\ run.turn \in 1..Workers /\ ~run.private
         /\ ~run.tidy /\ run.outcome # "complete"
<1>1. ASSUME NEW u \in Vu
      PROVE  /\ vu[u].call = "none" /\ vu[u].act = "none"
             /\ vu[u].wire = "idle" /\ vu[u].ask = "none"
  <2>1. vu[u] \in VuState /\ VuSound(vu[u], worker[Home(u)], run, u)
    BY VuFacts
  <2>2. vu[u].call = "none"
    BY <2>1 DEF VuSound, Called, VuState, Spawning
  <2>3. vu[u].act = "none"
    BY <2>1 DEF VuSound, Housed
  <2> QED
    BY <2>1, <2>2, <2>3 DEF VuSound, Wired, Quiet
<1>2. \A w \in Worker : worker[w].step \notin Counted
  BY WorkerFacts DEF WorkerSound, Late, Spawning
<1>3. run.made = 0 /\ run.turn \in 1..Workers
  BY DEF StressInv, RunSound, Turned, Spawning, At
<1>4. ~run.private
  BY DEF StressInv, RunSound, Stepped, Spawning
<1>5. ~run.tidy /\ run.outcome # "complete"
  BY DEF StressInv, RunSound, Spawning, Late, At
<1> QED
  BY <1>1, <1>2, <1>3, <1>4, <1>5 DEF Worker

\* A step of the start, before the scheduler begins.
LEMMA SpawnSteps ==
  ASSUME StressInv, run.stage \in Spawning, run' \in RunState,
         run'.stage \in Spawning \cup {"setup", "over"}, run'.tidy = run.tidy,
         run'.private = run.private, run'.outcome # "complete", run.stopped => run'.stopped,
         Turned', Manned', worker' \in [Worker -> WorkerState],
         \A w \in Worker : worker'[w].step \notin Counted /\ WorkerSound(worker'[w], run'),
         vu' = vu, gate' = gate
  PROVE  StressInv'
<1>1. StressTypeOK'
  BY StateFacts DEF StressTypeOK
<1>2. AllVusSound'
  <2>1. ASSUME NEW u \in Vu
        PROVE  VuSound(vu[u], worker'[Home(u)], run', u)
    <3>1. /\ vu[u].call = "none" /\ vu[u].act = "none"
          /\ vu[u].wire = "idle" /\ vu[u].ask = "none"
      BY SpawnFacts
    <3>2. Called(vu[u], worker'[Home(u)], run', u)
      BY <3>1 DEF Called
    <3>3. Housed(vu[u], worker'[Home(u)], run', u)
      BY <3>1 DEF Housed, Quiet
    <3>4. Wired(vu[u], worker'[Home(u)], run')
      BY <3>1 DEF Wired
    <3> QED
      BY <3>2, <3>3, <3>4 DEF VuSound
  <2> QED
    BY <2>1 DEF AllVusSound, Home
<1>3. AllWorkersSound'
  BY DEF AllWorkersSound
<1>4. RunSound'
  <2>1. Stepped'
    <3>1. \A w \in Worker : worker'[w].step # "projected"
      BY DEF Counted
    <3>2. ~run'.private
      BY SpawnFacts
    <3> QED
      BY <3>1, <3>2 DEF Stepped, At, Spawning
  <2>2. ~run'.tidy /\ run'.stage # "teardown"
    BY SpawnFacts DEF Spawning
  <2> QED
    BY <2>1, <2>2 DEF RunSound, At
<1>5. GateSound'
  <2>1. Potential' = Potential
    BY DEF Potential
  <2> QED
    BY <2>1, GateKept
<1> QED
  BY <1>1, <1>2, <1>3, <1>4, <1>5 DEF StressInv

\* The next worker comes up.
LEMMA SpawnKeeps ==
  ASSUME StressInv, Spawn
  PROVE  StressInv'
<1> DEFINE w == run.turn
           p == worker[w]
           q == [p EXCEPT !.peer = "up", !.alive = TRUE]
<1>1. /\ run.stage = "spawn" /\ ~run.aborted /\ run' = Step("starting", w)
      /\ vu' = vu /\ gate' = gate
  BY DEF Spawn, At
<1>2. /\ w \in Worker /\ w \in 1..Workers /\ run.made = 0 /\ ~run.private /\ run.outcome # "complete"
      /\ p \in WorkerState /\ WorkerSound(p, run) /\ worker \in [Worker -> WorkerState]
      /\ p.step \notin Counted /\ run.stage \in Spawning
  BY <1>1, SpawnFacts, WorkerFacts DEF Spawning
<1>3. worker' = [worker EXCEPT ![w] = q]
  BY <1>2 DEF Spawn
<1>4. \A x \in Worker : worker[x].peer = IF x < w THEN "up" ELSE "none"
  BY <1>1, <1>2 DEF StressInv, RunSound, Manned, At, Passed
<1>5. p.peer = "none"
  BY <1>2, <1>4 DEF Worker
<1>6. /\ q \in WorkerState /\ q.peer = "up" /\ q.step = p.step /\ q.tainted = p.tainted
      /\ q.sent = p.sent /\ q.noted = p.noted /\ q.pending = p.pending
  BY <1>2 DEF WorkerState
<1> HIDE DEF q
<1>7. /\ run' \in RunState /\ run'.stage = "starting" /\ run'.turn = w
      /\ run'.stopped = run.stopped /\ run'.private = run.private /\ run'.outcome = run.outcome
      /\ run'.tidy = run.tidy /\ run'.made = run.made
  <2>1. "starting" \in Stages /\ w \in 1..Vus + 1
    BY <1>2, StressAssumption DEF Stages, Spawning
  <2> QED
    BY <1>1, <2>1, StepState
<1>8. /\ worker' \in [Worker -> WorkerState]
      /\ \A x \in Worker : worker'[x] = IF x = w THEN q ELSE worker[x]
  BY <1>2, <1>3, <1>6
<1>9. ASSUME NEW x \in Worker
      PROVE  worker'[x].step \notin Counted /\ WorkerSound(worker'[x], run')
  <2>1. CASE x = w
    <3>1. worker'[x] = q
      BY <1>8, <2>1
    <3>2. p.sent = p.noted + p.pending /\ p.noted \in Nat
      BY <1>2, <1>5 DEF WorkerSound, WorkerState
    <3> QED
      BY <1>2, <1>6, <1>7, <3>1, <3>2 DEF WorkerSound, Counted, Marked
  <2>2. CASE x # w
    <3>1. worker'[x] = worker[x] /\ WorkerSound(worker[x], run) /\ worker[x].step \notin Counted
      BY <1>2, <1>8, <2>2, WorkerFacts, SpawnFacts
    <3> QED
      BY <1>7, <3>1 DEF WorkerSound, Counted, Marked
  <2> QED
    BY <2>1, <2>2
<1>10. Turned'
  BY <1>2, <1>7 DEF Turned, At, Spawning
<1>11. Manned'
  <2>1. \A x \in Worker : worker'[x].peer = IF x < w \/ x = w THEN "up" ELSE "none"
    BY <1>4, <1>6, <1>8
  <2> QED
    BY <1>7, <2>1 DEF Manned, At, Spawning, Passed
<1> HIDE DEF w, p
<1> QED
  BY <1>1, <1>2, <1>7, <1>8, <1>9, <1>10, <1>11, SpawnSteps DEF Spawning

\* The scheduler begins when every worker is up, or accepts the abort at once.
LEMMA BegunState ==
  ASSUME NEW r \in RunState
  PROVE  /\ Begun(r) \in RunState /\ Begun(r).stage = "setup" /\ Begun(r).turn = 1
         /\ r.stopped \/ r.aborted <=> Begun(r).stopped
         /\ Begun(r).aborted = r.aborted
         /\ Begun(r).private = r.private /\ Begun(r).outcome = r.outcome
         /\ Begun(r).tidy = r.tidy /\ Begun(r).made = r.made
<1> DEFINE s == r.stopped \/ r.aborted
           m == r.marked \/ r.aborted
<1>1. Begun(r) = [r EXCEPT !.stage = "setup", !.turn = 1, !.stopped = s, !.marked = m]
  BY DEF Begun, RunState
<1>2. s \in BOOLEAN /\ m \in BOOLEAN /\ "setup" \in Stages /\ 1 \in 1..Vus + 1
  BY StressAssumption DEF Stages
<1> HIDE DEF s, m
<1>3. Begun(r) \in RunState /\ Begun(r).stopped = s
  <2> DEFINE o == [r EXCEPT !.stage = "setup", !.turn = 1]
  <2>1. o \in RunState
    BY <1>2 DEF RunState
  <2>2. Begun(r) = [o EXCEPT !.stopped = s, !.marked = m]
    BY <1>1
  <2> HIDE DEF o
  <2> QED
    BY <1>2, <2>1, <2>2 DEF RunState
<1>4. /\ Begun(r).stage = "setup" /\ Begun(r).turn = 1 /\ Begun(r).aborted = r.aborted
      /\ Begun(r).private = r.private /\ Begun(r).outcome = r.outcome
      /\ Begun(r).tidy = r.tidy /\ Begun(r).made = r.made
  BY <1>1 DEF RunState
<1> QED
  BY <1>3, <1>4 DEF s

\* The last worker that has started lets the scheduler begin.
LEMMA StartedKeeps ==
  ASSUME StressInv, Started
  PROVE  StressInv'
<1> DEFINE w == run.turn
           p == worker[w]
           q == [p EXCEPT !.step = "started"]
<1>1. /\ run.stage = "starting" /\ p.peer = "up" /\ p.alive /\ vu' = vu /\ gate' = gate
      /\ run' = IF w < Workers THEN Step("spawn", w + 1) ELSE Begun(run)
      /\ worker' = [worker EXCEPT ![w] = q]
  BY DEF Started, At, Serving, Up
<1>2. /\ w \in Worker /\ w \in 1..Workers /\ run.made = 0 /\ ~run.private /\ run.outcome # "complete"
      /\ p \in WorkerState /\ WorkerSound(p, run) /\ worker \in [Worker -> WorkerState]
      /\ p.step \notin Counted /\ run.stage \in Spawning /\ run \in RunState
  BY <1>1, SpawnFacts, WorkerFacts DEF Spawning
<1>3. ~run.aborted => \A x \in Worker : worker[x].peer = IF x < w \/ x = w THEN "up" ELSE "none"
  BY <1>1, <1>2 DEF StressInv, RunSound, Manned, At, Passed
<1>4. /\ q \in WorkerState /\ q.peer = p.peer /\ q.step = "started" /\ q.tainted = p.tainted
      /\ q.sent = p.sent /\ q.noted = p.noted /\ q.pending = p.pending /\ q.alive = p.alive
  BY <1>2 DEF WorkerState
<1> HIDE DEF q
<1>5. /\ run' \in RunState /\ run'.private = run.private /\ run'.outcome = run.outcome
      /\ run'.tidy = run.tidy /\ run'.made = run.made /\ run'.aborted = run.aborted
      /\ run.stopped => run'.stopped
      /\ w < Workers => run'.stage = "spawn" /\ run'.turn = w + 1
      /\ ~(w < Workers) => run'.stage = "setup" /\ run'.turn = 1 /\ (run.aborted => run'.stopped)
  <2>1. CASE w < Workers
    <3>1. "spawn" \in Stages /\ w + 1 \in 1..Vus + 1
      BY <1>2, <2>1, StressAssumption DEF Stages, Spawning
    <3>2. run' = Step("spawn", w + 1)
      BY <1>1, <2>1
    <3> HIDE DEF w
    <3> QED
      BY <2>1, <3>1, <3>2, StepState
  <2>2. CASE ~(w < Workers)
    <3>1. run' = Begun(run)
      BY <1>1, <2>2
    <3> QED
      BY <1>2, <2>2, <3>1, BegunState
  <2> QED
    BY <2>1, <2>2
<1>6. /\ worker' \in [Worker -> WorkerState]
      /\ \A x \in Worker : worker'[x] = IF x = w THEN q ELSE worker[x]
  BY <1>1, <1>2, <1>4
<1>7. run'.stage \in {"spawn", "setup"}
  BY <1>5
<1>8. ASSUME NEW x \in Worker
      PROVE  worker'[x].step \notin Counted /\ WorkerSound(worker'[x], run')
  <2>1. CASE x = w
    <3>1. worker'[x] = q
      BY <1>6, <2>1
    <3> QED
      BY <1>1, <1>2, <1>4, <1>7, <3>1 DEF WorkerSound, Counted, Marked
  <2>2. CASE x # w
    <3>1. worker'[x] = worker[x] /\ WorkerSound(worker[x], run) /\ worker[x].step \notin Counted
      BY <1>2, <1>6, <2>2, WorkerFacts, SpawnFacts
    <3> QED
      BY <1>7, <3>1 DEF WorkerSound, Counted, Marked
  <2> QED
    BY <2>1, <2>2
<1>9. Turned'
  <2>1. run'.stage = "spawn" => run'.turn \in 1..Workers
    BY <1>2, <1>5, StressAssumption
  <2>2. run'.turn \in Nat
    BY <1>2, <1>5
  <2> QED
    BY <1>2, <1>5, <1>7, <2>1, <2>2 DEF Turned, At, Spawning
<1>10. Manned'
  <2>1. \A x \in Worker : worker'[x].peer = worker[x].peer
    BY <1>4, <1>6
  <2>2. CASE w < Workers
    <3>1. \A x \in Worker : x < w + 1 <=> x < w \/ x = w
      BY <1>2 DEF Worker
    <3> QED
      BY <1>3, <1>5, <2>1, <2>2, <3>1 DEF Manned, At, Spawning, Passed
  <2>3. CASE ~(w < Workers)
    <3>1. \A x \in Worker : x < w \/ x = w
      BY <1>2, <2>3, StressAssumption DEF Worker
    <3> QED
      BY <1>3, <1>5, <2>1, <2>3, <3>1 DEF Manned, At, Spawning, Up
  <2> QED
    BY <2>2, <2>3
<1> HIDE DEF w, p
<1> QED
  BY <1>1, <1>2, <1>5, <1>6, <1>7, <1>8, <1>9, <1>10, SpawnSteps DEF Spawning

\* A start that fails ends the run, or lets it begin stopped.
LEMMA SpawnFailsKeeps ==
  ASSUME StressInv, SpawnFails
  PROVE  StressInv'
<1>1. run.stage \in Spawning /\ vu' = vu /\ gate' = gate /\ run \in RunState
  BY StateFacts DEF SpawnFails, At, Spawning
<1>2. /\ run.made = 0 /\ ~run.private /\ run.outcome # "complete" /\ ~run.tidy
      /\ \A w \in Worker : worker[w].step \notin Counted /\ WorkerSound(worker[w], run)
  BY <1>1, SpawnFacts, WorkerFacts
<1>3. CASE run.legacy
  <2> DEFINE a == [run EXCEPT !.aborted = TRUE]
             r == Begun(a)
  <2>1. /\ run' = [r EXCEPT !.failures = TRUE]
        /\ worker' = IF run.aborted THEN worker ELSE Told(worker, Worker)
    BY <1>3 DEF SpawnFails
  <2>2. /\ a \in RunState /\ a.aborted /\ a.stopped = run.stopped /\ a.private = run.private
        /\ a.outcome = run.outcome /\ a.tidy = run.tidy /\ a.made = run.made
    BY <1>1 DEF RunState
  <2> HIDE DEF a
  <2>3. /\ r \in RunState /\ r.stage = "setup" /\ r.turn = 1 /\ r.stopped /\ r.private = run.private
        /\ r.outcome = run.outcome /\ r.tidy = run.tidy /\ r.made = run.made
    BY <2>2, BegunState
  <2> HIDE DEF r
  <2>4. /\ run' \in RunState /\ run'.stage = "setup" /\ run'.turn = 1 /\ run'.stopped
        /\ run'.private = run.private /\ run'.outcome = run.outcome /\ run'.tidy = run.tidy
        /\ run'.made = run.made
    BY <2>1, <2>3 DEF RunState
  <2>5. worker' \in [Worker -> WorkerState] /\ \A w \in Worker : SameReport(worker[w], worker'[w])
    BY <2>1, ToldState, StateFacts, NobodyMoves
  <2>6. ASSUME NEW w \in Worker
        PROVE  worker'[w].step \notin Counted /\ WorkerSound(worker'[w], run')
    <3>1. SameReport(worker[w], worker'[w]) /\ WorkerSound(worker[w], run) /\ worker[w].step \notin Counted
      BY <1>2, <2>5
    <3> QED
      BY <2>4, <3>1 DEF SameReport, SameWorker, WorkerSound, Counted, Marked
  <2>7. Turned' /\ Manned'
    BY <1>2, <2>4 DEF Turned, Manned, At, Spawning
  <2> QED
    BY <1>1, <1>2, <2>4, <2>5, <2>6, <2>7, SpawnSteps
<1>4. CASE ~run.legacy
  <2>1. /\ run' = [run EXCEPT !.stage = "over", !.outcome = "failed"]
        /\ worker' = [w \in Worker |-> [worker[w] EXCEPT !.alive = FALSE, !.stopping = FALSE]]
    BY <1>4 DEF SpawnFails
  <2>2. run.turn \in Nat /\ "over" \in Stages
    BY <1>1, StressAssumption DEF RunState, Stages
  <2>3. /\ run' \in RunState /\ run'.stage = "over" /\ run'.turn = run.turn
        /\ run'.stopped = run.stopped /\ run'.private = run.private /\ run'.outcome = "failed"
        /\ run'.tidy = run.tidy /\ run'.made = run.made
    BY <1>1, <2>1, <2>2 DEF RunState
  <2>4. ASSUME NEW w \in Worker
        PROVE  /\ worker'[w] \in WorkerState /\ worker'[w].step \notin Counted
               /\ WorkerSound(worker'[w], run')
    <3> DEFINE p == worker[w]
               q == [p EXCEPT !.alive = FALSE, !.stopping = FALSE]
    <3>1. p \in WorkerState /\ worker'[w] = q
      BY <2>1, StateFacts
    <3>2. /\ q \in WorkerState /\ ~q.alive /\ q.peer = p.peer /\ q.step = p.step
          /\ q.sent = p.sent /\ q.noted = p.noted /\ q.pending = p.pending
      BY <3>1 DEF WorkerState
    <3>3. WorkerSound(p, run) /\ p.step \notin Counted
      BY <1>2
    <3> HIDE DEF q
    <3>4. WorkerSound(q, run')
      BY <3>2, <3>3 DEF WorkerSound, Counted, Marked
    <3> QED
      BY <3>1, <3>2, <3>3, <3>4
  <2>5. worker' \in [Worker -> WorkerState]
    BY <2>1, <2>4
  <2>6. Turned' /\ Manned'
    BY <1>2, <2>2, <2>3 DEF Turned, Manned, At, Spawning
  <2> QED
    BY <1>1, <1>2, <2>3, <2>4, <2>5, <2>6, SpawnSteps
<1> QED
  BY <1>3, <1>4
-----------------------------------------------------------------------------
(***************************************************************************)
(* Failures                                                                *)
(***************************************************************************)

\* What a dead worker had on the wire is gone, its permits are still held.
LEMMA DieKeeps ==
  ASSUME StressInv, NEW w \in Worker, Die(w)
  PROVE  StressInv'
<1> DEFINE p == worker[w]
           q == [p EXCEPT !.alive = FALSE, !.stopping = FALSE, !.pending = 0]
<1>1. /\ p.alive /\ run.faults < MaxFaults /\ run' = [run EXCEPT !.faults = @ + 1] /\ gate' = gate
      /\ worker' = [worker EXCEPT ![w] = q]
      /\ vu' = [v \in Vu |-> IF Home(v) = w THEN [vu[v] EXCEPT !.wire = "idle"] ELSE vu[v]]
  BY DEF Die
<1>2. p \in WorkerState /\ WorkerSound(p, run) /\ worker \in [Worker -> WorkerState] /\ run \in RunState
  BY WorkerFacts
<1>3. /\ q.peer = p.peer /\ ~q.alive /\ q.step = p.step /\ q.tainted = p.tainted /\ q.sent = p.sent
      /\ q.noted = p.noted /\ q.pending = 0 /\ q.merged = p.merged /\ q.known = p.known
  BY <1>2 DEF WorkerState
<1>4. q \in WorkerState
  <2> DEFINE o == [p EXCEPT !.alive = FALSE, !.stopping = FALSE]
  <2>1. o \in WorkerState
    BY <1>2 DEF WorkerState
  <2>2. q = [o EXCEPT !.pending = 0]
    OBVIOUS
  <2> HIDE DEF o
  <2> QED
    BY <2>1, <2>2 DEF WorkerState
<1> HIDE DEF q
<1>5. run' \in RunState
  <2>1. run.faults + 1 \in 0..MaxFaults
    BY <1>1, <1>2, StressAssumption DEF RunState
  <2> QED
    BY <1>1, <1>2, <2>1 DEF RunState
<1>6. /\ SameStage(run, run') /\ run'.stopped = run.stopped
      /\ run'.aborted = run.aborted /\ run'.marked = run.marked /\ run'.private = run.private
      /\ run'.outcome = run.outcome
  BY <1>1, <1>2 DEF RunState, SameStage
<1>7. /\ worker' \in [Worker -> WorkerState]
      /\ \A x \in Worker : worker'[x] = IF x = w THEN q ELSE worker[x]
  BY <1>1, <1>2, <1>4
<1>8. ASSUME NEW u \in Vu
      PROVE  /\ vu'[u] \in VuState /\ vu'[u].call = vu[u].call /\ vu'[u].act = vu[u].act
             /\ vu'[u].ask = vu[u].ask
             /\ vu'[u].wire = IF Home(u) = w THEN "idle" ELSE vu[u].wire
  <2>1. vu'[u] = IF Home(u) = w THEN [vu[u] EXCEPT !.wire = "idle"] ELSE vu[u]
    BY <1>1
  <2>2. vu[u] \in VuState
    BY VuFacts
  <2> QED
    BY <2>1, <2>2 DEF VuState
<1>9. StressTypeOK'
  <2>1. vu' \in [Vu -> VuState]
    BY <1>1, <1>8
  <2> QED
    BY <1>1, <1>5, <1>7, <2>1, StateFacts DEF StressTypeOK
<1>10. AllVusSound'
  <2>1. ASSUME NEW u \in Vu
        PROVE  VuSound(vu'[u], worker'[Home(u)], run', u)
    <3> DEFINE x == vu[u]
               y == vu'[u]
               a == worker[Home(u)]
               b == worker'[Home(u)]
    <3>1. VuSound(x, a, run, u) /\ Home(u) \in Worker
      BY VuFacts
    <3>2. /\ y.call = x.call /\ y.act = x.act /\ y.ask = x.ask
          /\ y.wire = IF Home(u) = w THEN "idle" ELSE x.wire
      BY <1>8
    <3>3. /\ b.peer = a.peer /\ b.step = a.step
          /\ Home(u) = w => ~b.alive
          /\ Home(u) # w => b.alive = a.alive
      BY <1>3, <1>7, <3>1
    <3> HIDE DEF y, b
    <3>4. Called(y, b, run', u)
      BY <1>6, <3>1, <3>2, <3>3 DEF VuSound, Called, SameStage
    <3>5. Housed(y, b, run', u)
      BY <1>6, <3>1, <3>2, <3>3 DEF VuSound, Housed, SameStage
    <3>6. Wired(y, b, run')
      BY <1>6, <3>1, <3>2, <3>3 DEF VuSound, Wired, SameStage
    <3> QED
      BY <3>4, <3>5, <3>6 DEF VuSound, y, b
  <2> QED
    BY <2>1 DEF AllVusSound, Home
<1>11. AllWorkersSound'
  <2>1. ASSUME NEW x \in Worker
        PROVE  WorkerSound(worker'[x], run')
    <3>1. CASE x = w
      <4>1. worker'[x] = q
        BY <1>7, <3>1
      <4>2. p.peer # "none"
        BY <1>1, <1>2 DEF WorkerSound
      <4> QED
        BY <1>2, <1>3, <1>6, <4>1, <4>2 DEF WorkerSound, SameStage
    <3>2. CASE x # w
      <4>1. worker'[x] = worker[x] /\ WorkerSound(worker[x], run)
        BY <1>7, <3>2, WorkerFacts
      <4> QED
        BY <1>6, <4>1 DEF WorkerSound, SameStage
    <3> QED
      BY <3>1, <3>2
  <2> QED
    BY <2>1 DEF AllWorkersSound
<1>12. RunSound'
  <2>1. \A x \in Worker : /\ worker'[x].peer = worker[x].peer /\ worker'[x].step = worker[x].step
                          /\ worker'[x].merged = worker[x].merged /\ worker'[x].sent = worker[x].sent
                          /\ worker'[x].tainted = worker[x].tainted
    BY <1>3, <1>7
  <2> QED
    BY <1>5, <1>6, <2>1, RunStands
<1>13. GateSound'
  <2>1. Potential' \subseteq Potential
    BY <1>8 DEF Potential
  <2>2. \A u \in Vu : vu'[u].ask = vu[u].ask
    BY <1>8
  <2> QED
    BY <1>1, <1>6, <2>1, <2>2, GateKept
<1> QED
  BY <1>9, <1>10, <1>11, <1>12, <1>13 DEF StressInv

\* Who is next in the line has no permit yet.
LEMMA LuckyWait ==
  ASSUME StressInv, NEW w \in Worker
  PROVE  /\ Lucky(w) \in SUBSET (Vu \ Hold) /\ Leased(w) \in SUBSET Hold
         /\ \A u \in Lucky(w) : vu[u].ask = "waiting" /\ Home(u) # w
<1>1. ToSet(gate.line) \subseteq Vu
  BY StateFacts, LineMoves
<1>2. \A u \in Lucky(w) : u \in ToSet(gate.line) /\ u \notin VusOf(w)
  BY DEF Lucky
<1>3. \A u \in Lucky(w) : u \in Vu /\ vu[u].ask = "waiting" /\ Home(u) # w
  BY <1>1, <1>2, StateFacts DEF VusOf
<1> QED
  BY <1>3 DEF Hold, Leased, VusOf

\* When no VU is under way, none has a permit of a worker that is trusted.
LEMMA NobodyLeased ==
  ASSUME StressInv, NEW w \in Worker, worker[w].peer = "up",
         run.stage \in Spawning \cup {"finish", "over"}
  PROVE  Leased(w) = {} /\ Lucky(w) = {}
<1>1. \A u \in Vu : vu[u].ask \in {"none", "admitted", "entered"}
  BY SpawnFacts, LateFacts DEF Late
<1>2. ToSet(gate.line) = {}
  <2>1. ToSet(gate.line) \subseteq Vu
    BY StateFacts, LineMoves
  <2> QED
    BY <1>1, <2>1, StateFacts
<1> QED
  BY <1>1, <1>2 DEF Leased, VusOf, Lucky

\* The permits of a worker that fails go to others while its requests may still be
\* on the wire: from then on nobody new gets there, for the run is stopped.
LEMMA PeerFailsKeeps ==
  ASSUME StressInv, NEW w \in Worker, NEW faults \in {0, 1}, worker[w].peer = "up",
         run.faults + faults \in 0..MaxFaults, PeerFails(w, faults)
  PROVE  StressInv'
<1> DEFINE called(c) == \E v \in VusOf(w) : vu[v].call = c
           a == AbortedRun(run)
           stage == IF called("create") THEN "drain" ELSE run.stage
           turn == IF called("close") THEN run.turn + 1 ELSE run.turn
           p == worker[w]
           q == [p EXCEPT !.peer = "failed"]
           ws == Told(worker, Worker \ {w})
           y(v) == IF Home(v) = w
                   THEN [vu[v] EXCEPT !.call = "none",
                                      !.ask = IF @ \in {"admitted", "entered"} THEN @ ELSE "none"]
                   ELSE IF v \in Lucky(w) THEN [vu[v] EXCEPT !.ask = "admitted"]
                   ELSE IF v \in ToSet(gate.line) THEN [vu[v] EXCEPT !.ask = "refused"]
                   ELSE vu[v]
<1>1. /\ a \in RunState /\ FlagsAtMost(run, a) /\ a.aborted
      /\ run.stage \notin Spawning \cup {"finish", "over"} => a.stopped
      /\ run.stage \in Spawning \cup {"finish", "over"} => a.stopped = run.stopped
      /\ a.faults = run.faults /\ a.stage = run.stage /\ a.turn = run.turn
  BY AbortedRunState DEF FlagsAtMost, SameStage
<1>2. /\ run' = [a EXCEPT !.failures = TRUE, !.faults = run.faults + faults,
                          !.turn = turn, !.stage = stage]
      /\ worker' = [ws EXCEPT ![w].peer = "failed"]
      /\ vu' = [v \in Vu |-> y(v)]
      /\ gate' = [held |-> HeldWithout(w), line |-> <<>>]
  <2>1. run' = [a EXCEPT !.failures = TRUE, !.faults = @ + faults,
                         !.turn = IF called("close") THEN @ + 1 ELSE @,
                         !.stage = IF called("create") THEN "drain" ELSE @]
    BY DEF PeerFails
  <2> HIDE DEF a, called
  <2>2. run' = [a EXCEPT !.failures = TRUE, !.faults = run.faults + faults,
                         !.turn = turn, !.stage = stage]
    BY <1>1, <2>1
  <2> QED
    BY <2>2 DEF PeerFails, called
<1>3. /\ called("create") => run.stage = "create" /\ \E v \in Vu : Home(v) = w /\ v = run.made + 1
      /\ called("close") => /\ run.stage = "closing" /\ run.turn \in Vu /\ Home(run.turn) = w
                            /\ run.turn <= run.made
  <2>1. \A v \in VusOf(w) : v \in Vu /\ Home(v) = w
    BY DEF VusOf
  <2>2. \A v \in Vu : Called(vu[v], worker[Home(v)], run, v)
    BY VuFacts DEF VuSound
  <2> QED
    BY <2>1, <2>2 DEF Called
<1>4. run \in RunState /\ run.turn \in 1..Vus + 1 /\ run.made \in 0..Vus /\ run.stage \in Stages
  BY StateFacts DEF RunState
<1>5. turn \in 1..Vus + 1 /\ stage \in Stages
  <2>1. turn \in 1..Vus + 1
    BY <1>3, <1>4, StressAssumption
  <2>2. stage \in Stages
    BY <1>4 DEF Stages
  <2> QED
    BY <2>1, <2>2
<1>6. /\ stage = run.stage \/ (run.stage = "create" /\ stage = "drain" /\ called("create"))
      /\ turn = run.turn \/ (run.stage = "closing" /\ turn = run.turn + 1 /\ called("close"))
      /\ called("create") => stage = "drain"
      /\ run.stage # "create" => stage = run.stage
      /\ run.stage # "closing" => turn = run.turn
  BY <1>3
<1> HIDE DEF called, a, stage, turn
<1>7. /\ run' \in RunState /\ run'.stage = stage /\ run'.turn = turn /\ run'.stopped = a.stopped
      /\ run'.aborted = a.aborted /\ run'.marked = a.marked /\ run'.private = a.private
      /\ run'.outcome = a.outcome /\ run'.tidy = a.tidy /\ run'.made = a.made
  <2> DEFINE f == run.faults + faults
  <2>1. /\ f \in 0..MaxFaults
        /\ run' = [a EXCEPT !.failures = TRUE, !.faults = f, !.turn = turn, !.stage = stage]
    BY <1>2
  <2> HIDE DEF f
  <2> QED
    BY <1>1, <1>5, <2>1 DEF RunState
<1>8. /\ run.stopped => run'.stopped
      /\ run.marked => run'.marked
      /\ run'.private = run.private /\ run'.outcome = run.outcome
      /\ run'.tidy = run.tidy /\ run'.made = run.made /\ run'.aborted
      /\ run.stage \notin Spawning \cup {"finish", "over"} => run'.stopped
  BY <1>1, <1>7 DEF FlagsAtMost, SameStage
<1>9. p \in WorkerState /\ WorkerSound(p, run) /\ worker \in [Worker -> WorkerState]
  BY WorkerFacts
<1>10. /\ q \in WorkerState /\ q.peer = "failed" /\ q.alive = p.alive /\ q.step = p.step
       /\ q.tainted = p.tainted /\ q.sent = p.sent /\ q.noted = p.noted /\ q.pending = p.pending
       /\ q.merged = p.merged /\ q.known = p.known
  BY <1>9 DEF WorkerState
<1>11. /\ ws \in [Worker -> WorkerState] /\ \A x \in Worker : SameReport(worker[x], ws[x])
       /\ ws[w] = p
  BY ToldState DEF Told
<1>12. /\ worker' \in [Worker -> WorkerState] /\ worker'[w] = q
       /\ \A x \in Worker \ {w} : SameReport(worker[x], worker'[x])
  <2> HIDE DEF ws, q, p
  <2>1. worker' = [ws EXCEPT ![w] = q]
    BY <1>2, <1>11 DEF q
  <2> QED
    BY <1>10, <1>11, <2>1
<1> HIDE DEF ws, q
<1>13. \A u \in Lucky(w) : u \in Vu /\ vu[u].ask = "waiting" /\ Home(u) # w
  BY LuckyWait
<1>14. ASSUME NEW u \in Vu
       PROVE  /\ vu'[u] = y(u) /\ y(u) \in VuState /\ y(u).wire = vu[u].wire /\ y(u).act = vu[u].act
              /\ Home(u) = w =>
                   /\ y(u).call = "none"
                   /\ y(u).ask = IF vu[u].ask \in {"admitted", "entered"} THEN vu[u].ask ELSE "none"
              /\ Home(u) # w => Moved(vu[u], y(u)) /\ y(u).call = vu[u].call
              /\ y(u).ask # "waiting"
              /\ Home(u) # w /\ u \in Lucky(w) => y(u).ask = "admitted"
              /\ Home(u) # w /\ u \notin Lucky(w) /\ vu[u].ask = "waiting" => y(u).ask = "refused"
              /\ Home(u) # w /\ vu[u].ask # "waiting" => y(u) = vu[u]
  <2>1. vu[u] \in VuState /\ (vu[u].ask = "waiting" <=> u \in ToSet(gate.line)) /\ vu'[u] = y(u)
    BY <1>2, StateFacts
  <2>2. CASE Home(u) = w
    <3>1. y(u) = [vu[u] EXCEPT !.call = "none",
                    !.ask = IF vu[u].ask \in {"admitted", "entered"} THEN vu[u].ask ELSE "none"]
      BY <2>1, <2>2
    <3> DEFINE b == IF vu[u].ask \in {"admitted", "entered"} THEN vu[u].ask ELSE "none"
    <3>2. b \in {"admitted", "entered", "none"} /\ y(u) = [vu[u] EXCEPT !.call = "none", !.ask = b]
      BY <3>1
    <3> HIDE DEF b, y
    <3>3. /\ y(u) \in VuState /\ y(u).wire = vu[u].wire /\ y(u).act = vu[u].act /\ y(u).call = "none"
          /\ y(u).ask = b
      BY <2>1, <3>2 DEF VuState
    <3> QED
      BY <2>1, <2>2, <3>2, <3>3 DEF b
  <2>3. CASE Home(u) # w
    <3>1. y(u) = IF u \in Lucky(w) THEN [vu[u] EXCEPT !.ask = "admitted"]
                 ELSE IF vu[u].ask = "waiting" THEN [vu[u] EXCEPT !.ask = "refused"] ELSE vu[u]
      BY <2>1, <2>3
    <3>2. u \in Lucky(w) => vu[u].ask = "waiting"
      BY <1>13
    <3> HIDE DEF y
    <3>3. Moved(vu[u], y(u)) /\ y(u).ask # "waiting"
      BY <2>1, <3>1, <3>2 DEF Moved, VuState
    <3>4. /\ y(u) \in VuState /\ y(u).wire = vu[u].wire /\ y(u).act = vu[u].act
          /\ y(u).call = vu[u].call
      BY <2>1, <3>3, MovedState
    <3>5. /\ u \in Lucky(w) => y(u).ask = "admitted"
          /\ u \notin Lucky(w) /\ vu[u].ask = "waiting" => y(u).ask = "refused"
          /\ vu[u].ask # "waiting" => y(u) = vu[u]
      BY <2>1, <3>1, <3>2 DEF VuState
    <3> QED
      BY <2>1, <2>3, <3>3, <3>4, <3>5
  <2> HIDE DEF y
  <2> QED
    BY <2>2, <2>3
<1>15. vu' \in [Vu -> VuState] /\ \A u \in Vu : vu'[u] = y(u)
  <2>1. vu' = [v \in Vu |-> y(v)] /\ \A v \in Vu : y(v) \in VuState
    BY <1>2, <1>14
  <2> HIDE DEF y
  <2> QED
    BY <2>1
<1> HIDE DEF y
<1>16. AllVusSound'
  <2>1. ASSUME NEW u \in Vu
        PROVE  VuSound(vu'[u], worker'[Home(u)], run', u)
    <3> DEFINE x == vu[u]
               o == worker[Home(u)]
    <3>1. /\ Home(u) \in Worker /\ o \in WorkerState /\ x \in VuState /\ VuSound(x, o, run, u)
          /\ vu'[u] = y(u) /\ u \in Nat
      BY <1>15, VuFacts, StressAssumption DEF Vu
    <3>2. CASE Home(u) = w
      <4>1. /\ y(u).call = "none" /\ y(u).wire = x.wire /\ y(u).act = x.act
            /\ y(u).ask \in {"none", "admitted", "entered"}
            /\ x.ask = "none" => y(u).ask = "none"
        BY <1>14, <3>2
      <4>2. worker'[Home(u)] = q /\ o = p
        BY <1>12, <3>2
      <4>3. Called(y(u), q, run', u)
        BY <4>1 DEF Called
      <4>4. Housed(y(u), q, run', u)
        BY <1>6, <1>7, <1>8, <1>10, <3>1, <4>1, <4>2 DEF VuSound, Housed, Spawning
      <4>5. Wired(y(u), q, run')
        <5>1. ASSUME x.wire = "sending"
              PROVE  run'.stopped
          <6>1. run.stage \notin Spawning \cup {"finish", "over"}
            BY <3>1, <4>2, <5>1, SpawnFacts, LateFacts DEF Late
          <6> QED
            BY <1>8, <6>1
        <5> QED
          BY <1>10, <3>1, <4>1, <4>2, <5>1 DEF VuSound, Wired
      <4> QED
        BY <3>1, <4>2, <4>3, <4>4, <4>5 DEF VuSound
    <3>3. CASE Home(u) # w
      <4>1. /\ Moved(x, y(u)) /\ y(u).ask # "waiting" /\ y(u).call = x.call /\ y(u) \in VuState
            /\ y(u).act = x.act
        BY <1>14, <3>3
      <4>2. worker'[Home(u)] \in WorkerState /\ SameWorker(o, worker'[Home(u)])
        BY <1>12, <3>1, <3>3 DEF SameReport
      <4>3. VuSound(y(u), worker'[Home(u)], run, u)
        <5>1. StopsAtMost(run, run)
          BY DEF StopsAtMost, SameStage
        <5> QED
          BY <1>4, <3>1, <4>1, <4>2, <5>1, VuCarried
      <4>4. run'.stage = run.stage \/ (run.stage = "create" /\ run'.stage = "drain" /\ y(u).call = "none")
        <5>1. called("create") => y(u).call = "none"
          <6>1. called("create") => run.stage = "create" /\ u # run.made + 1
            BY <1>3, <3>3
          <6> QED
            BY <4>1, <4>3, <6>1 DEF VuSound, Called, VuState
        <5> QED
          BY <1>6, <1>7, <5>1
      <4>5. run'.turn = run.turn \/ (/\ run.stage = "closing" /\ run'.turn = run.turn + 1
                                     /\ u # run.turn /\ y(u).call = "none")
        <5>1. called("close") => y(u).call = "none" /\ u # run.turn
          <6>1. called("close") => run.stage = "closing" /\ u # run.turn
            BY <1>3, <3>3
          <6> QED
            BY <4>1, <4>3, <6>1 DEF VuSound, Called, VuState
        <5> QED
          BY <1>6, <1>7, <5>1
      <4>6. Called(y(u), worker'[Home(u)], run', u)
        BY <1>8, <4>3, <4>4, <4>5 DEF VuSound, Called
      <4>7. Housed(y(u), worker'[Home(u)], run', u)
        <5>1. u < run'.turn /\ run.stage = "closing" => u < run.turn
          <6>1. run.turn \in Nat
            BY <1>4, StressAssumption
          <6> QED
            BY <3>1, <4>5, <6>1
        <5>2. run'.stage = "closing" => run.stage = "closing"
          BY <4>4
        <5> QED
          BY <1>8, <4>3, <4>4, <5>1, <5>2 DEF VuSound, Housed, Late, Spawning
      <4>8. Wired(y(u), worker'[Home(u)], run')
        BY <1>8, <4>1, <4>3 DEF VuSound, Wired
      <4> QED
        BY <3>1, <4>6, <4>7, <4>8 DEF VuSound
    <3> QED
      BY <3>2, <3>3
  <2> QED
    BY <2>1 DEF AllVusSound, Home
<1>17. AllWorkersSound'
  <2>1. ASSUME NEW x \in Worker
        PROVE  WorkerSound(worker'[x], run')
    <3>1. WorkerSound(worker[x], run)
      BY WorkerFacts
    <3>2. /\ worker'[x].alive = worker[x].alive /\ worker'[x].step = worker[x].step
          /\ worker'[x].tainted = worker[x].tainted /\ worker'[x].sent = worker[x].sent
          /\ worker'[x].noted = worker[x].noted /\ worker'[x].pending = worker[x].pending
          /\ worker'[x].merged = worker[x].merged /\ worker'[x].known = worker[x].known
          /\ worker'[x].peer \in {worker[x].peer, "failed"}
      BY <1>10, <1>12 DEF SameReport, SameWorker
    <3>3. run'.stage = run.stage \/ (run.stage = "create" /\ run'.stage = "drain")
      BY <1>6, <1>7
    <3> QED
      BY <1>8, <3>1, <3>2, <3>3 DEF WorkerSound, Late, Private
  <2> QED
    BY <2>1 DEF AllWorkersSound
<1>18. RunSound'
  <2>1. Turned'
    <3>1. run.turn \in Nat /\ turn \in Nat /\ run.made \in Nat
      BY <1>4, <1>5, StressAssumption
    <3>2. CASE stage = run.stage /\ turn = run.turn
      BY <1>7, <1>8, <3>2 DEF StressInv, RunSound, Turned, At
    <3>3. CASE run.stage = "create" /\ stage = "drain"
      BY <1>7, <3>1, <3>3 DEF Turned, At, Spawning
    <3>4. CASE run.stage = "closing" /\ turn = run.turn + 1 /\ called("close")
      BY <1>3, <1>6, <1>7, <1>8, <3>1, <3>4 DEF Turned, At, Spawning
    <3> QED
      BY <1>6, <3>2, <3>3, <3>4
  <2>2. Manned'
    <3>1. run'.stage \notin Spawning \cup {"finish", "over"} =>
            run.stage \notin Spawning \cup {"finish", "over"}
      BY <1>6, <1>7 DEF Spawning
    <3> QED
      BY <1>8, <3>1 DEF Manned
  <2>3. \A x \in Worker : /\ worker'[x].step = worker[x].step /\ worker'[x].tainted = worker[x].tainted
                          /\ worker'[x].sent = worker[x].sent /\ worker'[x].merged = worker[x].merged
    BY <1>10, <1>12 DEF SameReport, SameWorker
  <2>4. Stepped'
    <3>1. CASE run.stage \in {"create", "closing"}
      <4>1. \A x \in Worker : worker[x].step # "projected"
        BY <3>1, UnmarkedFacts DEF Private
      <4>2. ~run'.private
        BY <1>8, <3>1, UnmarkedFacts DEF Private
      <4> QED
        BY <1>6, <1>7, <2>3, <3>1, <4>1, <4>2 DEF Stepped, At
    <3>2. CASE run.stage \notin {"create", "closing"}
      <4>1. run'.stage = run.stage /\ run'.turn = run.turn
        BY <1>6, <1>7, <3>2
      <4> QED
        BY <1>8, <2>3, <4>1 DEF StressInv, RunSound, Stepped, At, Passed
    <3> QED
      BY <3>1, <3>2
  <2>5. /\ run'.tidy => run'.stage \in Late
        /\ run'.stage = "teardown" => run'.tidy
    <3>1. (run.tidy => run.stage \in Late) /\ (run.stage = "teardown" => run.tidy)
      BY DEF StressInv, RunSound, At
    <3> QED
      BY <1>6, <1>7, <1>8, <3>1 DEF Late
  <2>6. run'.outcome = "complete" => CompleteIsWhole' /\ run'.private /\ run'.stage = "over"
    <3>1. run.outcome = "complete" => CompleteIsWhole /\ run.private /\ run.stage = "over"
      BY DEF StressInv, RunSound, At
    <3> QED
      BY <1>6, <1>7, <1>8, <2>3, <3>1 DEF CompleteIsWhole
  <2> QED
    BY <2>1, <2>2, <2>4, <2>5, <2>6 DEF RunSound, At
<1>19. /\ Hold' = (Hold \ Leased(w)) \cup Lucky(w)
       /\ Potential' \subseteq Potential
  <2>1. ASSUME NEW u \in Vu
        PROVE  /\ u \in Hold' <=> u \in (Hold \ Leased(w)) \cup Lucky(w)
               /\ u \in Potential' => u \in Potential
    <3>1. /\ u \in Hold' <=> y(u).ask \in {"admitted", "entered", "leased"}
          /\ u \in Hold <=> vu[u].ask \in {"admitted", "entered", "leased"}
          /\ u \in Potential' <=> y(u).wire = "sending" \/ y(u).ask \in {"entered", "leased"}
          /\ u \in Potential <=> vu[u].wire = "sending" \/ vu[u].ask \in {"entered", "leased"}
      BY <1>15 DEF Hold, Potential
    <3>2. CASE Home(u) = w
      <4>1. y(u).ask = IF vu[u].ask \in {"admitted", "entered"} THEN vu[u].ask ELSE "none"
        BY <1>14, <3>2
      <4>2. u \notin Lucky(w) /\ (u \in Leased(w) <=> vu[u].ask = "leased")
        BY <1>13, <3>2 DEF Leased, VusOf
      <4>3. y(u).wire = vu[u].wire
        BY <1>14
      <4> QED
        BY <3>1, <4>1, <4>2, <4>3
    <3>3. CASE Home(u) # w
      <4>1. u \notin Leased(w)
        BY <3>3 DEF Leased, VusOf
      <4>2. /\ u \in Lucky(w) => y(u).ask = "admitted"
            /\ u \notin Lucky(w) /\ vu[u].ask = "waiting" => y(u).ask = "refused"
            /\ vu[u].ask # "waiting" => y(u) = vu[u]
            /\ y(u).wire = vu[u].wire
        BY <1>14, <3>3
      <4>3. u \in Lucky(w) => vu[u].ask = "waiting"
        BY <1>13
      <4> QED
        BY <3>1, <4>1, <4>2, <4>3
    <3> QED
      BY <3>2, <3>3
  <2>2. Hold \subseteq Vu /\ Hold' \subseteq Vu /\ Potential' \subseteq Vu /\ Lucky(w) \subseteq Vu
    BY <1>13 DEF Hold, Potential
  <2> QED
    BY <2>1, <2>2
<1>20. /\ HeldWithout(w) = Cardinality(Hold') /\ Cardinality(Hold') \in 0..Vus
  BY <1>19, LuckyWait, HoldMoves DEF HeldWithout
<1>21. gate' \in [held : 0..Vus, line : Seq(Vu)] /\ gate'.line = <<>> /\ gate'.held = Cardinality(Hold')
  BY <1>2, <1>20, EmptyLineMoves
<1>22. GateSound'
  <2>1. \A u \in Vu : vu'[u].ask = "waiting" <=> u \in ToSet(gate'.line)
    BY <1>14, <1>15, <1>21, EmptyLineMoves
  <2>2. ~run'.stopped => gate'.held <= MaxConcurrency
    <3>1. ASSUME ~run'.stopped
          PROVE  gate'.held <= MaxConcurrency
      <4>1. ~run.stopped /\ Leased(w) = {} /\ Lucky(w) = {}
        BY <1>8, <3>1, NobodyLeased
      <4>2. Hold' = Hold
        BY <1>19, <4>1
      <4> QED
        BY <1>21, <4>1, <4>2 DEF StressInv, GateSound
    <3> QED
      BY <3>1
  <2>3. Cardinality(Potential') <= MaxConcurrency
    BY <1>19, FewerPotential
  <2> QED
    BY <1>21, <2>1, <2>2, <2>3 DEF GateSound
<1>23. StressTypeOK'
  BY <1>7, <1>12, <1>15, <1>21, EmptyLineMoves DEF StressTypeOK
<1> QED
  BY <1>16, <1>17, <1>18, <1>22, <1>23 DEF StressInv
-----------------------------------------------------------------------------
(***************************************************************************)
(* The invariant, and what follows from it                                 *)
(***************************************************************************)

\* A death that is noticed fails the peer ...
LEMMA NoticeDeathKeeps ==
  ASSUME StressInv, NEW w \in Worker, NoticeDeath(w)
  PROVE  StressInv'
<1>1. worker[w].peer = "up" /\ PeerFails(w, 0)
  BY DEF NoticeDeath, Up
<1>2. run.faults + 0 \in 0..MaxFaults
  BY StateFacts, StressAssumption DEF RunState
<1> QED
  BY <1>1, <1>2, PeerFailsKeeps

\* ... and so does a message it cannot accept.
LEMMA DistrustKeeps ==
  ASSUME StressInv, NEW w \in Worker, Distrust(w)
  PROVE  StressInv'
<1>1. worker[w].peer = "up" /\ PeerFails(w, 1) /\ run.faults < MaxFaults
  BY DEF Distrust, Serving, Up
<1>2. run.faults + 1 \in 0..MaxFaults
  BY <1>1, StateFacts, StressAssumption DEF RunState
<1> QED
  BY <1>1, <1>2, PeerFailsKeeps

\* At the beginning no worker runs, and nobody has a session or a permit.
LEMMA InitKeeps ==
  ASSUME StressInit
  PROVE  StressInv
<1> DEFINE none == [peer |-> "none", alive |-> FALSE, stopping |-> FALSE, quit |-> FALSE,
                    step |-> "new", tainted |-> FALSE, asked |-> 0, sent |-> 0, noted |-> 0,
                    pending |-> 0, merged |-> 0, known |-> 0]
           idle == [call |-> "none", act |-> "none", ask |-> "none", wire |-> "idle"]
<1>1. /\ \A w \in Worker : worker[w] = none
      /\ \A v \in Vu : vu[v] = idle
      /\ gate = [held |-> 0, line |-> <<>>]
  BY DEF StressInit
<1>2. /\ run.stage = "spawn" /\ run.turn = 1 /\ run.made = 0 /\ run.outcome = "none"
      /\ ~run.aborted /\ ~run.stopped /\ ~run.tidy /\ ~run.private
  BY DEF StressInit
<1>3. 1 \in 1..Vus + 1 /\ 0 \in 0..Vus /\ MaxIterations \in 0..MaxIterations /\ 0 \in 0..MaxFaults
      /\ 0 \in 0..MaxRequests /\ 1 \in 1..Workers
  BY StressAssumption
<1>4. StressTypeOK
  <2>1. run \in RunState
    BY <1>3 DEF StressInit, RunState, Stages, Spawning
  <2>2. worker \in [Worker -> WorkerState]
    <3>1. none \in WorkerState
      BY <1>3 DEF WorkerState
    <3> QED
      BY <3>1 DEF StressInit
  <2>3. vu \in [Vu -> VuState]
    <3>1. idle \in VuState
      BY DEF VuState
    <3> QED
      BY <3>1 DEF StressInit
  <2>4. gate \in [held : 0..Vus, line : Seq(Vu)] /\ IsInjective(gate.line)
    BY <1>1, <1>3, EmptySeq DEF IsInjective
  <2> QED
    BY <2>1, <2>2, <2>3, <2>4 DEF StressTypeOK
<1>5. AllVusSound
  <2>1. ASSUME NEW v \in Vu
        PROVE  VuSound(vu[v], worker[Home(v)], run, v)
    <3>1. vu[v] = idle /\ worker[Home(v)] = none
      BY <1>1, HomeIsWorker
    <3> QED
      BY <3>1, <1>2 DEF VuSound, Called, Housed, Wired, Spawning, Quiet, Late, Counted
  <2> QED
    BY <2>1 DEF AllVusSound
<1>6. AllWorkersSound
  BY <1>1, <1>2 DEF AllWorkersSound, WorkerSound, Counted, Marked
<1>7. RunSound
  <2>1. Turned
    BY <1>2, <1>3 DEF Turned, At, Spawning
  <2>2. Manned
    BY <1>1, <1>2 DEF Manned, At, Spawning, Passed, Worker
  <2>3. Stepped
    BY <1>1, <1>2 DEF Stepped, At
  <2> QED
    BY <2>1, <2>2, <2>3, <1>2 DEF RunSound, At
<1>8. GateSound
  <2>1. Hold = {} /\ Potential = {}
    BY <1>1 DEF Hold, Potential
  <2>2. ToSet(gate.line) = {}
    BY <1>1 DEF ToSet
  <2> QED
    BY <1>1, <2>1, <2>2, FS_EmptySet, StressAssumption DEF GateSound
<1> QED
  BY <1>4, <1>5, <1>6, <1>7, <1>8 DEF StressInv

\* Nor does a step of nobody disturb the invariant.
LEMMA StutterKeeps ==
  ASSUME StressInv, UNCHANGED stressVars
  PROVE  StressInv'
<1>1. run' = run /\ worker' = worker /\ vu' = vu /\ gate' = gate
  BY DEF stressVars
<1>2. Hold' = Hold /\ Potential' = Potential
  BY <1>1 DEF Hold, Potential
<1>3. StressTypeOK' /\ AllVusSound' /\ AllWorkersSound'
  BY <1>1 DEF StressInv, StressTypeOK, AllVusSound, AllWorkersSound
<1>4. RunSound'
  BY <1>1 DEF StressInv, RunSound, Turned, Manned, Stepped, Passed, At, Up, CompleteIsWhole
<1>5. GateSound'
  BY <1>1, <1>2 DEF StressInv, GateSound
<1> QED
  BY <1>3, <1>4, <1>5 DEF StressInv

\* Every step of the scheduler keeps the invariant.
LEMMA SchedulerKeeps ==
  ASSUME StressInv, Scheduler
  PROVE  StressInv'
<1>1. CASE Spawn \/ Started \/ SetUp \/ CreateVu \/ EndCreate \/ EndWindow \/ Drained
  BY <1>1, SpawnKeeps, StartedKeeps, SetUpKeeps, CreateVuKeeps, EndCreateKeeps, EndWindowKeeps,
     DrainedKeeps
<1>2. CASE CloseVu \/ EndClosing \/ Collect \/ CollectFails \/ EndCollect \/ TearDown
  BY <1>2, CloseVuKeeps, EndClosingKeeps, CollectKeeps, CollectFailsKeeps, EndCollectKeeps,
     TearDownKeeps
<1>3. CASE Check \/ Markers \/ Union \/ Shutdown \/ ExchangeFails \/ Finish
  BY <1>3, CheckKeeps, MarkersKeeps, UnionKeeps, ShutdownKeeps, ExchangeFailsKeeps, FinishKeeps
<1> QED
  BY <1>1, <1>2, <1>3 DEF Scheduler

\* So does every step of a worker, of a session, and every fault.
LEMMA NextKeeps ==
  ASSUME StressInv, StressNext
  PROVE  StressInv'
<1>1. CASE Scheduler \/ SpawnFails \/ Abort \/ DrainTimeout
  BY <1>1, SchedulerKeeps, SpawnFailsKeeps, AbortKeeps, DrainTimeoutKeeps
<1>2. CASE Faults
  BY <1>2, DieKeeps, DistrustKeeps DEF Faults
<1>3. ASSUME NEW w \in Worker, DeliverStop(w) \/ NoticeDeath(w) \/ Note(w) \/ LoseNote(w)
      PROVE  StressInv'
  BY <1>3, DeliverStopKeeps, NoticeDeathKeeps, NoteKeeps, LoseNoteKeeps
<1>4. ASSUME NEW v \in Vu, Launch(v) \/ Ask(v) \/ Permits(v)
      PROVE  StressInv'
  BY <1>4, LaunchKeeps, AskKeeps, EnterKeeps, PaceKeeps, GrantKeeps, AnsweredKeeps, RespondKeeps,
     GiveBackKeeps DEF Permits
<1>5. ASSUME NEW v \in Vu, Calls(v) \/ SessionFails(v)
      PROVE  StressInv'
  BY <1>5, BeginKeeps, RefuseKeeps, AnswerKeeps, SessionFailsKeeps DEF Calls
<1> QED
  BY <1>1, <1>2, <1>3, <1>4, <1>5 DEF StressNext

\* The invariant holds in every state of every run.
THEOREM StressInductiveInvariant == StressSpec => []StressInv
<1>1. StressInit => StressInv
  BY InitKeeps
<1>2. StressInv /\ [StressNext]_stressVars => StressInv'
  BY NextKeeps, StutterKeeps
<1> QED
  BY <1>1, <1>2, PTL DEF StressSpec

\* Every variable has its type; the turn stays within the workers and VUs.
THEOREM StressTypeCorrect == StressSpec => []StressTypeOK
<1>1. StressInv => StressTypeOK
  BY DEF StressInv
<1> QED
  BY <1>1, StressInductiveInvariant, PTL

\* Never more requests on the wire than the plan allows, of all workers
\* together, however many fail: requestGate.ts gives a permit on only when no
\* one can use it any more, or after a stop, when no one gets a new one.
THEOREM LimitHolds == StressSpec => []WithinLimit
<1>1. ASSUME StressInv
      PROVE  WithinLimit
  <2>1. OnTheWire \subseteq Potential
    BY DEF OnTheWire, Potential
  <2>2. Cardinality(OnTheWire) <= Cardinality(Potential) /\ Cardinality(OnTheWire) \in Nat
    BY <1>1, <2>1, CountsAreFinite, FS_Subset, FS_CardinalityType
  <2>3. Cardinality(Potential) <= MaxConcurrency
    BY <1>1 DEF StressInv, GateSound
  <2> QED
    BY <2>2, <2>3, CountsAreFinite, StressAssumption DEF WithinLimit
<1> QED
  BY <1>1, StressInductiveInvariant, PTL

\* A report of distributed.ts that calls itself complete has every request any
\* worker sent.
THEOREM CompleteReportsAreWhole == StressSpec => []CompleteIsWhole
<1>1. StressInv => CompleteIsWhole
  BY DEF StressInv, RunSound, CompleteIsWhole
<1> QED
  BY <1>1, StressInductiveInvariant, PTL

\* No worker of distributed.ts projects its samples before the union has the
\* markers of all of them.
THEOREM ProjectionHasUnion == StressSpec => []ProjectionKnowsAll
<1>1. ASSUME StressInv
      PROVE  ProjectionKnowsAll
  <2>1. ASSUME \E w \in Worker : worker[w].step = "projected", NEW w \in Worker
        PROVE  worker[w].known = worker[w].sent
    <3>1. worker[w].step \in Marked
      BY <1>1, <2>1 DEF StressInv, RunSound, Stepped
    <3>2. WorkerSound(worker[w], run)
      BY <1>1 DEF StressInv, AllWorkersSound
    <3> QED
      BY <3>1, <3>2 DEF WorkerSound
  <2> QED
    BY <2>1 DEF ProjectionKnowsAll
<1> QED
  BY <1>1, StressInductiveInvariant, PTL

\* When loadScheduler.ts tears the run down or reports it, no session of a
\* worker that did not fail is open, and nothing of a VU is on the wire.
THEOREM NothingStaysOpen == StressSpec => []NothingLeftOpen
<1>1. ASSUME StressInv
      PROVE  NothingLeftOpen
  <2>1. ASSUME run.stage \in {"teardown", "finish", "over"}, NEW v \in Vu, Trusted(Home(v))
        PROVE  vu[v].act \in {"none", "closed"} /\ vu[v].ask = "none"
    <3>1. run.stage \in Late
      BY <2>1 DEF Late
    <3>2. worker[Home(v)].peer # "failed"
      BY <2>1 DEF Trusted
    <3> QED
      BY <1>1, <3>1, <3>2, LateFacts DEF Quiet
  <2>2. ASSUME At("teardown"), NEW v \in Vu
        PROVE  vu[v].wire # "sending"
    <3>1. run.tidy
      BY <1>1, <2>2 DEF StressInv, RunSound
    <3>2. VuSound(vu[v], worker[Home(v)], run, v)
      BY <1>1, VuFacts
    <3> QED
      BY <3>1, <3>2 DEF VuSound, Housed, Wired
  <2> QED
    BY <2>1, <2>2 DEF NothingLeftOpen, OnTheWire
<1> QED
  BY <1>1, StressInductiveInvariant, PTL
=============================================================================
