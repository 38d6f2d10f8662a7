# apicc: a verification project

apicc is a local-first platform for the life cycle of APIs: a TypeScript core
(`packages/core`: storage, workflows, runs, stress), a command line, an Electron
desktop, a Spring server for collaboration and *online execution*, and a runner
agent that executes what the server hands it.  This directory holds TLA+ models of
the parts of it in which several actors act on shared state: **remote execution**
between server and agent, the **plans and notifications** of the server, the **write
journal** of a workspace, the **workflow engine** and the **stress engine** of the core.
Paths below are relative to the repository; `server/...jobs` abbreviates
`src/server/src/main/java/com/autumnharvestc/server/execution/jobs`.

## 1. Inventory

| Component | State it keeps | Operations | Hard behaviour |
|---|---|---|---|
| Control service, jobs (`server/...jobs`: `JobService`, `JobRepo`, `RunnerControlService`, `ExecutionRetentionCleanup`) | `execution_jobs`, `execution_job_outbox`, `execution_job_messages` | submit, cancel, claim, expire, reject, messages, upload, archive, retire | denied transactions recorded in a second one; retried messages; reservations freed by three different events |
| Agent identity and intake (`execution/agent`) | sessions, intake, revocation, policy, limit | register, pause, revoke, requireUsable | revocation against requests under way; a new session orphans assigned jobs |
| Runner agent (`apps/runner-agent/src`: `supervisor`, `ledger`, `slots`) | durable ledger and outbox; volatile calls, queue, acknowledgements | receive, pump, prepare, permit, cancel, deadline, finish, close, recover | code suspended in awaits while other lanes act; death between any two durable writes |
| Worker process (`debugWorker`, `taskChild`) | lease, Core invocation | boot, invoke, notify, exit | outlives its supervisor |
| Lanes (`transport/control`, `longPolling`, `outbox`, `bootstrap`) | none durable | poll, heartbeat, messages, uploads | repetition, loss, reordering between lanes |
| Write journal (`packages/core/src/storage/writeJournal.ts`) | lock, plan, marker, backups | load, commit, roll back, recover | a crash or a failure at any file operation, also of a recovery |
| Workflow engine (`packages/core/src/workflow`: `v2Runner`, `scheduler`, `policy`) | permits and waiting leaves, attempts, visits, sessions | schedule, retry, handle, join, abort | parallel branches, any-success join, deadlines, aborts in mid-air |
| Schedules and occurrences (`execution/scheduling`) | plan, occurrences, missed windows, control | edit, admit, claim, submit, reject, release | competing instances; rejections recorded in a second transaction; edits in between |
| Notification outbox (`execution/notifications`) | channel, leased deliveries | observe, claim, send, settle, retry, retain | lease expiry during an HTTP call; channel changes under way |
| Stress (`packages/core/src/stress`: `distributed`, `loadScheduler`, `localWorker`, `requestGate`) | workers, virtual users, permits and their leases, metrics, markers | spawn, run, permit, observe, drain, collect, exchange markers | workers that die or go on without trust, aborts, drains |
| Stress reservations (`StressResourceReservations`) | counts | reserve, release | limits reached |
| Source synchronisation (`server/sync`) | leased checks | check, apply | leases |
| Collaboration, access, accounts, content, console (rest of `server`) | tables | CRUD | single transactions |
| Request, assertions, import, mock, OAuth, MCP (rest of the core) | mostly none | pure transformation | OAuth refresh, mock server |
| Desktop, web, CLI, plugins | UI state | adapters | share the write journal |

**How the parts interact.**  A started agent registers a session once.  Its *poll* and
*heartbeat* lanes exchange acknowledgements for deliveries and commands (cancel,
start-permit, start-rejected); one batch's commands are consumed before its
deliveries.  Its *message* lane sends what the durable outbox holds (accepted,
start-request, started, completed), its *upload* lane sends reports.  The server
handles each in a database transaction and remembers the receipt; both sides repeat
until they have the other's confirmation.  A *plan* produces occurrences; a timer of
some server instance admits what is due, claims it and submits it as a job of the
control service; the release of that job ends the occurrence, and a second timer
turns each ended occurrence into an event and its delivery, which dispatch threads
send; retention removes what neither needs.  The agent's worker calls the core, whose
workflow engine runs inside one process on one event loop, and whose stress
coordinator starts worker processes of its own.  Every program that edits a workspace
goes through the write journal, and shares nothing else with the others.

**What makes each part correct**, as prose before it is stated as properties:

- *jobs*: the service decides a start once, frees a slot only on the word of the agent
  that holds it, and never promises more room than it has;
- *agent*: its ledger tells the truth about what ran, a settled execution has really
  stopped, nothing accepted is forgotten;
- *both together*: Core runs at most once per job and only under a permit, both ledgers
  agree on the conclusion, no report is lost;
- *write journal*: a save happens whole or not at all, on exactly what its caller had
  loaded, and stays once it was reported (in two cases the code does not keep this, see
  section 5); whatever fails, what was written in half can be undone;
- *workflow*: a run that passes has earned it, leaves nothing running or open behind, an
  abort is final, and every run returns;
- *plans*: the runs of one plan never overlap, nothing planned before an edit or a pause
  is started after it, no planned instant disappears unaccounted;
- *notifications*: what is still to be sent is for the channel as it is now, an end stays
  an end, and retention removes only what is spent;
- *stress*: never more requests on the wire than allowed, a report that calls itself
  complete counts every request, no evidence is shown before every secret marker is
  known, nothing stays open, and every run ends.

## 2. Modules

| Module | Models | |
|---|---|---|
| `ControlProtocol` | vocabulary of `packages/execution/src/contract/messages.ts` | messages, commands, verdicts |
| `JobControl` | the control service with an arbitrary agent | one action per committed transaction |
| `RunnerAgent` | one agent with an arbitrary service | one action per stretch of code between two awaits |
| `RemoteExecution` | `JobControl` and one `RunnerAgent` joined (it extends both) | steps of one side that read the other's outbox |
| `ExecutionContract` | what remote execution promises of a job | abstract; `RemoteExecution` implements it |
| `WriteJournal` | processes that load, save and recover one directory | one action per change of the directory |
| `AtomicWorkspace` | what a directory with a journal promises | abstract; `WriteJournal` implements it up to findings 4 and 5 |
| `WorkflowRun` | one run of the workflow engine | one action per stretch between two awaits |
| `ScheduleOccurrences` | a plan, its occurrences, the drivers | one action per transaction |
| `NotificationOutbox` | a channel, its deliveries, the dispatch threads | one action per transaction, look or call |
| `ScheduledNotifications` | the two above joined by observation and retention | |
| `StressRun` | a coordinator, its workers and their virtual users | one action per message or stretch between two awaits |
| `JobControlProofs`, `RunnerAgentProofs`, `RemoteExecutionProofs`, `WriteJournalProofs`, `WorkflowRunProofs`, `ScheduleProofs`, `ScheduledNotificationsProofs`, `StressRunProofs` | theorems | TLAPS |
| `MC...` | instances for TLC | sets, constraints, symmetry |

### JobControl

`job[j]` is the row of a job with the columns the decisions read.  A column that
only feeds a comparison is kept as the outcome of the comparison: `stale` (the
policy version differs from the one fixed at submission), `orphaned` (the agent has
a later session than the claim), `overdue` (`queue_expires_at` has passed).  Permit
identities are a BOOLEAN: one execution gets one.  Bytes are counted in units of
one input and one report.  `outbox` and `receipt` are the other two tables.  Since
a message's identity is made from its kind and the execution
(`supervisor.ts:238`), one flag per kind and job is enough; the agent is otherwise
unrestricted.

`exchange` throws when a claim is denied, so its transaction rolls back, and the
controller records the rejection in a new one; `recordStartRejection` does the same
for a start.  The states between are `rejecting` and `refusing`; everything else may
happen in them, and `ServerRestart` drops them.  The agent's row lock makes each
transaction atomic with respect to the counts it reads.  Denial reasons are kept
as far as the agent can tell them apart: those its schema lists (`contract`) and
the three `schedule-` codes it does not.

### RunnerAgent

`call[e].phase` names the await in which the handling of an execution is suspended.
`ledger`, `out` are on disk; `call`, `queue`, `acks` are lost when the process dies;
`worker[e]` is a process of its own and survives.  `Restart` needs every worker of
the previous process to have given up its lease (`ledger.ts`, `taskChild.ts`): one that
is still booting carries the old epoch and leaves by itself.  `runs` is a history
variable.  A restarted agent settles what was open as interrupted.
What the pump takes but finds unfit to run ends in that step, and its slot goes to the next
one in a step of its own.  `MaxStops` bounds
how often a behaviour stops the process (`Shutdown`, `Crash`); it is the only
artificial bound of the module.

### RemoteExecution

The module extends both sides, whose variables are disjoint, over one set of jobs, and
the only agent is `Runner` (`RunnerAssumption`).
Every step is a step of one side, guarded by what the other has sent: an agent
message is handled while it is in `out`; a delivery or command may be obeyed
while the outbox has it, again after it was obeyed, and also after it was
acknowledged (an answer of an exchange may be under way when an earlier one is
applied); `Confirm`, `Archived` and `Applied` are the receipts.  Any of them may be
lost (not taken), repeated and reordered.  Two things are left out: `cancel-confirmed`,
which the service accepts and this agent never sends, and changes of the limit.

### ExecutionContract

queued, assigned, permitted, ended; a run that takes place at most once, only while
permitted; a conclusion that needs a run when it says passed or failed, and that a
queued job only has as rejected or cancelled.  `RemoteExecution!C` maps `stage` from
the service's row, `ran` (the jobs Core was invoked for) from the agent's history and
`outcome` from the recorded verdict, so the run of Core at the agent and the end at the service are steps of one
contract.

### WriteJournal and AtomicWorkspace

Processes share nothing but a directory: the managed files, `lock` (`.apicc/write-lock`),
and per save a directory `ops[n]` with a manifest, backups and, in the end, a marker.
Every action is one change of that directory, so a crash can fall between any two;
staging, which nobody reads before the manifest exists, is one.
A dead process keeps its lock, which only the user removes (`RemoveLock`).  Content is a
number: the original one, one per save, or none.  `Faults` names the operations that
may fail: a write, a roll back, a recovery, the removal of a directory.  Removal goes
part by part in any order, since a recursive removal promises none.

`AtomicWorkspace` knows only the content and the saves.  A save takes effect as a whole
and only on what it expected; until its caller was told of it, it may be undone as a
whole, and what a caller was told of stays.  The refinement `Atomic` maps the content to
`Durable`, what the next recovery would leave, so that the abstract commit is the write
of the marker, and `before` to what an unreported save may still fall back to.

`Atomic`, the refinement, is false of the code (finding 5).  What is true is
`AtomicUntilDisturbed`: every step is a step of the abstract workspace until the first
disturbance, which is one of two things, kept as history of a save: it opened its operation
while the journal held another one (`late`), or its caller was told of success while all a
recovery needs to undo it was still there (`kept`).  `HalfAppliedCanBeUndone` has no such
condition; for it a third field, `applied`, says which files have the text of the save and
were not restored.

### WorkflowRun

The run is a tree of flows with one node each: a request with retries, or a parallel
node whose branches are flows with a session of their own.  `pc[n]` names the await in
which a flow is suspended; `place[n]` is the place of a leaf in the line of the scheduler,
zero for who is not in it: the first `MaxConcurrency` hold the permits, the others wait in
their order, and where one leaves those behind it move up (`JoinLine`, `MovedUp`).  The
engine runs on one event loop and abort signals call their listeners synchronously, so an
abort reaches every waiting leaf in the step that causes it (`DropAborted`), whereas a
leaf that already holds a permit settles when it likes.  Whether a flow is aborted is
computed from the causes (`stopped`, `superseded`, `expired`) along the tree, as the
linked signals do.  A handler, for a failure or for cleaning up, is a visit that takes its
time and may fail.  `recovered`, `published` and `messy` are history variables.

That the flows of a run form a tree is an assumption (`RunTree`): a set of flows that has,
with every flow but the root, the one that started it, has the root.  Invocations are made
one from another, and a plan in which a workflow calls itself is refused (`plan.ts:98`).
`PassIsEarned` asks for a set of nodes, the root among them, each of which is entitled to
pass by branches in the set; on a tree this is the same as going down from the root.

### ScheduleOccurrences, NotificationOutbox, ScheduledNotifications

Each transaction of the scheduler holds the control row, the project and the schedule,
and is one action.  What a driver carries from one transaction to the next is its state:
claims it has taken but not submitted, and a rejection whose transaction was rolled
back and which is recorded, with the pause of the plan, in another one that repeats the
fence.  Between them other drivers, users and clocks act, and `DriverStops` drops both.
Planned instants are numbered; `clock` says how many have passed.  Leases and deadlines
are flags that a step of their own turns.  Which of several due instants is admitted
depends on arithmetic of times and policies; the model allows each.

A dispatch thread claims in a transaction, looks at the channel without a lock, calls
without a transaction, and settles in another one; the number of attempts stands for the
lease token, since every claim counts one.  `ScheduledNotifications` adds the transaction
that makes an event and its delivery from what is over (`Observe`) and retention (`Prune`).

### StressRun

`run` is the coordinator (the stage of the scheduler or of the exchange, what it knows of
the report), `worker[w]` a process, with its metrics and the observations pending there,
and the peer that stands for it at the coordinator, `vu[v]` a virtual user with the call on
it, its permit and its request, `gate` the admission.  Process and peer are apart, since a
peer may fail (`Distrust`) while the process goes on by itself: its permits then pass to
others although its request may still be under way.  A death is noticed later than it
happens.  Aborts reach their listeners in one step, messages to a worker take a step to
arrive.  Time is left out: windows, rate limits and graceful stops end when they like.

## 3. What the runs check

All sizes are distinct states; TLC visits all of them (with a view and a symmetry at
once the count depends a little on the order of the search).

| Run | States | Question and answer |
|---|---|---|
| `job_control` | 231 170 | One scheduled job with two possible digests, an agent that sends anything, every denial: `StartDecidedOnce`, `ReleaseIsConfirmed`, `EndedIsSettled`, `VerdictIsEarned`, `ReportHasRoom`; no step changes an end (`EndIsFinal`) and a revoked agent changes nothing (`RevokedAgentIsMute`).  And three jobs that compete for two slots, two inputs and two reports while the limit moves between 1 and 2: `ReservationsFit`.  Deadlock is checked. |
| `agent_lifecycle` | 582 999 | One execution, two stops, any command repeated at any time; and three executions that compete for two slots and one report, with one stop: `AtMostOneRun`, `FactIsTruthful`, `SettledHasStopped`, `OpenIsTended`, `SlotsRespected`; no step changes a conclusion (`ConclusionIsFinal`). |
| `remote_execution` | 228 295 | Both sides, policy changes, one stop: `ReleasedMeansStopped`, `CompletedIsAcceptable`, `NoReportLost`; the composition implements `ExecutionContract` (`Contract`); under fairness an assigned job ends at the service (`AssignedEnds`) and what was accepted is settled, unless stranded (`AcceptedIsSettled`). |
| `write_journal` | about 3 430 000 | Two processes, two files, two saves, one crash, failing writes, roll backs, recoveries and removals, late saves included: what is left in half can be undone (`HalfAppliedCanBeUndone`), and the journal behaves as `AtomicWorkspace` until it is disturbed (`AtomicUntilDisturbed`). |
| `workflow_run` | 739 379 | An any-success node over a request and a nested node of two, one permit, a retry, three handlers, deadlines, failing sessions, a visit limit that can run out: `PassIsEarned`, `NothingOutlivesRoot`, `AbortIsFinal`; under fairness `RootEnds`. |
| `scheduled_notifications` | 146 870 | Two drivers, three instants, two dispatch threads: `OneAtATime`, `NothingOutlivesBarrier`, `InstantsAccounted`, `DecisionIsFinal`, `OutboxIsCurrent`, `DeliveryEndIsFinal`, `RemovedIsSpent`; under fairness `EverythingEnds`. |
| `stress_run` | 278 346 | Two workers with a virtual user each, one permit, one fault at any point: `WithinLimit`, `CompleteIsWhole`, `ProjectionKnowsAll`, `NothingLeftOpen`; under fairness `RunEnds`. |
| `agent_deadline` | violation | the local deadline can leave a call waiting for good |
| `remote_cancel` | violation | a cancel can be acknowledged and have no effect |
| `remote_refusal` | violation | the service can send a refusal the agent cannot parse |
| `reported_save` | violation | a save that was reported as done can be undone |
| `late_save` | violation | a save can be committed beside the operation of a roll back that failed, and is then undone in part |

Each module has a type invariant (`TypeOK`, `AgentTypeOK`, `JournalTypeOK`, `RunTypeOK`,
`ScheduledTypeOK`, `StressTypeOK`).  They were checked on the same instances and are not
part of the runs, which keep to the properties that could fail for a reason of the code's;
all are proved.  `ClaimRespectsLimit` of
`JobControl`, too, is left to its proof.

### Bounds, and why they are enough

*Jobs* influence each other only through counts (slots, inputs, reports, queue length).
`Halves` of `MCJobControl` therefore explores two kinds of behaviour in one run: one job
through everything that can happen to it (`Lifecycle`), and three jobs for two places, the
least in which some job waits while others hold and release (`Capacity`), without what the
first half covers in full: rights, policy changes, sessions, deadlines, retention, most
conclusions.  Two digests are the least in which a second upload can differ.

*Agent*: `Halves` of `MCRunnerAgent`, too, joins one execution through everything that can
happen to it and three for two slots and one report.  Two stops let a process die while
workers of the one before it are still there; one suffices in the composition, where it
already separates a settled from an interrupted execution, and where a second one has nothing
left to settle that the first restart did not.  `WithoutMessages` hides, while there are
several executions, two variables no decision about slots reads.

*Composition*: `EndToEnd` leaves denied rights, stopped intakes and late deadlines to
`job_control`, has no policy change after the permit, which nothing reads any more, and
stops once both sides have settled and the report is archived.

*Write journal*: two files are the least in which a save can be half applied, two saves
the least in which one is based on another, conflicts with it or comes late.  One crash can
fall between any two operations of a save or of a recovery; a failing recovery stands for a
second one, and the theorems cover any number.  No fault is left out.  `WithoutPast` hides
what nothing reads any more: the plan of a save that is over, and what was loaded when no
save can begin.  `late_save` and `reported_save` need no crash.

*Workflow*: the tree is the least with a join in a join, a loser that still runs and a
winner above a failure; six visits are enough to win and few enough to run out.

*Plans*: three instants are the least in which one runs, one waits and one is skipped or
missed.  `FewEdits` allows one edit, rejection or change of the control besides switching
on and off, has the third instant come only to an unchanged plan, and lets the second
driver act on the first occurrence.  `Staged` explores the deliveries of one kind of end
(expired): deliveries read nothing of an occurrence but that it is over, so any two
ended ones stand for all, and the plan at rest (`AtRest`) for any plan.  The theorems of
section 4 cover every combination the two constraints leave out, liveness excepted.

*Stress*: one request per worker makes two workers compete for one permit; two iterations
let a virtual user be used again; one fault is the least that separates a worker from its
peer.  `Focus` lets runs of the command line, which differ in what a failure leaves of the
report, send no requests; without it 519 035 states are visited with the same result.

Under a constraint a liveness result speaks of the behaviours inside it.  Symmetry is
used with invariants, action properties and the refinement of the journal, all of
which are safety, never with liveness.  `CHECK_DEADLOCK FALSE` stands where the system
really may stop: when everything is settled, every run is over, or no bound is left.

### Fairness

All fairness is weak.

- *Agent and composition*: local timers fire and awaits return (`Deadline`, `FinishRun`,
  `RequestStart \/ FailPreparation`; all waits of the supervisor are bounded by the
  deadline's abort), a worker that was aborted or has lost its supervisor leaves
  (`taskChild.ts` exits on disconnect, the supervisor kills after its grace), a stopped
  agent is started again, and the lanes retry until a delivery is received and a
  completion handled (`outbox.ts`, `longPolling.ts` retry with backoff).  Nothing is assumed of
  workers making progress, of permits, cancels or refusals arriving, of receipts, or of users.
- *Workflow* (`RunFairness`): every await of a node returns, since requests have a total
  timeout and waits and handlers a bound.  Nothing is assumed of deadlines or aborts.
- *Plans and notifications*: leases, backoffs and queue deadlines pass, the timers of an
  instance that runs come back (`DriverWorks`), every call ends and its thread settles it
  (`SenderWorks`).  Nothing is assumed of users, jobs, rights or of instances not stopping.
  There are finitely many instants, so `EverythingEnds` says that infinitely often, and in
  the end always, nothing undecided and nothing open is left.
- *Stress* (`StressFairness`): awaits return, requests are answered, messages arrive, a
  death is noticed.  Nothing is assumed of graceful stops, aborts or failures.  That awaits
  return is an assumption about live workers: one that stays alive and answers nothing
  blocks the run by design, since the coordinator bounds the drain but not every answer.

**Exceptions.**  `AssignedEnds` excludes revoked agents (nobody can end their
jobs) and stranded calls (the second finding); `AcceptedIsSettled` excludes the latter.

**Mutants.**  Next to a mapped definition stand variants marked `Mutant:`, each a
plausible slip (a dropped check, an off-by-one, a durable write forgotten), none of
which occurs in a next-state relation.  For every property there is one that breaks it
when it takes the definition's place, which shows the property depends on the code.

## 4. What is proved

### The control service

`JobControlProofs` proves with TLAPS, for all sets of jobs, agents and digests, all
limits and capacities, from the four named assumptions of `JobControl` (finitely many
jobs; the null values lie outside their sets; capacities are natural numbers; limits are
positive):

| Theorem | Says |
|---|---|
| `InductiveInvariant` | `Spec => []Inv` |
| `TypeCorrect` | `TypeOK` |
| `StartIsDecidedOnce` | `StartDecidedOnce` |
| `OnlyTheAgentReleases` | `ReleaseIsConfirmed` |
| `EndSettles` | `EndedIsSettled` |
| `VerdictsAreEarned` | `VerdictIsEarned` |
| `ReservationsAlwaysFit` | `ReservationsFit` |
| `ReportsHaveRoom` | `ReportHasRoom` |
| `EndsAreFinal` | `EndIsFinal` |
| `RevokedAgentsAreMute` | `RevokedAgentIsMute` |
| `ClaimsRespectLimits` | `ClaimRespectsLimit` |

The properties are not inductive: that an end settles everything depends on what rows
that have not ended may hold.  `Inv == TypeOK /\ AllSound /\ ReservationsFit`, where
`AllSound` says for every row, with its outbox and receipts, what each stage of its
life guarantees: nothing before the claim (`Untouched`), a report to come while assigned
(`Placed`), nothing owed after the end (`Over`), permit and refusal both spend the one
start request (`Decided`), room is held exactly while the report is to come (`Stored`).
Each action has a lemma that rebuilds `Sound` for the row it writes; `EndSound` serves all
five callers of `End`.  `ReservationsFit` is about cardinalities: a step that reserves
nothing shrinks the sets (`FewerReservations`), a claim adds one element below the
bound (`OneMore`, `ClaimFits`).  `TypeSplits` separates the rows from the rest so that most
lemmas see only what they need.

The three action properties follow from the same invariant: an end needs a live row, so an
ended one is only touched by an upload and the retention (`Final`); every step that speaks
for an agent passes `Held` or `Usable` first (`Mute`); and a claim is the only step that
assigns a job (`OnlyClaimsAssign`), so the others cannot raise the count.

### Plans and notifications

`ScheduleProofs` (the plan) and `ScheduledNotificationsProofs` (first the outbox by itself,
then both together) prove, for any number of instants, drivers, dispatch threads, edits, leases
and attempts and for both overlap policies, from `ScheduleAssumption`, `OutboxAssumption` and
`NotificationAssumption` (the bounds are numbers, positive where the code's are; there are
finitely many events, and they are the occurrences):

| Theorem | Says |
|---|---|
| `ScheduledTypeCorrect` | `ScheduledTypeOK` |
| `RunsDoNotOverlap` | `OneAtATime` |
| `BarrierHolds` | `NothingOutlivesBarrier` |
| `NoInstantLost` | `InstantsAccounted` |
| `OutboxFollowsChannel` | `OutboxIsCurrent` |
| `RetentionIsSafe` | `RemovedIsSpent` |
| `DecisionsStand` | `DecisionIsFinal` |
| `DeliveryEndsOnce` | `DeliveryEndIsFinal` |

None of them is inductive.  That no instant is lost, that runs do not overlap, that a decision
stands and that a removed occurrence is never planned again all rest on the cursor: what is
due next lies directly behind what was evaluated or behind the instant at which the plan was
switched on, or edited while on (`Cursor`), and whatever has a row lies behind it and, while
undecided, is of the current barrier (`Behind`).  A job belongs to a submitted row (`Linked`);
while one is open everything before it is over (`Serial`); what the cursor passed is accounted
for (`Accounted`).  What was decided in a transaction that was rolled back has to be related to
the plan as it is when it is recorded (`Decided`): every pause raises the barrier, so an
earlier decision no longer stands, and an admission that is recorded late finds no row there
(`EndedStays`).  `LeasesFit` counts unexpired leases: a claim adds one below the bound,
everything else only shrinks the set (`FewerLeases`).  `Retained` ties the two parts together:
what was removed was consumed and stays over, so its delivery cannot be made again.

### The runner agent

`RunnerAgentProofs` proves, for any set of executions (not only a finite one), any number
of slots, report budgets and stops, from `AgentLimits` (both limits are positive numbers):

| Theorem | Says |
|---|---|
| `AgentInductiveInvariant` | `AgentSpec => []AgentInv` |
| `AgentTypeCorrect` | `AgentTypeOK` |
| `CoreRunsAtMostOnce` | `AtMostOneRun` |
| `FactsAreTruthful` | `FactIsTruthful` |
| `SettledHaveStopped` | `SettledHasStopped` |
| `OpenAreTended` | `OpenIsTended` |
| `SlotsAreRespected` | `SlotsRespected` |
| `ConclusionsAreFinal` | `ConclusionIsFinal` |

`AgentInv` joins four parts.  `CallSound` says of one execution how its call, its row in the
ledger, its worker, its place in the queue and the mode of the process fit together: what is
open is either queued or in the hands of a call (`Tended`); what the ledger says of the start
is true of the worker (`Truthful`); a worker belongs to a call that has its permit or to a
process that died (`Employed`); a conclusion is written once, with its report (`Concluded`).
The counts are apart (`Counted`), and here a crash is the difficulty: it empties the calls, so
the reports the calls had reserved seem to be given back, and the restart, which settles what
was open, owes them again.  `Owed` therefore counts them by what the ledger on disk says,
which no crash changes.  Most actions write the row of one execution, and `RowStep` carries
the rest of the invariant over; the pump, the shutdown, a stop and a restart have a lemma of
their own.

### Service and agent together

`RemoteExecutionProofs` proves, for any finite set of jobs, from the assumptions of both
sides and `RunnerAssumption`:

| Theorem | Says |
|---|---|
| `SystemInductiveInvariant` | `SystemSpec => []SystemInv` |
| `ReleasedHaveStopped` | `ReleasedMeansStopped` |
| `CompletionsAreAcceptable` | `CompletedIsAcceptable` |
| `NoReportIsLost` | `NoReportLost` |
| `ContractIsKept` | `Contract`, the refinement of `ExecutionContract` |

`SystemInv == Inv /\ AgentInv /\ Joint` reuses both invariants: a step of one side is a step
of that side's own next-state relation, so its invariant is carried over by the lemma of its
module, and the other side's is untouched.  `Joint` is what neither side can say alone: what
one side knows was sent by the other (`Delivered`), and a conclusion is in the outbox until
its receipt is at the service, which then has the conclusion of the ledger (`Agreed`).  Every
step of the service is classified by what it does to a job's row (`JobMoves`: stays, is
submitted, claimed, granted, ended in the queue, ended by its agent), every step of the agent
by what it learns and concludes (`Learns`).  The same two classifications give the step
simulation: each class is one action of the contract or leaves its variables alone.

### The write journal

`WriteJournalProofs` proves, for any set of processes and any number of files, saves and
crashes, from `JournalBounds`:

| Theorem | Says |
|---|---|
| `JournalInductiveInvariant` | `JournalSpec => []JournalInv` |
| `JournalTypeCorrect` | `JournalTypeOK` |
| `InterruptedSavesCanBeUndone` | `HalfAppliedCanBeUndone` |
| `SavesAreAtomic` | `AtomicUntilDisturbed`, the refinement of `AtomicWorkspace` until a disturbance |

No theorem has a hypothesis: any set of faults is allowed, and saves may be late.

`JournalInv` says of each process how far it has come with its operation, in the journal and
in the files (`WriterSound`, `OpSound`: while it applies, exactly the files it is past have the
new content; while it restores, those it is past have the old one), that no two processes
prepare the same save (`Distinct`), and what a record is worth that was left behind
(`RecordSound`: with the marker all of it is applied; once reported it is incomplete, or the
save is marked as `kept`; applied in part it is complete).  The last is
`HalfAppliedCanBeUndone`, and it needs the rest: a failure or a crash leaves the record as the
process that wrote it had it.

The refinement needs one fact more.  `Alone` says that the journal holds one operation at most
(`Single`) unless some save was late: a save opens its operation, and nothing else adds one.
With one operation, `Viewed` computes the abstract content from it, and each action is shown
to be an abstract step or to change nothing that is seen (`Hidden`): the marker commits, the
end of the removal tells, a crash or a failure during a removal may undo.  `UndisturbedStep`
joins this with the steps that disturb.

### The stress run

`StressRunProofs` proves, for any number of workers, virtual users (at least one for every
worker), iterations, requests and faults and any limit, from `StressAssumption`:

| Theorem | Says |
|---|---|
| `StressInductiveInvariant` | `StressSpec => []StressInv` |
| `StressTypeCorrect` | `StressTypeOK` |
| `LimitHolds` | `WithinLimit` |
| `CompleteReportsAreWhole` | `CompleteIsWhole` |
| `ProjectionHasUnion` | `ProjectionKnowsAll` |
| `NothingStaysOpen` | `NothingLeftOpen` |

`StressInv` was checked by TLC first, with two and three virtual users and up to two faults
(2 061 005 states).  Its parts:

- `VuSound` says of one virtual user, its worker and the stage of the run how its call, its
  session, its permit and its request fit together; `WorkerSound` that what a worker sent is
  noted, pending, or lost with a mark, and that it is drained with nothing pending; `RunSound`
  what the stages of the exchange rely on: the workers pass it in turn.
- *The limit.*  The permits do not bound the requests on the wire: when a peer fails, its
  permits pass to others while the process may go on sending (`Distrust`).  So `GateSound`
  counts `Potential`, the virtual users on the wire or with nothing between them and the wire
  but their own decision.  Until the run is stopped, all of them hold a permit, and no more
  permits than `MaxConcurrency` are held; afterwards `Potential` only shrinks, since a permit
  that is passed on is looked at again (`Pace`) and nobody gets through.  A peer that fails
  stops the run in the same step, and before the scheduler runs nobody has a session.
- *The end.*  From `collect` on, nothing is open with a trusted worker and nobody waits for a
  permit (`LateFacts`): sessions are closed in order, and a worker passed over has failed and
  stopped the run, which empties the line.  That is why `CollectFails` passes no permit on.
- *The report.*  A worker is collected only when flushed, so `merged = sent` unless it lost an
  observation, which marks the report; the outcome is `complete` only when every worker went
  through markers, union and shutdown and nothing is marked.

### The workflow run

`WorkflowRunProofs` proves, for every finite tree of flows, any number of permits, attempts
and visits, and whatever handlers, deadlines and failing sessions there are, from
`RunLimits` and `RunTree`:

| Theorem | Says |
|---|---|
| `WorkflowInductiveInvariant` | `RunSpec => []RunInv` |
| `RunTypeCorrect` | `RunTypeOK` |
| `PermitsRespected` | as many requests run as there are permits: never more, no fewer while one waits |
| `RootOutlivesAll` | `NothingOutlivesRoot` |
| `PassesAreEarned` | `PassIsEarned` |
| `AbortsAreFinal` | `AbortIsFinal` |

`RunInv` was checked by TLC first, on the instance of the run and on another one (452 225
states).  Its parts:

- `Nested`: a branch is at work only while its parallel node waits for it, and has not begun
  before that.  By it nothing is at work when the root has ended (`RootIsLast`): the flows at
  work, with those that wait for them, are closed under `Parent`, so if there were one the
  root would be among them, and would be waiting.  This is the one place where the tree is
  used, and it needs no induction.
- `InOrder`: places are distinct and dense, and whoever is in the line holds a permit or is not
  aborted.  The second half is why `AbortIsFinal` holds of permits: those that wait leave the
  line in the step that aborts them, so nobody who moves up to a permit is aborted
  (`LineKeeps`; `StepsOfTheLine` sorts all steps into the four things that happen to a line).
  From the first follows that no permit is idle while a leaf waits (`PlacesTaken`); with the
  type invariant, by which only leaves are in the line, it is the safe part of `RootEnds`.
- `Entitled`: a node that passed was recovered, is a request, or has the outputs its join asks
  for; outputs are only taken from branches that passed and are past changing, a finally
  handler that failed leaves no node that passed, winners are among the outputs.  It holds
  long before the root ends and speaks of one level of the tree at a time: `PassesAreEarned`
  takes all nodes that passed for the set `PassIsEarned` asks for.
- `Placed`: a root that passed and ended found no session left open, and none can be left open
  after that since nothing else is at work.

Most steps concern one flow; `OwnKeeps` carries the invariant over any step of that form, and
`LateKeeps` over the three of flows that have ended.

### Only model-checked

The liveness properties `AcceptedIsSettled`, `AssignedEnds`, `RootEnds`, `EverythingEnds` and
`RunEnds`: liveness under fairness is out of the prover's reach.  Every invariant, action
property and refinement the passing runs check is proved.

## 5. Findings

1. **A lost cancel** (`remote_cancel`).  `transport/control.ts:11-12` consumes a batch's
   commands before its deliveries.  A cancel that overtakes its delivery finds neither a
   call nor a queue entry (`supervisor.ts:152`), is acknowledged, and the execution then
   runs to its end.  The design document asks that a cancel is always received
   (`docs/superpowers/specs/2026-10-26-apicc-f7b-online-execution-design.md:123`).
2. **A stranded call** (`agent_deadline`).  An abort that falls between the last look at
   the signal and the moment the call is ready for its permit (`supervisor.ts:141`, while
   temporary files are removed) sets a signal nobody looks at again: the permit is ignored,
   the deadline is not armed again, the slot is kept.  Line 180 of the same document says
   that the deadline cancels by itself.
3. **Refusals nobody understands** (`remote_refusal`).  The service refuses starts with
   three `schedule-` codes (`RunnerControlService.java:26`) that the agent's strict schema
   does not list, against
   `docs/superpowers/specs/2026-10-26-apicc-f7b-execution-contract.md:196`; the
   command is dropped unacknowledged and the call ends at its deadline.
4. **A reported save undone** (`reported_save`).  `commitWritePlan` ignores a failed removal
   of the committed operation (`writeJournal.ts:517`) and reports success.  The removal is
   recursive and unordered; when it takes the marker and fails on the manifest, the
   next load restores the backups (`writeJournal.ts:363-379`).  The design document asks that a
   record found completed is only cleaned up
   (`docs/superpowers/specs/2026-10-07-apicc-contract-assets-design.md:122`).

5. **A late save** (`late_save`).  `commitWritePlan` looks for an open journal
   (`writeJournal.ts:440-441`), then takes the lock (459), and under it compares the revision
   again (469-470) but not the journal.  When another save replaced a file by the text it
   already had, failed, and failed to roll back (its operation stays, 526-528), the revision
   is the same; the late save commits beside that operation and reports success, and the next
   recovery (366-379) restores the older content over it.  The design document asks that a
   failed roll back keeps the journal and makes the workspace read-only, and that recovery
   leads back to a known consistent state
   (`docs/superpowers/specs/2026-10-07-apicc-contract-assets-design.md:120`, `:122`).

Met on the way, without a document that says otherwise: a crash between the copy of a backup
and its rename (`writeJournal.ts:272`) leaves a temporary file that makes every later load
read-only until the user removes it.

## 6. Not modelled, and the plan

*Remote execution*: progress messages, stress executions with their process trees and
reservations, apply-config, the shared debug worker, malformed deliveries, disk failures,
byte arithmetic, HTTP and cryptography, authorisation beyond "may run or not".  Known and by
design, hence without a property: a message the service refuses is retried for ever
(`supervisor.ts:253`); the identity of a refusal is not bound to a request
(`RunnerControlService.java:155`); jobs of a revoked agent stay assigned.

*Write journal*: paths and symbolic links, torn reads of a loader, edits by programs that do
not use the journal.

*Workflow*: several nodes in one flow, loops and subflows, which run one after another and
take permits only for their requests; handlers that send requests (a handler is a flow of
one node here); variables (`scope.ts`) and the static checks
of a plan (`plan.ts`).

*Plans and notifications*: several plans and the batch limit they share, events of pauses,
the calendar rule and misfire arithmetic, clocks that go backwards, several channels,
creation, name-only edits, reading and clearing of bodies, ciphers.  Without clocks that go
backwards an instant that is due lies behind the watermark, so the branch for one that does not
(`ScheduleOccurrenceService.java:80`) is left out.  Seen while reading: a
rejection for missing rights still pauses the plan when the rights come back before it
is recorded, and so does one decided before an edit that raises no barrier; a pause that ends
before the next scan leaves no event.  `InstantsAccounted` speaks of what the cursor has passed
since the plan was switched on or edited while on: every edit that makes a new revision of an
enabled plan moves its anchor (`ScheduleService.java:62-64`), and instants that were due by
then but not scanned have neither a row nor a missed window.

*Stress*: rates, arrivals and windows, which are floating-point time, the warm-up window,
redirects, progress messages, the alignment of clocks, several requests of one virtual user
at once, numeric aggregation, and the older shard protocol at the end of `distributed.ts`.

For the rest, the components section of `PROJECT.json` gives the reason: the server's
collaboration, access and content packages and most of the core are single transactions or
pure transformations, and the front ends are adapters.

Done so far: remote execution, the write journal with its abstract workspace, the workflow
engine, plans with their notifications, the stress engine; the proofs about the control
service, the agent, both together with their contract, the write journal with its
refinement, the workflow engine, plans with their notifications, and the stress engine.
Next, most important first:

1. Source synchronisation (`server/sync`): checks with owner tokens and local leases,
   recovered by another instance and cancelled by users.
2. The OAuth coordinator of the desktop, and the agent's slot arithmetic in bytes against
   the fault reserve.
