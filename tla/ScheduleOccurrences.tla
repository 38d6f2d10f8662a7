------------------------ MODULE ScheduleOccurrences ------------------------
(***************************************************************************)
(* One plan of the control service, its occurrences and the drivers (the   *)
(* embedded timers of the server instances) that admit, claim and submit   *)
(* them (execution/scheduling).  Planned instants are numbered in their    *)
(* order.  Each transaction holds the control row, the project and the     *)
(* schedule and is one step; what happens between two transactions of one  *)
(* driver - a claim in its hands, a rejection rolled back and not yet      *)
(* recorded - is state of that driver.  The passing of a lease or a        *)
(* deadline is a step of its own.  Owner and lease end of a claim are one  *)
(* number, since a row is taken again only after its lease has passed; so  *)
(* are revision and cancellation_version, since no edit raises the former  *)
(* without the latter.                                                     *)
(***************************************************************************)
EXTENDS Naturals, FiniteSets

CONSTANTS
  MaxOccurrence,  \* planned instants of the rule
  Driver,         \* server instances with an embedded timer
  QueueOne,       \* overlap policy: TRUE queue-one, FALSE skip
  MaxBarrier,     \* bound on the edits of the plan
  MaxGeneration,  \* bound on the changes of the scheduler control
  MaxTakes        \* bound on the leases of one occurrence

ASSUME ScheduleAssumption ==
  /\ MaxOccurrence \in Nat /\ MaxBarrier \in Nat /\ MaxTakes \in Nat
  /\ MaxGeneration \in Nat \ {0}
  /\ QueueOne \in BOOLEAN

VARIABLES
  control,  \* execution_scheduler_control: mode and generation
  plan,     \* the row of execution_schedules
  row,      \* execution_schedule_occurrences, by planned instant
  missed,   \* planned instants within execution_schedule_missed_windows
  job,      \* the job of an occurrence: none, open or released
  allowed,  \* the subject has the rights and the materials of the plan
  clock,    \* the planned instants that have passed
  driver    \* the claims a driver holds and the failure it has yet to record

scheduleVars == <<control, plan, row, missed, job, allowed, clock, driver>>

Occurrence == 1..MaxOccurrence
Undecided == {"pending", "waiting-overlap"}
Dropped == {"skipped", "rejected", "expired"}

Row == [state : {"none", "submitted", "pruned"} \cup Undecided \cup Dropped,
        barrier : Nat,       \* revision and cancellation_version it was planned under
        generation : Nat, lease : Nat,   \* of the last claim; lease 0: no claim
        live : BOOLEAN,      \* now < lease_until_utc
        late : BOOLEAN,      \* now >= queue_deadline_utc
        observed : BOOLEAN]  \* terminal_at_utc is set

NoRow == [state |-> "none", barrier |-> 0, generation |-> 0, lease |-> 0,
          live |-> FALSE, late |-> FALSE, observed |-> FALSE]

Claim == [o : Occurrence, lease : Nat]

\* The rejection a transaction was rolled back for, with what it was decided on.
Failure == [kind : {"occurrence", "admission", "limit", "submission"}, o : Occurrence,
            lease : Nat, state : {"none"} \cup Undecided, barrier : Nat, generation : Nat]
NoFailure == [kind |-> "none"]

ScheduleTypeOK ==
  /\ control \in [mode : {"embedded", "disabled"}, generation : 1..MaxGeneration]
  /\ plan \in [enabled : BOOLEAN, deleted : BOOLEAN, barrier : Nat,
               due : 0..MaxOccurrence, through : 0..MaxOccurrence, anchor : 0..MaxOccurrence]
  /\ row \in [Occurrence -> Row] /\ missed \subseteq Occurrence
  /\ job \in [Occurrence -> {"none", "open", "released"}]
  /\ allowed \in BOOLEAN /\ clock \in 0..MaxOccurrence
  /\ driver \in [Driver -> [phase : {"scan", "submit"}, claims : SUBSET Claim,
                            failure : Failure \cup {NoFailure}]]

Idle == [phase |-> "scan", claims |-> {}, failure |-> NoFailure]

ScheduleInit ==
  /\ control = [mode |-> "embedded", generation |-> 1]
  /\ plan = [enabled |-> FALSE, deleted |-> FALSE, barrier |-> 0,
             due |-> 0, through |-> 0, anchor |-> 0]
  /\ row = [o \in Occurrence |-> NoRow] /\ missed = {}
  /\ job = [o \in Occurrence |-> "none"]
  /\ allowed = TRUE /\ clock = 0
  /\ driver = [d \in Driver |-> Idle]
-----------------------------------------------------------------------------
\* A row that has ended, without the columns nothing reads any more.
Ended(r, state) == [r EXCEPT !.state = state, !.lease = 0, !.generation = 0, !.barrier = 0,
                             !.live = FALSE, !.late = FALSE, !.observed = TRUE]

\* Mutant: only the queued occurrences are withdrawn, not the claimed one.
CancelQueued(rows, p) ==
  [o \in Occurrence |->
     IF rows[o].state = "waiting-overlap" /\ ~(p.enabled /\ rows[o].barrier = p.barrier)
     THEN Ended(rows[o], "skipped") ELSE rows[o]]

\* cancelInvalidated: nothing undecided outlives the barrier it was planned under.
CancelInvalidated(rows, p) ==
  [o \in Occurrence |->
     IF rows[o].state \in Undecided /\ ~(p.enabled /\ rows[o].barrier = p.barrier)
     THEN Ended(rows[o], "skipped") ELSE rows[o]]

Paused(p) == [p EXCEPT !.enabled = FALSE, !.due = 0, !.barrier = @ + 1]

\* The first planned instant after o, if the rule has one.
NextAfter(o) == IF o < MaxOccurrence THEN o + 1 ELSE 0

\* Mutant: the open job of an earlier occurrence is overlooked.
PrecedingUndecided(o) == \E k \in 1..(o - 1) : row[k].state \in Undecided

PrecedingActive(o) ==
  \E k \in 1..(o - 1) : \/ row[k].state \in Undecided
                        \/ row[k].state = "submitted" /\ job[k] # "released"

HasWaiting == \E o \in Occurrence : row[o].state = "waiting-overlap"

Embedded == control.mode = "embedded"

CurrentBarrier(r) == plan.enabled /\ ~plan.deleted /\ r.barrier = plan.barrier
-----------------------------------------------------------------------------
(* What users, administrators, clocks and the job service do.              *)

\* An edit of the plan: revised says that it makes a new revision, wish whether
\* it switches the plan on, off or neither.  What is on is planned from now on.
Update(revised, wish) ==
  LET on == IF wish = "keep" THEN plan.enabled ELSE wish = "on"
      edited == [plan EXCEPT
        !.enabled = on,
        !.barrier = IF revised \/ wish = "off" THEN @ + 1 ELSE @,
        !.anchor = IF on THEN clock ELSE @,
        !.due = IF on THEN NextAfter(clock) ELSE 0] IN
  /\ ~plan.deleted /\ plan.barrier < MaxBarrier
  /\ revised \/ wish # "keep"
  /\ revised \/ wish = "on" => allowed
  /\ plan' = edited
  /\ row' = CancelInvalidated(row, edited)
  /\ UNCHANGED <<control, missed, job, allowed, clock, driver>>

Delete ==
  LET gone == [Paused(plan) EXCEPT !.deleted = TRUE] IN
  /\ ~plan.deleted /\ plan.barrier < MaxBarrier
  /\ plan' = gone
  /\ row' = CancelInvalidated(row, gone)
  /\ UNCHANGED <<control, missed, job, allowed, clock, driver>>

ChangeControl(mode) ==
  /\ control.generation < MaxGeneration
  /\ control' = [mode |-> mode, generation |-> control.generation + 1]
  /\ UNCHANGED <<plan, row, missed, job, allowed, clock, driver>>

RightsChange ==
  /\ allowed' = ~allowed
  /\ UNCHANGED <<control, plan, row, missed, job, clock, driver>>

InstantPasses ==
  /\ clock < MaxOccurrence /\ clock' = clock + 1
  /\ UNCHANGED <<control, plan, row, missed, job, allowed, driver>>

LeaseEnds(o) ==
  /\ row[o].live /\ row' = [row EXCEPT ![o].live = FALSE]
  /\ UNCHANGED <<control, plan, missed, job, allowed, clock, driver>>

DeadlinePasses(o) ==
  /\ row[o].state \in Undecided /\ ~row[o].late
  /\ row' = [row EXCEPT ![o].late = TRUE]
  /\ UNCHANGED <<control, plan, missed, job, allowed, clock, driver>>

JobReleased(o) ==
  /\ job[o] = "open" /\ job' = [job EXCEPT ![o] = "released"]
  /\ UNCHANGED <<control, plan, row, missed, allowed, clock, driver>>

\* The release of the job ends its occurrence, embedded or not.
ObserveReleased(o) ==
  /\ row[o].state = "submitted" /\ job[o] = "released" /\ ~row[o].observed
  /\ row' = [row EXCEPT ![o].observed = TRUE]
  /\ UNCHANGED <<control, plan, missed, job, allowed, clock, driver>>
-----------------------------------------------------------------------------
(* One tick of a driver: recover claims, admit what is due, submit.        *)

Scanning(d) == driver[d].phase = "scan" /\ driver[d].failure = NoFailure

Holding(d, c) == [driver EXCEPT ![d].claims = @ \cup {c}]

\* A claim or a failure to come back from the admission ends the scan.
ScanEnds(d, claims, failure) ==
  driver' = [driver EXCEPT ![d] =
    [phase |-> IF claims = {} /\ failure = NoFailure THEN "scan" ELSE "submit",
     claims |-> claims, failure |-> failure]]

Rejection(o) == [kind |-> "occurrence", o |-> o, lease |-> row[o].lease,
                 state |-> row[o].state, barrier |-> row[o].barrier,
                 generation |-> control.generation]

Claimable(d, o) ==
  /\ Scanning(d) /\ Embedded /\ row[o].state \in Undecided
  /\ \A c \in driver[d].claims : c.o # o

Expire(d, o) ==
  /\ Claimable(d, o) /\ row[o].late
  /\ row' = [row EXCEPT ![o] = Ended(@, "expired")]
  /\ UNCHANGED <<control, plan, missed, job, allowed, clock, driver>>

Take(d, o) ==
  /\ Claimable(d, o) /\ ~row[o].late /\ ~row[o].live
  /\ allowed /\ CurrentBarrier(row[o]) /\ row[o].lease < MaxTakes
  /\ row' = [row EXCEPT ![o].lease = @ + 1, ![o].live = TRUE,
                        ![o].generation = control.generation]
  /\ driver' = Holding(d, [o |-> o, lease |-> row[o].lease + 1])
  /\ UNCHANGED <<control, plan, missed, job, allowed, clock>>

TakeDenied(d, o) ==
  /\ Claimable(d, o) /\ ~row[o].late /\ ~row[o].live /\ ~allowed
  /\ driver' = [driver EXCEPT ![d].failure = Rejection(o)]
  /\ UNCHANGED <<control, plan, row, missed, job, allowed, clock>>

EndScan(d) ==
  /\ Scanning(d) /\ driver[d].claims # {}
  /\ ScanEnds(d, driver[d].claims, NoFailure)
  /\ UNCHANGED <<control, plan, row, missed, job, allowed, clock>>

Due(d) == Scanning(d) /\ Embedded /\ ~plan.deleted /\ plan.due \in 1..clock

\* What a newly inserted row becomes in its transaction, unless it is late.
Admitted(o, fresh) ==
  IF ~PrecedingActive(o) THEN {fresh}
  ELSE IF QueueOne /\ ~HasWaiting
       THEN {[fresh EXCEPT !.state = "waiting-overlap", !.lease = 0, !.live = FALSE]}
       ELSE {Ended(fresh, "skipped")}

\* Of the instants due, the first, the last or the first one still within the
\* tolerance is admitted, by lateness and misfire policy; those before it are missed.
Admit(d, o) ==
  LET fresh == [NoRow EXCEPT !.state = "pending", !.barrier = plan.barrier, !.lease = 1,
                             !.generation = control.generation, !.live = TRUE]
      claim == [o |-> o, lease |-> 1] IN
  /\ Due(d) /\ allowed /\ o \in plan.due..clock
  /\ missed' = missed \cup plan.due..(o - 1)
  /\ plan' = [plan EXCEPT !.through = o, !.due = NextAfter(o)]
  /\ \E r \in Admitted(o, fresh) \cup {Ended(fresh, "expired")} :
       /\ row' = [row EXCEPT ![o] = r]
       /\ ScanEnds(d, driver[d].claims \cup (IF r = fresh THEN {claim} ELSE {}), NoFailure)
  /\ UNCHANGED <<control, job, allowed, clock>>

\* Mutant: the cursor moves on and the gap is not recorded.
CloseGapUnrecorded(d) ==
  /\ Due(d)
  /\ missed' = missed
  /\ plan' = [plan EXCEPT !.through = clock, !.due = NextAfter(clock)]
  /\ ScanEnds(d, driver[d].claims, NoFailure)
  /\ UNCHANGED <<control, row, job, allowed, clock>>

\* All that is due is later than the misfire policy allows.
CloseGap(d) ==
  /\ Due(d)
  /\ missed' = missed \cup plan.due..clock
  /\ plan' = [plan EXCEPT !.through = clock, !.due = NextAfter(clock)]
  /\ ScanEnds(d, driver[d].claims, NoFailure)
  /\ UNCHANGED <<control, row, job, allowed, clock>>

\* The policy, the rights, the materials or the evaluation of the rule refuse.
AdmissionFails(d, kind) ==
  /\ Due(d)
  /\ ScanEnds(d, driver[d].claims,
       [kind |-> kind, o |-> plan.due, lease |-> 0, state |-> "none",
        barrier |-> plan.barrier, generation |-> control.generation])
  /\ UNCHANGED <<control, plan, row, missed, job, allowed, clock>>
-----------------------------------------------------------------------------
\* Claims are submitted in the order of their occurrences.
Turn(d, c) ==
  /\ driver[d].phase = "submit" /\ driver[d].failure = NoFailure
  /\ c \in driver[d].claims /\ \A e \in driver[d].claims : c.o <= e.o

Released(d, c, failure) ==
  LET rest == driver[d].claims \ {c} IN
  driver' = [driver EXCEPT ![d] =
    [phase |-> IF rest = {} /\ failure = NoFailure THEN "scan" ELSE "submit",
     claims |-> rest, failure |-> failure]]

\* submissionFence: the claim is the row's, unexpired, of this generation, and
\* the plan is as it was when the occurrence was planned.
Fence(c) ==
  LET r == row[c.o] IN
  /\ Embedded /\ r.generation = control.generation
  /\ r.state \in Undecided /\ r.lease = c.lease /\ r.live /\ ~r.late
  /\ CurrentBarrier(r)

Submittable(c) == Fence(c) /\ ~PrecedingActive(c.o)

Submit(d, c) ==
  /\ Turn(d, c) /\ Submittable(c) /\ allowed
  /\ row' = [row EXCEPT ![c.o] = [Ended(@, "submitted") EXCEPT !.observed = FALSE]]
  /\ job' = [job EXCEPT ![c.o] = "open"]
  /\ Released(d, c, NoFailure)
  /\ UNCHANGED <<control, plan, missed, allowed, clock>>

\* The fence or an earlier occurrence holds it back, or the job queue is full.
SubmitNothing(d, c) ==
  /\ Turn(d, c) /\ (Submittable(c) => allowed)
  /\ Released(d, c, NoFailure)
  /\ UNCHANGED <<control, plan, row, missed, job, allowed, clock>>

SubmitDenied(d, c) ==
  /\ Turn(d, c) /\ Submittable(c) /\ ~allowed
  /\ Released(d, c, Rejection(c.o))
  /\ UNCHANGED <<control, plan, row, missed, job, allowed, clock>>

SubmitRefused(d, c) ==
  /\ Turn(d, c) /\ Submittable(c) /\ allowed
  /\ Released(d, c, [Rejection(c.o) EXCEPT !.kind = "submission"])
  /\ UNCHANGED <<control, plan, row, missed, job, allowed, clock>>
-----------------------------------------------------------------------------
(* The second transaction of a rejection: it repeats the decision's fence. *)

Forget(d) ==
  driver' = [driver EXCEPT ![d].failure = NoFailure,
               ![d].phase = IF driver[d].claims = {} THEN "scan" ELSE @]

\* Mutant: the rejection is recorded whatever became of what it was decided on.
StillStandsLoosely(f) ==
  /\ Embedded /\ control.generation = f.generation
  /\ plan.enabled /\ plan.barrier = f.barrier

StillStands(f) ==
  /\ Embedded /\ control.generation = f.generation
  /\ plan.enabled /\ plan.barrier = f.barrier
  /\ IF f.kind = "occurrence" THEN row[f.o].state = f.state /\ row[f.o].lease = f.lease
                              ELSE plan.through < f.o

RecordRejection(d) ==
  LET f == driver[d].failure
      rejected == IF f.kind = "limit" THEN row
                  ELSE [row EXCEPT ![f.o] = Ended(@, "rejected")] IN
  /\ f.kind \in {"occurrence", "admission", "limit"} /\ StillStands(f)
  /\ plan' = [Paused(plan) EXCEPT !.through = IF f.kind = "admission" THEN f.o ELSE @]
  /\ row' = CancelInvalidated(rejected, plan')
  /\ Forget(d)
  /\ UNCHANGED <<control, missed, job, allowed, clock>>

RecordSubmissionFailure(d) ==
  LET f == driver[d].failure IN
  /\ f.kind = "submission" /\ Fence([o |-> f.o, lease |-> f.lease])
  /\ row' = [row EXCEPT ![f.o] = Ended(@, "rejected")]
  /\ Forget(d)
  /\ UNCHANGED <<control, plan, missed, job, allowed, clock>>

RejectionOvertaken(d) ==
  LET f == driver[d].failure IN
  /\ f # NoFailure
  /\ IF f.kind = "submission" THEN ~Fence([o |-> f.o, lease |-> f.lease]) ELSE ~StillStands(f)
  /\ Forget(d)
  /\ UNCHANGED <<control, plan, row, missed, job, allowed, clock>>

\* The instance stops: claims and an unrecorded failure are gone with it.
DriverStops(d) ==
  /\ driver[d] # Idle /\ driver' = [driver EXCEPT ![d] = Idle]
  /\ UNCHANGED <<control, plan, row, missed, job, allowed, clock>>
-----------------------------------------------------------------------------
Outside ==
  \/ \E revised \in BOOLEAN, wish \in {"keep", "on", "off"} : Update(revised, wish)
  \/ Delete \/ RightsChange \/ InstantPasses
  \/ \E mode \in {"embedded", "disabled"} : ChangeControl(mode)
  \/ \E o \in Occurrence : LeaseEnds(o) \/ DeadlinePasses(o) \/ JobReleased(o)

Recover(d) ==
  \E o \in Occurrence : Expire(d, o) \/ Take(d, o) \/ TakeDenied(d, o)

AdmitDue(d) ==
  \/ \E o \in Occurrence : Admit(d, o)
  \/ CloseGap(d) \/ AdmissionFails(d, "admission") \/ AdmissionFails(d, "limit")

SubmitNext(d) ==
  \E c \in driver[d].claims :
    Submit(d, c) \/ SubmitNothing(d, c) \/ SubmitDenied(d, c) \/ SubmitRefused(d, c)

Record(d) == RecordRejection(d) \/ RecordSubmissionFailure(d) \/ RejectionOvertaken(d)

DriverStep(d) ==
  Recover(d) \/ EndScan(d) \/ AdmitDue(d) \/ SubmitNext(d) \/ Record(d) \/ DriverStops(d)

ScheduleNext ==
  \/ Outside
  \/ \E o \in Occurrence : ObserveReleased(o)
  \/ \E d \in Driver : DriverStep(d)

ScheduleSpec == ScheduleInit /\ [][ScheduleNext]_scheduleVars
=============================================================================
