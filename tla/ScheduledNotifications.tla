----------------------- MODULE ScheduledNotifications -----------------------
(***************************************************************************)
(* A plan's occurrences and the outbox of their notifications: the scan of *)
(* the notification timer turns each ended occurrence into one event and   *)
(* its delivery, and retention removes occurrences that neither a job nor  *)
(* a delivery needs any more.                                              *)
(***************************************************************************)
EXTENDS ScheduleOccurrences, NotificationOutbox

CONSTANT Selected   \* the event kinds the plan has selected

VARIABLE consumed   \* occurrences whose notification_processed_version is 1

notificationVars == <<scheduleVars, outboxVars, consumed>>

EventKind == {"succeeded", "failed", "abnormal", "expired", "skipped"}

ASSUME NotificationAssumption == Event = Occurrence /\ Selected \subseteq EventKind

Init == ScheduleInit /\ OutboxInit /\ consumed = {}
-----------------------------------------------------------------------------
\* An occurrence is over when it was dropped or its job has been released.
Over(o) == row[o].state \in Dropped \/ (row[o].state = "submitted" /\ job[o] = "released")

Kinds(o) ==
  CASE row[o].state \in {"expired", "skipped"} -> {row[o].state}
    [] row[o].state = "rejected" -> {"failed"}
    [] OTHER -> {"succeeded", "failed", "abnormal"}   \* by the verdict of the job

Ready(o) == Over(o) /\ o \notin consumed

\* Event, deliveries and the mark on the source are one transaction.
Observe(o) ==
  /\ Ready(o) /\ consumed' = consumed \cup {o}
  /\ \E kind \in Kinds(o) :
       delivery' = IF kind \in Selected THEN Enqueued(o) ELSE delivery
  /\ UNCHANGED <<scheduleVars, channel, sender>>

\* Mutant: retention looks at deliveries that wait, not at those being sent.
NoWaitingNotification(o) == o \in consumed /\ delivery[o].state # "pending"

\* inspect: what has to be over before an occurrence may be removed.
NoActiveJob(o) == row[o].state = "submitted" => job[o] = "released"
NoPendingNotification(o) == o \in consumed /\ delivery[o].state \notin Open

Prune(o) ==
  /\ row[o].state \in Dropped \cup {"submitted"} /\ row[o].observed
  /\ NoActiveJob(o) /\ NoPendingNotification(o)
  /\ row' = [row EXCEPT ![o] = [NoRow EXCEPT !.state = "pruned"]]
  /\ UNCHANGED <<control, plan, missed, job, allowed, clock, driver, outboxVars, consumed>>
-----------------------------------------------------------------------------
Schedules(step) == step /\ UNCHANGED <<outboxVars, consumed>>
Delivers(step) == step /\ UNCHANGED <<scheduleVars, consumed>>

Next ==
  \/ Schedules(ScheduleNext) \/ Delivers(OutboxStep)
  \/ \E o \in Occurrence : Observe(o) \/ Prune(o)

Spec == Init /\ [][Next]_notificationVars

DriverWorks(d) ==
  (\E o \in Occurrence : Expire(d, o) \/ Take(d, o)) \/ EndScan(d) \/ SubmitNext(d) \/ Record(d)

SenderWorks(s) == ClaimDelivery(s) \/ CheckChannel(s) \/ CallEnds(s) \/ Complete(s)

TimePasses ==
  \E o \in Occurrence : \/ Schedules(LeaseEnds(o) \/ DeadlinePasses(o))
                        \/ Delivers(BackoffEnds(o) \/ DeliveryLeaseEnds(o))

\* The timers of an instance that keeps running come back, leases and deadlines
\* pass, every call ends and its thread settles it; jobs need not end, and
\* neither the plan nor the control nor the channel has to change.
Fairness ==
  /\ WF_notificationVars(TimePasses)
  /\ \A d \in Driver : WF_notificationVars(Schedules(DriverWorks(d)))
  /\ \A s \in Sender : WF_notificationVars(Delivers(SenderWorks(s)))

FairSpec == Spec /\ Fairness
-----------------------------------------------------------------------------
(***************************************************************************)
(* Properties                                                              *)
(***************************************************************************)

\* Rows, cursor, drivers, deliveries and threads hold values of their types,
\* and no delivery is tried more often than its limit says.
ScheduledTypeOK == ScheduleTypeOK /\ OutboxTypeOK /\ consumed \subseteq Occurrence

\* The runs of one plan never overlap and are started in the order they were
\* planned in: while a job is open, everything planned before it is over; and
\* at most one occurrence waits (precedingActive and hasWaiting).
OneAtATime ==
  /\ \A o \in Occurrence : job[o] = "open" =>
       \A k \in 1..(o - 1) : row[k].state \notin Undecided /\ job[k] # "open"
  /\ \A o, k \in Occurrence :
       row[o].state = "waiting-overlap" /\ row[k].state = "waiting-overlap" => o = k

\* Nothing can still be submitted that was planned before the plan was paused,
\* edited, deleted or paused by a rejection (cancelInvalidated).
NothingOutlivesBarrier ==
  \A o \in Occurrence : row[o].state \in Undecided => CurrentBarrier(row[o])

\* Every planned instant the cursor has passed since the plan was last switched
\* on, or edited while on, has its occurrence or lies in a recorded missed window.
InstantsAccounted ==
  \A o \in Occurrence : plan.anchor < o /\ o <= plan.through =>
    row[o].state # "none" \/ o \in missed

\* What was decided of an occurrence stands: once submitted or dropped it is only
\* ever removed, and its job is opened once and never again, although a claim may
\* be in the hands of a driver whose lease has passed to another one, a rejection
\* is recorded in a second transaction, and users edit the plan in between.
DecisionIsFinal ==
  [][\A o \in Occurrence :
       /\ row[o].state \in Dropped \cup {"submitted", "pruned"} =>
            row'[o].state = row[o].state \/ row'[o].state = "pruned"
       /\ job[o] # "none" => job'[o] \in {job[o], "released"}]_notificationVars

\* How a delivery ended stays so, whatever thread with an older lease answers
\* later or however the channel changes.
DeliveryEndIsFinal ==
  [][\A e \in Event : delivery[e].state \in Closed => delivery'[e] = delivery[e]]_notificationVars

\* What is still to be sent is for the channel as it is now, and there are
\* never more unexpired leases than calls the deployment allows.
OutboxIsCurrent ==
  /\ \A e \in Event : delivery[e].state \in Open => Current(delivery[e].version)
  /\ Cardinality({e \in Event : delivery[e].state = "sending" /\ delivery[e].live
                                /\ ~delivery[e].late}) <= Concurrency

\* Retention takes nothing away that is still needed: a removed occurrence was
\* consumed, its job is over and its delivery has ended.  And an event is only
\* made of what is over.
RemovedIsSpent ==
  \A o \in Occurrence :
    /\ row[o].state = "pruned" =>
         o \in consumed /\ job[o] # "open" /\ delivery[o].state \notin Open
    /\ o \in consumed => Over(o) \/ row[o].state = "pruned"

\* An admitted occurrence is submitted or dropped while the scheduler is
\* embedded, and an enqueued delivery ends, whichever threads are lost: the rule
\* has finitely many instants here, so in the end nothing is left to do.
EverythingEnds ==
  []<>(\A o \in Occurrence :
         (row[o].state \in Undecided => ~Embedded) /\ delivery[o].state \notin Open)
=============================================================================
