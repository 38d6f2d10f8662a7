---------------------- MODULE MCScheduledNotifications ----------------------
(* Instances of ScheduledNotifications for TLC. *)
EXTENDS ScheduledNotifications

CONSTANTS d1, d2, s1, s2

TwoDrivers == {d1, d2}
TwoSenders == {s1, s2}
Expired == {"expired"}
Instants == 1..MaxOccurrence

\* One edit, rejection or change of control, besides switching the plan on and
\* off; rights are missing before it or while the plan is off; the third instant
\* comes only to an unchanged plan with its rights that was on at the second one,
\* and the two drivers race over the first occurrence.
FewEdits ==
  LET changes == control.generation - 1 + plan.barrier IN
  /\ changes <= 1
  /\ ~allowed => changes = 0 \/ ~plan.enabled
  /\ clock = 3 => changes = 0 /\ allowed /\ plan.anchor <= 1
  /\ driver[d2] = Idle \/ clock = 1

\* Scheduling and delivering share nothing but the ended rows: events are made
\* and delivered where the first two occurrences of an unchanged plan have
\* expired, the second delivery up to its first attempt once the first has ended,
\* on the first version of the channel.
AtRest ==
  /\ control.generation = 1 /\ plan.barrier = 0 /\ allowed /\ clock = 2 /\ plan.due = 3
  /\ missed = {} /\ \A d \in Driver : driver[d] = Idle
  /\ \A o \in {1, 2} : row[o].state \in {"expired", "pruned"}
  /\ delivery[2].attempts <= IF delivery[1].state \in Closed /\ channel.version = 1 THEN 1 ELSE 0

Staged == AtRest \/ (channel.version = 1 /\ consumed = {})
=============================================================================
