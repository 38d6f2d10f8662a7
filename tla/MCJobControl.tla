---------------------------- MODULE MCJobControl ----------------------------
(* Instances of JobControl for TLC. *)
EXTENDS JobControl, TLC

CONSTANTS j1, j2, j3, a1, h1, h2

ThreeJobs == {j1, j2, j3}
OneScheduled == {j1}
OneAgent == {a1}
TwoHashes == {h1, h2}
Limits == {1, 2}

\* One job, which a schedule submitted, goes through everything that can
\* happen to it.
Lifecycle ==
  /\ \A j \in Job \ Scheduled : job[j].state = "absent"
  /\ \A a \in Agent : limit[a] = 2

\* Or three jobs compete for the slots and two reservations, and what the other
\* half covers is left out: withdrawn rights, policy changes, deadlines, new
\* sessions, retention, acknowledged commands, all but two conclusions, and the
\* cancel of the first job.
Capacity ==
  /\ denied = {}
  /\ \A a \in Agent : intake[a] = "accepting"
  /\ \A j \in Job :
       /\ ~job[j].stale /\ ~job[j].orphaned /\ ~job[j].overdue
       /\ job[j].report # "expired" /\ outbox[j]["cancel"] # "acked"
       /\ job[j].verdict \in {"none", "passed", "cancelled"} /\ job[j].hash # h2
       /\ outbox[j]["start-permit"] # "acked"
  /\ \A j \in Scheduled : job[j].cancel = "none" /\ j \notin rejecting

Halves == Lifecycle \/ Capacity

Symmetry == Permutations(Job \ Scheduled) \cup Permutations(Hash)
=============================================================================
