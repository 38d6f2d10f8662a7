------------------------- MODULE MCRemoteExecution -------------------------
(* Instances of RemoteExecution for TLC. *)
EXTENDS RemoteExecution

CONSTANTS j1, h1

OneJob == {j1}
NoJob == {}
OneHash == {h1}
OneLimit == {1}

\* The end-to-end run keeps one source of denials, a changed policy, leaves
\* withdrawn rights, stopped intakes and late deadlines to the run of JobControl,
\* has no policy change after the permit, which nothing reads any more, and
\* follows an execution no further than until both sides have settled it and
\* the agent has dropped the report.
EndToEnd ==
  /\ denied = {} /\ intake[Runner] = "accepting"
  /\ \A e \in Job :
       /\ job[e].overdue => job[e].state \notin {"preparing", "running"}
       /\ job[e].stale => ~job[e].permit
       /\ ~(job[e].state = "ended" /\ ledger[e].report = "archived")
=============================================================================
