---------------------------- MODULE MCRunnerAgent ----------------------------
(* Instances of RunnerAgent for TLC. *)
EXTENDS RunnerAgent, TLC

CONSTANTS j1, j2, j3

OneJob == {j1}
ThreeJobs == {j1, j2, j3}

\* The executions the agent has heard of.
Touched == {e \in Job : ledger[e].known \/ \E k \in CommandKind : <<k, e>> \in acks}

\* One execution goes through everything that can happen to it while the process
\* stops twice; or three compete for the slots and the process stops once.
Alone == Cardinality(Touched) <= 1
Halves == Alone \/ stops <= 1

\* No guard but their own reads acks and out, and no property about several
\* executions does: there, states that differ in nothing else are one state.
WithoutMessages ==
  <<mode, stops, call, queue, ledger, worker, runs, IF Alone THEN <<acks, out>> ELSE <<>>>>

Symmetry == Permutations(Job)
=============================================================================
