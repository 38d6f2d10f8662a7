---------------------------- MODULE MCStressRun ----------------------------
(* An instance of StressRun for TLC, in MCStressRun.cfg: two workers with a  *)
(* VU each, which compete for one permit with one request each, and one      *)
(* fault.                                                                    *)
EXTENDS StressRun

\* The runs of the command line, which differ from planned ones only in what a
\* failure leaves of them, send no requests.
Focus == run.legacy => \A w \in Worker : worker[w].asked = 0
=============================================================================
