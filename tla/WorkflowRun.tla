----------------------------- MODULE WorkflowRun -----------------------------
(***************************************************************************)
(* One structured workflow run: packages/core/src/workflow/v2Runner.ts     *)
(* with its leaf scheduler (scheduler.ts) and deadlines (policy.ts).       *)
(*                                                                         *)
(* The run is a tree.  A node of the tree is a flow with one node in it: a *)
(* request with retries, or a parallel node whose branches are flows that  *)
(* run side by side, each with an HTTP session of its own.  JavaScript     *)
(* runs to completion between two awaits, so an abort reaches every        *)
(* listener within the step that causes it.                                *)
(***************************************************************************)
EXTENDS Naturals, FiniteSets

CONSTANTS
  Node, Root,
  Parent,       \* the parallel node a flow is a branch of
  AnySuccess,   \* parallel nodes that join on the first success
  Handled,      \* nodes with an onError handler in mode "recover"
  Cleaned,      \* nodes with a finally handler
  Timed,        \* nodes whose node and invocation deadlines may run out
  MaxConcurrency,
  Attempts,     \* of a request, by its retry policy
  Fragile,      \* branches whose session may fail to open or to close
  MaxVisits     \* node visits of one run (10000 in the code)

ASSUME RunLimits ==
  /\ MaxConcurrency \in Nat \ {0} /\ Attempts \in [Node -> Nat \ {0}] /\ MaxVisits \in Nat
  /\ Timed \subseteq Node /\ Fragile \subseteq Node \ {Root}

\* The flows of a run form a tree: whatever set is closed under Parent has the root.
ASSUME RunTree ==
  /\ IsFiniteSet(Node) /\ Root \in Node /\ Parent \in [Node \ {Root} -> Node]
  /\ \A S \in SUBSET Node : S # {} /\ (\A n \in S \ {Root} : Parent[n] \in S) => Root \in S

VARIABLES
  pc,         \* where each flow is suspended
  result,     \* the outcome of its node so far
  attempt,    \* the number of the current request attempt
  place,      \* scheduler: the place of a leaf in the line for permits, if any
  visits, stopped,  \* visits consumed; why the root was aborted
  expired,    \* deadlines that ran out
  superseded, \* branches aborted since another one won
  winners,    \* the first successful branches of any-success nodes
  outputs,    \* branches whose outputs were taken
  unclean,    \* branches whose session could not be closed
  recovered, published, messy  \* history: nodes recovered, joins published,
                               \* nodes whose finally handler failed

runVars == <<pc, result, attempt, place, visits, stopped, expired, superseded, winners,
             outputs, unclean, recovered, published, messy>>

Branches(p) == {n \in Node \ {Root} : Parent[n] = p}
Leaves == {n \in Node : Branches(n) = {}}
Above[n \in Node] == IF n = Root THEN {} ELSE {Parent[n]} \cup Above[Parent[n]]
Winner(p) == winners \cap Branches(p)

\* An aborted flow: the root's controller, the controller of a branch, or the
\* deadline of an invocation, of this flow or of one it runs in.  The body of
\* a node also has a deadline of its own, which the branches are under.
BodyExpired(n) == <<"node", n>> \in expired
OwnAbort(n) == n \in superseded \/ <<"invocation", n>> \in expired
BranchAborted(n) ==
  \/ stopped # "no" \/ n \in superseded
  \/ \E m \in Above[n] : OwnAbort(m) \/ BodyExpired(m)
FlowAborted(n) == BranchAborted(n) \/ <<"invocation", n>> \in expired
BodyAborted(n) == FlowAborted(n) \/ BodyExpired(n)

\* The session failures of the whole run count, not only those below a node.
CleanupFailed(n) == unclean # {} /\ n \in Node

\* The line: the leaves that hold a permit, then those that wait for one.
Line == {n \in Node : place[n] # 0}
Running == {n \in Line : place[n] <= MaxConcurrency}

RunTypeOK ==
  /\ pc \in [Node -> {"off", "forking", "leaf", "backoff", "branches", "body",
                      "handling", "cleaning", "ended", "closing", "closed", "done"}]
  /\ result \in [Node -> {"none", "passed", "failed", "fatal"}]
  /\ attempt \in [Node -> Nat] /\ \A n \in Node : attempt[n] <= Attempts[n]
  /\ place \in [Node -> Nat]
  /\ \A n \in Line : n \in Leaves /\ pc[n] = "leaf"
  /\ visits \in 0..MaxVisits /\ stopped \in {"no", "user", "timeout", "limit"}
  /\ expired \subseteq {"node", "invocation"} \X Timed
  /\ winners \subseteq Node /\ \A p \in Node : Cardinality(Winner(p)) <= 1
  /\ superseded \cup outputs \cup unclean \cup recovered \cup published \cup messy \subseteq Node

RunInit ==
  /\ pc = [n \in Node |-> IF n = Root THEN "forking" ELSE "off"]
  /\ result = [n \in Node |-> "none"]
  /\ attempt = [n \in Node |-> 0]
  /\ place = [n \in Node |-> 0] /\ visits = 0 /\ stopped = "no"
  /\ winners = {} /\ expired = {} /\ superseded = {} /\ outputs = {} /\ unclean = {}
  /\ recovered = {} /\ published = {} /\ messy = {}
-----------------------------------------------------------------------------
(***************************************************************************)
(* Aborts, visits and leaves                                               *)
(***************************************************************************)

\* Who queues goes to the end of the line; where others leave, those that stay
\* move up in their order.
JoinLine(who) == [n \in Node |-> IF n \in who THEN Cardinality(Line) + 1 ELSE place[n]]
MovedUp(stay) == [n \in Node |->
  IF n \in stay THEN Cardinality({m \in stay : place[m] <= place[n]}) ELSE 0]

\* Mutant: an abort leaves the queue as it is.
KeepLine == place' = place

\* A leaf that waits for a permit leaves the queue when its signal aborts; one
\* that holds a permit keeps it until it settles.
DropAborted ==
  place' = MovedUp({n \in Line : n \in Running \/ ~BodyAborted(n)'})

Stop(why) == stopped' = IF stopped = "no" THEN why ELSE stopped

\* A node visit; the one too many aborts the whole run.
Visit(n, next, wait) ==
  IF visits < MaxVisits
  THEN /\ visits' = visits + 1 /\ pc' = next /\ place' = JoinLine(wait)
       /\ UNCHANGED <<stopped, result>>
  ELSE /\ Stop("limit")
       /\ pc' = [pc EXCEPT ![n] = "body"] /\ result' = [result EXCEPT ![n] = "fatal"]
       /\ UNCHANGED <<visits, expired, superseded>> /\ DropAborted

FailBody(n) ==
  /\ pc' = [pc EXCEPT ![n] = "body"] /\ result' = [result EXCEPT ![n] = "fatal"]
  /\ UNCHANGED <<place, visits, stopped>>

\* The session of a branch is there: its flow starts.  A request queues for a
\* permit, a parallel node starts its branches and never holds one.
\* Mutant: it holds one.
Queued(n) == {n}

Permit(n) == {n} \cap Leaves

Enter(n) ==
  /\ pc[n] = "forking"
  /\ IF BodyAborted(n) THEN FailBody(n)
     ELSE Visit(n, [m \in Node |-> IF m \in Branches(n) THEN "forking"
                                   ELSE IF m # n THEN pc[m]
                                   ELSE IF n \in Leaves THEN "leaf" ELSE "branches"], Permit(n))
  /\ attempt' = [attempt EXCEPT ![n] = 1]
  /\ UNCHANGED <<expired, superseded, winners, outputs, unclean, recovered, published, messy>>

ForkFails(n) ==
  /\ pc[n] = "forking" /\ n \in Fragile
  /\ pc' = [pc EXCEPT ![n] = "closed"] /\ result' = [result EXCEPT ![n] = "fatal"]
  /\ UNCHANGED <<attempt, place, visits, stopped, expired, superseded, winners, outputs,
                 unclean, recovered, published, messy>>

\* A leaf with a permit settles in its own time, aborted or not.  A failure the
\* policy names is retried, unless the node is aborted.
LeafSettles(n) ==
  /\ pc[n] = "leaf" /\ n \in Running
  /\ place' = MovedUp(Line \ {n})
  /\ \E r \in {"passed", "failed", "fatal"} :
       /\ result' = [result EXCEPT ![n] = r]
       /\ pc' = [pc EXCEPT ![n] =
            IF r = "failed" /\ attempt[n] < Attempts[n] /\ ~BodyAborted(n) THEN "backoff" ELSE "body"]
  /\ UNCHANGED <<attempt, visits, stopped, expired, superseded, winners, outputs, unclean,
                 recovered, published, messy>>

LeafCancelled(n) ==
  /\ pc[n] = "leaf" /\ n \notin Line
  /\ FailBody(n)
  /\ UNCHANGED <<attempt, expired, superseded, winners, outputs, unclean, recovered, published,
                 messy>>

Retry(n) ==
  /\ pc[n] = "backoff"
  /\ IF BodyAborted(n) THEN FailBody(n) /\ UNCHANGED attempt
     ELSE /\ Visit(n, [pc EXCEPT ![n] = "leaf"], {n})
          /\ attempt' = [attempt EXCEPT ![n] = @ + 1]
  /\ UNCHANGED <<expired, superseded, winners, outputs, unclean, recovered, published, messy>>

(***************************************************************************)
(* The end of a node: policy, verdict, join                                *)
(***************************************************************************)

Passed(n) == result[n] = "passed"

\* What an aborted flow fails with: a deadline can be recovered further up, an
\* abort cannot.  Where both have come, either may have been the first.
Timeouts(n) == {<<"invocation", n>>} \cup {"node", "invocation"} \X Above[n]
Cancellation(n) ==
  (IF stopped # "no" \/ ({n} \cup Above[n]) \cap superseded # {} THEN {"fatal"} ELSE {})
  \cup (IF Timeouts(n) \cap expired # {} THEN {"failed"} ELSE {})

\* A handler is a flow of one node, whose visit may be the one too many.
Invoke(n, r, phase) ==
  IF visits < MaxVisits
  THEN /\ visits' = visits + 1 /\ pc' = [pc EXCEPT ![n] = phase]
       /\ result' = [result EXCEPT ![n] = r]
       /\ UNCHANGED <<stopped, place>>
  ELSE /\ Stop("limit")
       /\ pc' = [pc EXCEPT ![n] = "ended"] /\ result' = [result EXCEPT ![n] = "fatal"]
       /\ UNCHANGED <<visits, expired, superseded>> /\ DropAborted

EndWith(n, r) ==
  /\ pc' = [pc EXCEPT ![n] = "ended"]
  /\ result' = [result EXCEPT ![n] = IF r = "passed" /\ CleanupFailed(n) THEN "fatal" ELSE r]
  /\ UNCHANGED <<visits, stopped, place>>

Finish(n, r) ==
  IF n \in Cleaned /\ ~FlowAborted(n) THEN Invoke(n, r, "cleaning") ELSE EndWith(n, r)

\* An aborted body fails; its handler runs while the flow itself goes on.
EndBody(n) ==
  /\ pc[n] = "body"
  /\ \E r \in IF FlowAborted(n) THEN Cancellation(n)
              ELSE {IF BodyExpired(n) THEN "failed" ELSE result[n]} :
       IF r # "passed" /\ n \in Handled /\ ~FlowAborted(n)
       THEN Invoke(n, r, "handling") ELSE Finish(n, r)
  /\ UNCHANGED <<attempt, expired, superseded, winners, outputs, unclean, recovered, published,
                 messy>>

\* Neither a configuration error nor an abort nor a failed clean-up is recovered.
HandlerEnds(n) ==
  /\ pc[n] = "handling"
  /\ \/ /\ result[n] = "failed" /\ ~FlowAborted(n) /\ ~CleanupFailed(n)
        /\ Finish(n, "passed")
        /\ recovered' = recovered \cup {n}
     \/ /\ \E r \in IF FlowAborted(n) THEN Cancellation(n) ELSE {result[n]} : Finish(n, r)
        /\ UNCHANGED recovered
  /\ UNCHANGED <<attempt, expired, superseded, winners, outputs, unclean, published, messy>>

\* Mutant: the outcome of a finally handler is only reported.
Unchanged(n, ok) == {result[n]}

\* A finally handler that fails fails its node, also a passed or recovered one.
AfterCleaning(n, ok) == IF ok \/ ~Passed(n) THEN {result[n]} ELSE {"failed", "fatal"}

CleaningEnds(n) ==
  /\ pc[n] = "cleaning"
  /\ \E ok \in BOOLEAN :
       /\ messy' = IF ok THEN messy ELSE messy \cup {n}
       /\ \E r \in IF FlowAborted(n) THEN Cancellation(n) ELSE AfterCleaning(n, ok) : EndWith(n, r)
  /\ UNCHANGED <<attempt, expired, superseded, winners, outputs, unclean, recovered, published>>

\* The first branch of an any-success node to pass wins and aborts the others
\* that have not settled.
BranchReturns(n) ==
  /\ pc[n] = "ended" /\ n # Root
  /\ LET p == Parent[n]
         good == Passed(n) /\ ~BranchAborted(n)
         wins == good /\ p \in AnySuccess /\ Winner(p) = {} /\ ~BodyAborted(p)
     IN /\ outputs' = IF good THEN outputs \cup {n} ELSE outputs
        /\ winners' = IF wins THEN winners \cup {n} ELSE winners
        /\ superseded' = IF wins
             THEN superseded \cup {m \in Branches(p) \ {n} : pc[m] \notin {"closing", "closed"}}
             ELSE superseded
  /\ pc' = [pc EXCEPT ![n] = "closing"]
  /\ UNCHANGED <<result, attempt, visits, stopped, expired, unclean, recovered, published, messy>>
  /\ DropAborted

CloseSession(n) ==
  /\ pc[n] = "closing"
  /\ pc' = [pc EXCEPT ![n] = "closed"]
  /\ unclean' \in {unclean, unclean \cup ({n} \cap Fragile)}
  /\ UNCHANGED <<result, attempt, place, visits, stopped, expired, superseded, winners, outputs,
                 recovered, published, messy>>

\* Mutant: an any-success node ends with its winner.
WinnerDrained(p) ==
  \A n \in IF Winner(p) # {} THEN Winner(p) ELSE Branches(p) : pc[n] = "closed"

Drained(p) == \A n \in Branches(p) : pc[n] = "closed"

\* All branches are over, also those that ignored their abort.
Join(p) ==
  /\ pc[p] = "branches" /\ Drained(p)
  /\ pc' = [pc EXCEPT ![p] = "body"]
  /\ LET joined == IF p \in AnySuccess THEN Winner(p) # {} ELSE Branches(p) \subseteq outputs
         publish == joined /\ ~CleanupFailed(p) /\ ~BodyAborted(p)
     IN /\ published' = IF publish THEN published \cup {p} ELSE published
        /\ IF publish THEN result' = [result EXCEPT ![p] = "passed"]
           ELSE \E r \in IF CleanupFailed(p) THEN {"fatal"}
                         ELSE ({"fatal"} \cup {result[n] : n \in Branches(p) \ outputs}) \ {"passed"} :
                  result' = [result EXCEPT ![p] = r]
  /\ UNCHANGED <<attempt, place, visits, stopped, expired, superseded, winners, outputs,
                 unclean, recovered, messy>>

RootReturns ==
  /\ pc[Root] = "ended" /\ Line = {}
  /\ pc' = [pc EXCEPT ![Root] = "done"]
  /\ UNCHANGED <<result, attempt, place, visits, stopped, expired, superseded, winners, outputs,
                 unclean, recovered, published, messy>>

(***************************************************************************)
(* What may happen to a run at any time                                    *)
(***************************************************************************)

AbortRoot ==
  /\ pc[Root] # "done" /\ stopped = "no"
  /\ \E why \in {"user", "timeout"} : Stop(why)
  /\ UNCHANGED <<pc, result, attempt, visits, expired, superseded, winners, outputs, unclean,
                 recovered, published, messy>>
  /\ DropAborted

\* The deadline of a node's body, or of the invocation of a branch.
Expire(n) ==
  /\ \E deadline \in {<<"node", n>>, <<"invocation", n>>} \ expired :
       /\ expired' = expired \cup {deadline}
       /\ pc[n] \in {"leaf", "backoff", "branches", "handling", "cleaning"}
       /\ IF deadline = <<"node", n>> THEN pc[n] \notin {"handling", "cleaning"} ELSE n # Root
  /\ UNCHANGED <<pc, result, attempt, visits, stopped, superseded, winners, outputs, unclean,
                 recovered, published, messy>>
  /\ DropAborted

NodeStep(n) ==
  \/ Enter(n) \/ ForkFails(n) \/ LeafSettles(n) \/ LeafCancelled(n) \/ Retry(n)
  \/ EndBody(n) \/ HandlerEnds(n) \/ CleaningEnds(n) \/ BranchReturns(n) \/ CloseSession(n)
  \/ Join(n)

RunNext ==
  \/ RootReturns \/ AbortRoot
  \/ \E n \in Node : NodeStep(n)
  \/ \E n \in Timed : Expire(n)

\* Awaits return: requests have a total timeout, waits and handlers a bound.
RunFairness == WF_runVars(RootReturns) /\ \A n \in Node : WF_runVars(NodeStep(n))

RunSpec == RunInit /\ [][RunNext]_runVars /\ RunFairness
-----------------------------------------------------------------------------
(***************************************************************************)
(* Properties                                                              *)
(***************************************************************************)

\* What entitles a node to pass, given the branches that were: a request that
\* passed, all branches, or one of them; or the recovery of its failure; and in
\* each case that its finally handler, if it has one, did not fail.
Earned(n, good) ==
  /\ n \notin messy
  /\ \/ n \in recovered
     \/ n \in Leaves /\ Passed(n)
     \/ n \in AnySuccess /\ Branches(n) \cap outputs \cap good # {}
     \/ n \notin Leaves \cup AnySuccess /\ Branches(n) \subseteq outputs \cap good

\* A run that passes has what it takes, down to its requests, and no session of
\* it, in whatever branch, was left open: neither a winner nor a handler above
\* hides that.
PassIsEarned ==
  pc[Root] \in {"ended", "done"} /\ Passed(Root) =>
    /\ \E good \in SUBSET Node : Root \in good /\ \A n \in good : Earned(n, good)
    /\ unclean = {}

\* When the root returns, no leaf waits or runs and no branch has a session
\* open, also those that lost or ignored their abort.
NothingOutlivesRoot ==
  pc[Root] \in {"ended", "done"} =>
    Line = {} /\ \A n \in Node \ {Root} : pc[n] \in {"off", "closed"}

\* From the abort of a node on, for whatever reason, none of its leaves and
\* handlers is started, nothing of it is published or recovered and no branch
\* of it wins.
AbortIsFinal ==
  [][\A n \in Node :
       /\ BodyAborted(n) => /\ n \in Running' => n \in Running
                            /\ n \in published' => n \in published
                            /\ Winner(n)' = Winner(n)
       /\ FlowAborted(n) => /\ n \in recovered' => n \in recovered
                            /\ pc'[n] \in {"handling", "cleaning"} => pc'[n] = pc[n]]_runVars

\* Nested joins never starve each other of permits: every run returns.
RootEnds == <>(pc[Root] = "done")
=============================================================================
