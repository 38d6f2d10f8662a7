--------------------------- MODULE WorkflowRunProofs ---------------------------
(***************************************************************************)
(* What holds of a workflow run for every tree of flows, every number of   *)
(* permits, attempts and visits, and whatever fails or is aborted.         *)
(*                                                                         *)
(* Nested says how the flows of a tree wait for each other, InOrder what   *)
(* the line for permits looks like and that no one in it waits for what    *)
(* was aborted, Entitled what a node that passed rests on: it holds long   *)
(* before the node ends, and says of its branches only what cannot change  *)
(* any more.                                                               *)
(***************************************************************************)
EXTENDS WorkflowRun, FiniteSetTheorems, TLAPS

Idle == {"off", "closed"}

\* A branch is at work only while its parallel node waits for it, and has done
\* nothing before that.
Nested ==
  \A n \in Node \ {Root} :
    /\ pc[n] \notin Idle => pc[Parent[n]] = "branches"
    /\ pc[Parent[n]] \in {"off", "forking"} => pc[n] = "off"

\* Places are taken once, from the first on; only who holds a permit may be
\* aborted and still be in the line.
Distinct == \A n, m \in Line : place[n] = place[m] => n = m
Dense == \A n \in Line : place[n] <= Cardinality(Line)
Wanted == \A n \in Line : n \in Running \/ ~BodyAborted(n)
InOrder == Distinct /\ Dense /\ Wanted

\* What a node that passed rests on.
Founded(n) ==
  \/ n \in recovered \cup Leaves
  \/ n \in AnySuccess /\ Branches(n) \cap outputs # {}
  \/ n \notin AnySuccess /\ Branches(n) \subseteq outputs
Ended == {"ended", "closing", "closed", "done"}
Entitled ==
  /\ \A n \in Node : Passed(n) => Founded(n)
  /\ \A n \in outputs : Passed(n) /\ pc[n] \in {"closing", "closed"}
  /\ \A n \in messy : ~Passed(n) /\ pc[n] \in Ended
  /\ winners \subseteq outputs

\* Where a request is and how often it was tried; what the root found closed.
Placed ==
  /\ \A n \in Node : pc[n] \in {"leaf", "backoff"} => n \in Leaves
  /\ \A n \in Node : pc[n] = "backoff" => attempt[n] < Attempts[n]
  /\ pc[Root] \in {"ended", "done"} /\ Passed(Root) => unclean = {}

RunInv == RunTypeOK /\ Nested /\ InOrder /\ Entitled /\ Placed
-----------------------------------------------------------------------------
(***************************************************************************)
(* The line                                                                *)
(***************************************************************************)

\* Whatever set of flows is counted has a count.
LEMMA CountsAreNumbers ==
  ASSUME NEW S \in SUBSET Node
  PROVE  IsFiniteSet(S) /\ Cardinality(S) \in Nat /\ (S # {} => Cardinality(S) > 0)
<1>1. IsFiniteSet(S)
  BY RunTree, FS_Subset
<1>2. Cardinality(S) \in Nat /\ (Cardinality(S) = 0 <=> S = {})
  BY <1>1, FS_CardinalityType, FS_EmptySet
<1> QED
  BY <1>1, <1>2

\* Those who stay keep their order and only move up.
LEMMA MovesUp ==
  ASSUME place \in [Node -> Nat], Distinct, NEW stay \in SUBSET Line, place' = MovedUp(stay)
  PROVE  /\ place' \in [Node -> Nat] /\ Line' = stay /\ Distinct' /\ Dense'
         /\ \A n \in stay : place'[n] <= place[n]
<1> DEFINE upto(n) == {m \in stay : place[m] <= place[n]}
<1>1. stay \subseteq Node /\ Line \subseteq Node
  BY DEF Line
<1>2. \A n \in stay : /\ n \in upto(n) /\ upto(n) \in SUBSET Node /\ upto(n) \in SUBSET stay
                      /\ place[n] \in Nat
  BY <1>1
<1>3. \A n \in stay : /\ IsFiniteSet(upto(n)) /\ Cardinality(upto(n)) \in Nat
                      /\ Cardinality(upto(n)) > 0
  BY <1>2, CountsAreNumbers
<1>4. \A n \in Node : place'[n] = IF n \in stay THEN Cardinality(upto(n)) ELSE 0
  BY DEF MovedUp
<1>5. place' \in [Node -> Nat]
  BY <1>3 DEF MovedUp
<1>6. Line' = stay
  <2>1. \A n \in stay : place'[n] # 0
    <3> HIDE DEF upto
    <3> QED
      BY <1>1, <1>3, <1>4
  <2>2. \A n \in Node \ stay : place'[n] = 0
    BY <1>4
  <2> QED
    BY <1>1, <2>1, <2>2 DEF Line
<1>7. ASSUME NEW n \in stay, NEW m \in stay, place'[n] = place'[m], place[n] <= place[m]
      PROVE  n = m
  <2>1. upto(n) \in SUBSET upto(m)
    BY <1>1, <1>2, <1>7
  <2>2. Cardinality(upto(n)) = Cardinality(upto(m))
    BY <1>1, <1>4, <1>7
  <2>3. upto(n) = upto(m)
    <3> HIDE DEF upto
    <3> QED
      BY <1>3, <2>1, <2>2, FS_Subset
  <2>4. place[m] <= place[n]
    BY <1>2, <2>3
  <2>5. place[n] = place[m]
    BY <1>2, <1>7, <2>4
  <2> QED
    BY <2>5 DEF Distinct
<1>8. Distinct'
  <2>1. ASSUME NEW n \in stay, NEW m \in stay, place'[n] = place'[m]
        PROVE  n = m
    <3>1. place[n] <= place[m] \/ place[m] <= place[n]
      BY <1>2
    <3> QED
      BY <1>7, <2>1, <3>1
  <2> QED
    BY <1>6, <2>1 DEF Distinct
<1>9. Dense'
  <2>1. ASSUME NEW n \in stay
        PROVE  place'[n] <= Cardinality(stay)
    <3>1. IsFiniteSet(stay)
      BY <1>1, CountsAreNumbers
    <3>2. Cardinality(upto(n)) <= Cardinality(stay)
      <4> HIDE DEF upto
      <4> QED
        BY <1>2, <3>1, FS_Subset
    <3> QED
      BY <1>1, <1>4, <3>2
  <2> QED
    BY <1>6, <2>1 DEF Dense
<1>10. ASSUME NEW n \in stay
       PROVE  place'[n] <= place[n]
  <2> DEFINE f == [m \in upto(n) |-> place[m]]
  <2>1. \A m \in upto(n) : place[m] \in 1..place[n] /\ m \in Line
    BY <1>1 DEF Line
  <2>2. f \in Injection(upto(n), 1..place[n])
    <3>1. f \in [upto(n) -> 1..place[n]]
      BY <2>1
    <3>2. \A a, b \in upto(n) : f[a] = f[b] => a = b
      BY <2>1 DEF Distinct
    <3> QED
      BY <3>1, <3>2 DEF Injection, IsInjective
  <2>3. IsFiniteSet(1..place[n]) /\ Cardinality(1..place[n]) = place[n]
    BY <1>2, FS_Interval
  <2>4. Cardinality(upto(n)) <= Cardinality(1..place[n])
    <3> HIDE DEF upto, f
    <3> QED
      BY <2>2, <2>3, FS_Injection
  <2> QED
    BY <1>1, <1>4, <2>3, <2>4
<1> QED
  BY <1>5, <1>6, <1>8, <1>9, <1>10

\* Who joins comes last, and nobody else moves.
LEMMA JoinsLine ==
  ASSUME place \in [Node -> Nat], Distinct, Dense, NEW n \in Node \ Line, place' = JoinLine({n})
  PROVE  /\ place' \in [Node -> Nat] /\ Line' = Line \cup {n} /\ Distinct' /\ Dense'
         /\ \A m \in Line : place'[m] = place[m]
<1>1. Line \in SUBSET Node /\ Cardinality(Line) \in Nat /\ IsFiniteSet(Line)
  BY CountsAreNumbers DEF Line
<1>2. /\ place'[n] = Cardinality(Line) + 1
      /\ \A m \in Node \ {n} : place'[m] = place[m]
      /\ place' \in [Node -> Nat]
  BY <1>1 DEF JoinLine
<1>3. Line' = Line \cup {n}
  BY <1>1, <1>2 DEF Line
<1>4. \A m \in Line : m \in Node \ {n} /\ place'[m] = place[m] /\ place[m] \in Nat
  BY <1>1, <1>2
<1>5. \A m \in Line : place'[m] < place'[n]
  BY <1>1, <1>2, <1>4 DEF Dense
<1>6. Distinct'
  BY <1>3, <1>4, <1>5 DEF Distinct
<1>7. Cardinality(Line \cup {n}) = Cardinality(Line) + 1
  BY <1>1, FS_AddElement
<1>8. Dense'
  <2>1. Cardinality(Line') = Cardinality(Line) + 1
    BY <1>3, <1>7
  <2>2. \A m \in Line : place'[m] <= Cardinality(Line) + 1
    BY <1>1, <1>4 DEF Dense
  <2>3. \A m \in Line \cup {n} : place'[m] <= Cardinality(Line) + 1
    BY <1>1, <1>2, <2>2
  <2> QED
    BY <1>3, <2>1, <2>3, Zenon DEF Dense
<1> QED
  BY <1>2, <1>3, <1>4, <1>6, <1>8

\* Nobody waits for a permit that is free: the places are all taken, up to the
\* last one in the line.
LEMMA PlacesTaken ==
  ASSUME place \in [Node -> Nat], Distinct, Dense
  PROVE  \A k \in 1..Cardinality(Line) : \E n \in Line : place[n] = k
<1> DEFINE f == [n \in Line |-> place[n]]
<1>1. Line \in SUBSET Node /\ IsFiniteSet(Line) /\ Cardinality(Line) \in Nat
  BY CountsAreNumbers DEF Line
<1>2. \A n \in Line : place[n] \in 1..Cardinality(Line)
  BY <1>1 DEF Dense, Line
<1>3. f \in Injection(Line, 1..Cardinality(Line))
  <2>1. f \in [Line -> 1..Cardinality(Line)]
    BY <1>2
  <2>2. \A a, b \in Line : f[a] = f[b] => a = b
    BY DEF Distinct
  <2> QED
    BY <2>1, <2>2 DEF Injection, IsInjective
<1>4. IsFiniteSet(1..Cardinality(Line)) /\ Cardinality(1..Cardinality(Line)) = Cardinality(Line)
  BY <1>1, FS_Interval
<1>5. \A n \in Line : f[n] = place[n]
  OBVIOUS
<1> HIDE DEF f
<1>6. f \in Surjection(Line, 1..Cardinality(Line))
  BY <1>3, <1>4, FS_Injection
<1>7. \A k \in 1..Cardinality(Line) : \E n \in Line : f[n] = k
  BY <1>6 DEF Surjection
<1> QED
  BY <1>5, <1>7

\* As many run as have permits: never more, and no fewer while anyone waits.
LEMMA PermitsFit ==
  ASSUME place \in [Node -> Nat], Distinct, Dense
  PROVE  /\ Cardinality(Running) <= MaxConcurrency
         /\ Line # Running => Cardinality(Running) = MaxConcurrency
<1> DEFINE f == [n \in Running |-> place[n]]
<1>1. \A n \in Running : n \in Line /\ place[n] \in 1..MaxConcurrency
  BY RunLimits DEF Running, Line
<1>2. f \in Injection(Running, 1..MaxConcurrency)
  <2>1. f \in [Running -> 1..MaxConcurrency]
    BY <1>1
  <2>2. \A a, b \in Running : f[a] = f[b] => a = b
    BY <1>1 DEF Distinct
  <2> QED
    BY <2>1, <2>2 DEF Injection, IsInjective
<1>3. IsFiniteSet(1..MaxConcurrency) /\ Cardinality(1..MaxConcurrency) = MaxConcurrency
  BY RunLimits, FS_Interval
<1>4. ASSUME Line # Running
      PROVE  f \in Surjection(Running, 1..MaxConcurrency)
  <2>1. PICK n \in Line : ~(place[n] <= MaxConcurrency)
    BY <1>4 DEF Running
  <2>2. place[n] \in Nat /\ place[n] <= Cardinality(Line) /\ Cardinality(Line) \in Nat
    BY CountsAreNumbers DEF Dense, Line
  <2>3. 1..MaxConcurrency \subseteq 1..Cardinality(Line)
    BY <2>1, <2>2, RunLimits
  <2>4. \A k \in 1..MaxConcurrency : \E m \in Running : place[m] = k
    BY <2>3, PlacesTaken, RunLimits DEF Running
  <2>5. \A k \in 1..MaxConcurrency : \E m \in Running : f[m] = k
    BY <2>4
  <2>6. f \in [Running -> 1..MaxConcurrency]
    BY <1>2 DEF Injection
  <2> HIDE DEF f
  <2> QED
    BY <2>5, <2>6 DEF Surjection
<1> HIDE DEF f
<1> QED
  BY <1>2, <1>3, <1>4, FS_Injection
-----------------------------------------------------------------------------
(***************************************************************************)
(* Aborts                                                                  *)
(***************************************************************************)

SameFlags == UNCHANGED <<stopped, expired, superseded>>

\* Whatever is not aborted is not aborted by a step that sets no flag.
LEMMA FlagsKept ==
  ASSUME SameFlags, NEW n \in Node
  PROVE  BodyAborted(n)' <=> BodyAborted(n)
BY DEF SameFlags, BodyAborted, FlowAborted, BranchAborted, BodyExpired, OwnAbort

\* What a step may do to the line.
LineStep ==
  \/ place' = place /\ SameFlags
  \/ SameFlags /\ \E n \in Node \ Line : ~BodyAborted(n) /\ place' = JoinLine({n})
  \/ SameFlags /\ \E n \in Line : place' = MovedUp(Line \ {n})
  \/ DropAborted

\* Such a step keeps the line in order, and gives no permit to what is aborted.
LEMMA LineKeeps ==
  ASSUME RunTypeOK, InOrder, LineStep
  PROVE  /\ place' \in [Node -> Nat] /\ InOrder'
         /\ \A n \in Node : BodyAborted(n) /\ n \in Running' => n \in Running
<1>1. place \in [Node -> Nat] /\ Distinct /\ Dense /\ Wanted /\ Line \subseteq Node
  BY DEF RunTypeOK, InOrder, Line
<1>2. CASE place' = place /\ SameFlags
  <2>1. Line' = Line /\ Running' = Running
    BY <1>2 DEF Line, Running
  <2>2. Distinct' /\ Dense'
    BY <1>1, <1>2, <2>1 DEF Distinct, Dense
  <2>3. Wanted'
    BY <1>1, <1>2, <2>1, FlagsKept DEF Wanted
  <2> QED
    BY <1>1, <1>2, <2>1, <2>2, <2>3 DEF InOrder
<1>3. ASSUME SameFlags, NEW n \in Node \ Line, ~BodyAborted(n), place' = JoinLine({n})
      PROVE  /\ place' \in [Node -> Nat] /\ InOrder'
             /\ \A m \in Node : BodyAborted(m) /\ m \in Running' => m \in Running
  <2>1. /\ place' \in [Node -> Nat] /\ Line' = Line \cup {n} /\ Distinct' /\ Dense'
        /\ \A m \in Line : place'[m] = place[m]
    BY <1>1, <1>3, JoinsLine
  <2>2. \A m \in Line : m \in Running' <=> m \in Running
    BY <2>1 DEF Running
  <2>3. Wanted'
    BY <1>1, <1>3, <2>1, <2>2, FlagsKept DEF Wanted
  <2>4. Running' \subseteq Line'
    BY DEF Running
  <2> QED
    BY <1>3, <2>1, <2>2, <2>3, <2>4 DEF InOrder
<1>4. ASSUME NEW stay \in SUBSET Line, place' = MovedUp(stay),
             \A m \in stay : m \in Running \/ ~BodyAborted(m)'
      PROVE  /\ place' \in [Node -> Nat] /\ InOrder'
             /\ \A m \in Node : BodyAborted(m) /\ m \in Running' => m \in Running
  <2>1. /\ place' \in [Node -> Nat] /\ Line' = stay /\ Distinct' /\ Dense'
        /\ \A m \in stay : place'[m] <= place[m]
    BY <1>1, <1>4, MovesUp
  <2>2. \A m \in stay : m \in Running => m \in Running'
    <3>1. \A m \in stay : place'[m] \in Nat /\ place[m] \in Nat
      BY <1>1, <2>1
    <3> QED
      BY <2>1, <3>1, RunLimits DEF Running
  <2>3. Wanted'
    BY <1>4, <2>1, <2>2 DEF Wanted
  <2>4. Running' \subseteq stay
    BY <2>1 DEF Running
  <2> QED
    BY <1>1, <2>1, <2>3, <2>4 DEF InOrder, Wanted
<1>5. ASSUME SameFlags, NEW n \in Line, place' = MovedUp(Line \ {n})
      PROVE  /\ place' \in [Node -> Nat] /\ InOrder'
             /\ \A m \in Node : BodyAborted(m) /\ m \in Running' => m \in Running
  <2>1. \A m \in Line \ {n} : m \in Running \/ ~BodyAborted(m)'
    BY <1>1, <1>5, FlagsKept DEF Wanted
  <2> QED
    BY <1>4, <1>5, <2>1
<1>6. CASE DropAborted
  BY <1>4, <1>6 DEF DropAborted
<1> QED
  BY <1>2, <1>3, <1>5, <1>6 DEF LineStep
-----------------------------------------------------------------------------
(***************************************************************************)
(* A flow's own steps                                                      *)
(***************************************************************************)

Points == {"off", "forking", "leaf", "backoff", "branches", "body",
           "handling", "cleaning", "ended", "closing", "closed", "done"}
Verdicts == {"none", "passed", "failed", "fatal"}

\* What a step of n leaves to the others: n goes to x with verdict r and
\* attempt a, and the line has at most n as a new member.
Own(n, x, r, a) ==
  /\ pc' = [pc EXCEPT ![n] = x] /\ result' = [result EXCEPT ![n] = r]
  /\ attempt' = [attempt EXCEPT ![n] = a]
  /\ \A m \in Line' : m = n \/ m \in Line
  /\ n \in Line' => x = "leaf"
  /\ visits' \in 0..MaxVisits /\ stopped' \in {"no", "user", "timeout", "limit"}
  /\ UNCHANGED <<expired, superseded, winners, outputs, unclean>>
  /\ recovered' \in {recovered, recovered \cup {n}}
  /\ published' \in {published, published \cup {n}}
  /\ messy' \in {messy, messy \cup {n}}

\* A flow that is at work, and at nothing that its branches wait for.
AtWork == Points \ {"off", "ended", "closing", "closed", "done"}
Onward == Points \ {"off", "forking", "branches", "closing", "done"}

\* The facts about the tree survive a step of one flow: its branches have not
\* begun, or are over.
LEMMA OwnNested ==
  ASSUME Nested, RunTypeOK, NEW n \in Node, NEW x \in Points \ {"off", "forking", "branches"},
         pc' = [pc EXCEPT ![n] = x], pc[n] \notin Idle,
         pc[n] = "branches" => Drained(n)
  PROVE  Nested'
<1>1. pc \in [Node -> Points] /\ \A m \in Node : pc'[m] = IF m = n THEN x ELSE pc[m]
  BY DEF RunTypeOK, Points
<1>2. \A m \in Branches(n) : m \in Node \ {Root} /\ Parent[m] = n
  BY DEF Branches
<1>3. \A m \in Node \ {Root} : Parent[m] \in Node /\ (Parent[m] = n => m \in Branches(n))
  BY RunTree DEF Branches
<1>4. x \notin {"off", "forking", "branches"} /\ pc[n] \notin Idle
  OBVIOUS
<1>5. \A m \in Branches(n) : pc[m] \in Idle /\ m # n
  BY <1>2, <1>4 DEF Nested, Drained, Idle
<1>6. ASSUME NEW m \in Node \ {Root}
      PROVE  /\ pc'[m] \notin Idle => pc'[Parent[m]] = "branches"
             /\ pc'[Parent[m]] \in {"off", "forking"} => pc'[m] = "off"
  <2>1. CASE Parent[m] = n
    BY <1>1, <1>3, <1>4, <1>5, <2>1
  <2>2. CASE Parent[m] # n
    <3>1. pc'[Parent[m]] = pc[Parent[m]]
      BY <1>1, <1>3, <2>2
    <3>2. pc'[m] \notin Idle => pc[m] \notin Idle
      BY <1>1, <1>4
    <3>3. pc[Parent[m]] \in {"off", "forking"} => m # n
      BY <1>4 DEF Nested, Idle
    <3> QED
      BY <1>1, <3>1, <3>2, <3>3 DEF Nested
  <2> QED
    BY <2>1, <2>2
<1> QED
  BY <1>6 DEF Nested

\* So does the whole invariant.
LEMMA OwnKeeps ==
  ASSUME RunInv, NEW n \in Node, NEW x \in Onward, NEW r \in Verdicts, NEW a \in Nat,
         Own(n, x, r, a), LineStep, a <= Attempts[n], pc[n] \in AtWork,
         pc[n] = "branches" => Drained(n),
         x \in {"leaf", "backoff"} => n \in Leaves,
         x = "backoff" => a < Attempts[n],
         r = "passed" => Founded(n)',
         n \in messy' => r # "passed" /\ x \in Ended,
         x = "ended" /\ r = "passed" => unclean = {}
  PROVE  RunInv'
<1>1. RunTypeOK /\ Nested /\ InOrder /\ Entitled /\ Placed
  BY DEF RunInv
<1>2. /\ pc \in [Node -> Points] /\ result \in [Node -> Verdicts] /\ attempt \in [Node -> Nat]
      /\ x \in Points /\ x \notin {"off", "forking", "branches", "closing", "done"}
  BY <1>1 DEF RunTypeOK, Points, Verdicts, Onward
<1>3. /\ \A m \in Node : pc'[m] = IF m = n THEN x ELSE pc[m]
      /\ \A m \in Node : result'[m] = IF m = n THEN r ELSE result[m]
      /\ \A m \in Node : attempt'[m] = IF m = n THEN a ELSE attempt[m]
  BY <1>2 DEF Own
<1>4. /\ place' \in [Node -> Nat] /\ InOrder'
  BY <1>1, LineKeeps
<1>5. Nested'
  <2>1. x \in Points \ {"off", "forking", "branches"} /\ pc[n] \notin Idle
    BY DEF Onward, AtWork, Idle
  <2> QED
    BY <1>1, <2>1, OwnNested DEF Own
<1>6. RunTypeOK'
  <2>1. pc' \in [Node -> Points] /\ result' \in [Node -> Verdicts] /\ attempt' \in [Node -> Nat]
    BY <1>2 DEF Own
  <2>2. \A m \in Node : attempt'[m] <= Attempts[m]
    BY <1>1, <1>3 DEF RunTypeOK
  <2>3. \A m \in Line' : m \in Leaves /\ pc'[m] = "leaf"
    <3>1. Line' \subseteq Node
      BY DEF Line
    <3>2. ASSUME NEW m \in Line'
          PROVE  m \in Leaves /\ pc'[m] = "leaf"
      BY <1>1, <1>3, <3>1, <3>2 DEF Own, RunTypeOK
    <3> QED
      BY <3>2
  <2>4. /\ visits' \in 0..MaxVisits /\ stopped' \in {"no", "user", "timeout", "limit"}
        /\ expired' \subseteq {"node", "invocation"} \X Timed
    BY <1>1 DEF Own, RunTypeOK
  <2>5. winners' \subseteq Node /\ \A p \in Node : Cardinality(Winner(p)') <= 1
    BY <1>1 DEF Own, RunTypeOK, Winner
  <2>6. superseded' \cup outputs' \cup unclean' \cup recovered' \cup published' \cup messy'
          \subseteq Node
    BY <1>1 DEF Own, RunTypeOK
  <2> QED
    BY <1>4, <2>1, <2>2, <2>3, <2>4, <2>5, <2>6 DEF RunTypeOK, Points, Verdicts
<1>7. Entitled'
  <2>1. recovered \subseteq recovered' /\ outputs' = outputs /\ winners' = winners
    BY DEF Own
  <2>2. \A m \in Node : m # n => (Founded(m) => Founded(m)')
    BY <2>1 DEF Founded
  <2>3. \A m \in Node : Passed(m)' => Founded(m)'
    BY <1>1, <1>3, <2>2 DEF Passed, Entitled
  <2>4. n \notin outputs /\ outputs \subseteq Node
    BY <1>1 DEF Entitled, AtWork, RunTypeOK
  <2>5. \A m \in outputs' : Passed(m)' /\ pc'[m] \in {"closing", "closed"}
    BY <1>1, <1>3, <2>1, <2>4 DEF Passed, Entitled
  <2>6. \A m \in messy' : ~Passed(m)' /\ pc'[m] \in Ended
    <3>1. \A m \in messy' : m = n \/ m \in messy
      BY DEF Own
    <3>2. messy \subseteq Node
      BY <1>1 DEF RunTypeOK
    <3>3. \A m \in messy : ~Passed(m) /\ pc[m] \in Ended
      BY <1>1 DEF Entitled
    <3> QED
      BY <1>3, <3>1, <3>2, <3>3 DEF Passed
  <2> QED
    BY <1>1, <2>1, <2>3, <2>5, <2>6 DEF Entitled
<1>8. Placed'
  <2>1. Root \in Node /\ unclean' = unclean
    BY RunTree DEF Own
  <2>2. \A m \in Node : pc'[m] \in {"leaf", "backoff"} => m \in Leaves
    BY <1>1, <1>3 DEF Placed
  <2>3. \A m \in Node : pc'[m] = "backoff" => attempt'[m] < Attempts[m]
    BY <1>1, <1>3 DEF Placed
  <2>4. pc'[Root] \in {"ended", "done"} /\ Passed(Root)' => unclean' = {}
    BY <1>1, <1>2, <1>3, <2>1 DEF Placed, Passed
  <2> QED
    BY <2>2, <2>3, <2>4 DEF Placed
<1> QED
  BY <1>4, <1>5, <1>6, <1>7, <1>8 DEF RunInv

\* What the steps do to who is in the line, and what a flow at work is not yet.
LEMMA LineFacts ==
  ASSUME RunInv
  PROVE  /\ place' = place => Line' = Line
         /\ place' = JoinLine({}) => place' = place
         /\ \A n \in Node \ Line : place' = JoinLine({n}) => Line' = Line \cup {n}
         /\ \A n \in Line : place' = MovedUp(Line \ {n}) => Line' = Line \ {n}
         /\ DropAborted => Line' \subseteq Line
         /\ Line \subseteq Node /\ \A n \in Line : pc[n] = "leaf" /\ n \in Leaves
<1>1. place \in [Node -> Nat] /\ Distinct /\ Dense
  BY DEF RunInv, RunTypeOK, InOrder
<1>2. place' = place => Line' = Line
  BY DEF Line
<1>3. place' = JoinLine({}) => place' = place
  BY <1>1 DEF JoinLine
<1>4. \A n \in Node \ Line : place' = JoinLine({n}) => Line' = Line \cup {n}
  BY <1>1, JoinsLine
<1>5. \A stay \in SUBSET Line : place' = MovedUp(stay) => Line' = stay
  BY <1>1, MovesUp
<1>6. \A n \in Line : place' = MovedUp(Line \ {n}) => Line' = Line \ {n}
  BY <1>5
<1>7. DropAborted => Line' \subseteq Line
  BY <1>5 DEF DropAborted
<1> QED
  BY <1>2, <1>3, <1>4, <1>6, <1>7 DEF RunInv, RunTypeOK, Line

\* The parts of a state that keeps the invariant.
LEMMA FlowFacts ==
  ASSUME RunInv, NEW n \in Node
  PROVE  /\ pc \in [Node -> Points] /\ result \in [Node -> Verdicts] /\ attempt \in [Node -> Nat]
         /\ attempt[n] <= Attempts[n] /\ Attempts[n] \in Nat \ {0}
         /\ visits \in 0..MaxVisits /\ MaxVisits \in Nat
         /\ stopped \in {"no", "user", "timeout", "limit"}
         /\ pc[n] \in AtWork => n \notin messy /\ n \notin outputs
         /\ pc[n] \in {"leaf", "backoff"} => n \in Leaves
         /\ pc[n] = "backoff" => attempt[n] < Attempts[n]
         /\ Passed(n) => Founded(n)
         /\ attempt = [attempt EXCEPT ![n] = attempt[n]]
<1>1. RunTypeOK /\ Entitled /\ Placed
  BY DEF RunInv
<1>2. attempt = [attempt EXCEPT ![n] = attempt[n]]
  BY <1>1 DEF RunTypeOK
<1> QED
  BY <1>1, <1>2, RunLimits DEF RunTypeOK, Points, Verdicts, Entitled, Placed, AtWork, Ended

\* A flow that cannot be started or tried again, since it is aborted or its
\* visit was the one too many, fails.
LEMMA FailureKeeps ==
  ASSUME RunInv, NEW n \in Node, NEW x \in {"body", "closed"}, NEW a \in Nat, a <= Attempts[n],
         pc[n] \in {"forking", "leaf", "backoff"}, n \notin Line,
         pc' = [pc EXCEPT ![n] = x], result' = [result EXCEPT ![n] = "fatal"],
         attempt' = [attempt EXCEPT ![n] = a],
         (place' = place /\ stopped' = stopped) \/ (DropAborted /\ Stop("limit")),
         UNCHANGED <<visits, expired, superseded, winners, outputs, unclean, recovered,
                     published, messy>>
  PROVE  RunInv'
<1>1. \A m \in Line' : m \in Line
  BY LineFacts
<1>2. visits' \in 0..MaxVisits /\ stopped' \in {"no", "user", "timeout", "limit"}
  BY FlowFacts DEF Stop
<1>3. Own(n, x, "fatal", a)
  BY <1>1, <1>2 DEF Own
<1>4. LineStep
  BY DEF LineStep, SameFlags
<1>5. n \notin messy' /\ pc[n] \in AtWork /\ pc[n] # "branches"
  BY FlowFacts DEF AtWork, Points
<1>6. x \in Onward /\ "fatal" \in Verdicts /\ x \notin {"leaf", "backoff", "ended"}
  BY DEF Onward, Points, Verdicts
<1> QED
  BY <1>3, <1>4, <1>5, <1>6, OwnKeeps

\* A node whose body, handler or finally handler has ended goes on to the next,
\* or ends; with a session left open it does not pass.
LEMMA EndKeeps ==
  ASSUME RunInv, NEW n \in Node, NEW r \in Verdicts, pc[n] \in {"body", "handling", "cleaning"},
         EndWith(n, r) \/ \E phase \in {"handling", "cleaning"} : Invoke(n, r, phase),
         UNCHANGED <<attempt, expired, superseded, winners, outputs, unclean, published>>,
         recovered' \in {recovered, recovered \cup {n}}, messy' \in {messy, messy \cup {n}},
         r = "passed" => Founded(n)',
         n \in messy' => r # "passed" /\ EndWith(n, r)
  PROVE  RunInv'
<1>1. n \notin Line /\ pc[n] \in AtWork /\ pc[n] # "branches"
  BY LineFacts DEF AtWork, Points
<1>2. "fatal" \in Verdicts /\ {"ended", "handling", "cleaning"} \subseteq Onward
  BY DEF Verdicts, Onward, Points
<1>3. visits \in 0..MaxVisits /\ (visits < MaxVisits => visits + 1 \in 0..MaxVisits)
  BY FlowFacts
<1>4. attempt' = [attempt EXCEPT ![n] = attempt[n]] /\ attempt[n] \in Nat /\ attempt[n] <= Attempts[n]
  BY FlowFacts
<1>5. stopped \in {"no", "user", "timeout", "limit"}
  BY FlowFacts
<1>6. CASE EndWith(n, r)
  <2> DEFINE r2 == IF r = "passed" /\ CleanupFailed(n) THEN "fatal" ELSE r
  <2>1. Line' = Line /\ LineStep
    BY <1>6, LineFacts DEF EndWith, LineStep, SameFlags
  <2>2. Own(n, "ended", r2, attempt[n])
    BY <1>1, <1>3, <1>4, <1>5, <1>6, <2>1 DEF Own, EndWith
  <2>3. r2 \in Verdicts /\ (r2 = "passed" => r = "passed" /\ unclean = {})
    BY <1>2 DEF CleanupFailed
  <2>4. "ended" \in Ended
    BY DEF Ended
  <2> HIDE DEF r2
  <2> QED
    BY <1>1, <1>2, <1>4, <2>1, <2>2, <2>3, <2>4, OwnKeeps
<1>7. ASSUME NEW phase \in {"handling", "cleaning"}, Invoke(n, r, phase), ~EndWith(n, r)
      PROVE  RunInv'
  <2>1. CASE visits < MaxVisits
    <3>1. Line' = Line /\ LineStep
      BY <1>7, <2>1, LineFacts DEF Invoke, LineStep, SameFlags
    <3>2. Own(n, phase, r, attempt[n])
      BY <1>1, <1>3, <1>4, <1>5, <1>7, <2>1, <3>1 DEF Own, Invoke
    <3> QED
      BY <1>1, <1>2, <1>4, <1>7, <3>1, <3>2, OwnKeeps
  <2>2. CASE ~(visits < MaxVisits)
    <3>1. Line' \subseteq Line /\ LineStep /\ Stop("limit")
      BY <1>7, <2>2, LineFacts DEF Invoke, LineStep
    <3>2. stopped' \in {"no", "user", "timeout", "limit"}
      BY <1>5, <3>1 DEF Stop
    <3>3. Own(n, "ended", "fatal", attempt[n])
      BY <1>1, <1>3, <1>4, <1>7, <2>2, <3>1, <3>2 DEF Own, Invoke
    <3>4. n \notin messy'
      BY <1>7
    <3> QED
      BY <1>1, <1>2, <1>4, <3>1, <3>3, <3>4, OwnKeeps
  <2> QED
    BY <2>1, <2>2
<1> QED
  BY <1>6, <1>7
-----------------------------------------------------------------------------
(***************************************************************************)
(* Each step keeps the invariant                                           *)
(***************************************************************************)

\* A parallel node that starts starts its branches, which have not begun; a
\* request goes to the end of the line.
LEMMA StartKeeps ==
  ASSUME RunInv, NEW n \in Node, pc[n] = "forking", ~BodyAborted(n), visits < MaxVisits,
         pc' = [m \in Node |-> IF m \in Branches(n) THEN "forking"
                               ELSE IF m # n THEN pc[m]
                               ELSE IF n \in Leaves THEN "leaf" ELSE "branches"],
         place' = JoinLine(Permit(n)), visits' = visits + 1,
         attempt' = [attempt EXCEPT ![n] = 1],
         UNCHANGED <<stopped, result, expired, superseded, winners, outputs, unclean, recovered,
                     published, messy>>
  PROVE  RunInv'
<1>1. RunTypeOK /\ Nested /\ InOrder /\ Entitled /\ Placed
  BY DEF RunInv
<1>2. /\ pc \in [Node -> Points] /\ attempt \in [Node -> Nat] /\ n \notin Line
      /\ \A m \in Node : Attempts[m] \in Nat \ {0}
  BY <1>1, FlowFacts, LineFacts
<1>3. \A m \in Branches(n) : m \in Node \ {Root} /\ Parent[m] = n /\ pc[m] = "off" /\ m # n
  BY <1>1 DEF Branches, Nested
<1>4. \A m \in Node : /\ m \in Branches(n) => pc'[m] = "forking"
                      /\ m = n => pc'[m] = IF n \in Leaves THEN "leaf" ELSE "branches"
                      /\ m # n /\ m \notin Branches(n) => pc'[m] = pc[m]
  BY <1>3
<1>5. n \in Leaves => Branches(n) = {}
  BY DEF Leaves
<1>6. LineStep /\ Line' = Line \cup (IF n \in Leaves THEN {n} ELSE {})
  <2>1. CASE n \in Leaves
    <3>1. place' = JoinLine({n})
      BY <2>1 DEF Permit
    <3> QED
      BY <1>2, <2>1, <3>1, LineFacts DEF LineStep, SameFlags
  <2>2. CASE n \notin Leaves
    <3>1. place' = JoinLine({})
      <4>1. Permit(n) = {}
        BY <2>2 DEF Permit
      <4> QED
        BY <4>1
    <3> QED
      BY <2>2, <3>1, LineFacts DEF LineStep, SameFlags
  <2> QED
    BY <2>1, <2>2
<1>7. place' \in [Node -> Nat] /\ InOrder'
  BY <1>1, <1>6, LineKeeps
<1>8. Nested'
  <2>1. ASSUME NEW m \in Node \ {Root}
        PROVE  /\ pc'[m] \notin Idle => pc'[Parent[m]] = "branches"
               /\ pc'[Parent[m]] \in {"off", "forking"} => pc'[m] = "off"
    <3>1. Parent[m] \in Node /\ (Parent[m] = n => m \in Branches(n))
      BY RunTree DEF Branches
    <3>2. CASE m \in Branches(n)
      BY <1>3, <1>4, <1>5, <3>1, <3>2
    <3>3. CASE m \notin Branches(n) /\ Parent[m] \in Branches(n)
      <4>1. pc[m] = "off"
        BY <1>1, <1>3, <3>3 DEF Nested
      <4> QED
        BY <1>4, <3>3, <4>1 DEF Idle
    <3>4. CASE m \notin Branches(n) /\ Parent[m] \notin Branches(n)
      <4>1. pc'[Parent[m]] = pc[Parent[m]]
        BY <1>4, <3>1, <3>4
      <4>2. m # n => pc'[m] = pc[m]
        BY <1>4, <3>4
      <4>3. m = n => pc[Parent[m]] = "branches"
        BY <1>1 DEF Nested, Idle
      <4> QED
        BY <1>1, <4>1, <4>2, <4>3 DEF Nested
    <3> QED
      BY <3>2, <3>3, <3>4
  <2> QED
    BY <2>1 DEF Nested
<1>9. RunTypeOK'
  <2>1. pc' \in [Node -> Points]
    BY <1>2 DEF Points
  <2>2. attempt' \in [Node -> Nat] /\ \A m \in Node : attempt'[m] <= Attempts[m]
    BY <1>1, <1>2 DEF RunTypeOK
  <2>3. \A m \in Line' : m \in Leaves /\ pc'[m] = "leaf"
    <3>1. \A m \in Line : m \in Node /\ m \in Leaves /\ pc[m] = "leaf"
      BY LineFacts
    <3> QED
      BY <1>3, <1>4, <1>6, <3>1
  <2>4. visits' \in 0..MaxVisits
    BY FlowFacts
  <2>5. \A p \in Node : Cardinality(Winner(p)') <= 1
    BY <1>1 DEF RunTypeOK, Winner
  <2> QED
    BY <1>1, <1>7, <2>1, <2>2, <2>3, <2>4, <2>5 DEF RunTypeOK, Points
<1>10. Entitled'
  <2>1. \A m \in Node : (Passed(m)' <=> Passed(m)) /\ (Founded(m)' <=> Founded(m))
    BY DEF Passed, Founded
  <2>2. \A m \in Node : pc[m] \in Ended => pc'[m] = pc[m]
    BY <1>3, <1>4 DEF Ended
  <2>3. outputs \subseteq Node /\ messy \subseteq Node
    BY <1>1 DEF RunTypeOK
  <2>4. \A m \in outputs : Passed(m)' /\ pc'[m] \in {"closing", "closed"}
    BY <1>1, <2>1, <2>2, <2>3 DEF Entitled, Ended
  <2>5. \A m \in messy : ~Passed(m)' /\ pc'[m] \in Ended
    BY <1>1, <2>1, <2>2, <2>3 DEF Entitled
  <2> QED
    BY <1>1, <2>1, <2>4, <2>5 DEF Entitled
<1>11. Placed'
  <2>1. \A m \in Node : pc'[m] \in {"leaf", "backoff"} => m \in Leaves
    BY <1>1, <1>4 DEF Placed
  <2>2. \A m \in Node : pc'[m] = "backoff" => m # n /\ pc[m] = "backoff"
    BY <1>3, <1>4
  <2>3. \A m \in Node : pc'[m] = "backoff" => attempt'[m] < Attempts[m]
    BY <1>1, <1>2, <2>2 DEF Placed
  <2>4. pc'[Root] \in {"ended", "done"} /\ Passed(Root)' => unclean' = {}
    BY <1>1, <1>3, <1>4, RunTree DEF Placed, Passed
  <2> QED
    BY <2>1, <2>3, <2>4 DEF Placed
<1> QED
  BY <1>7, <1>8, <1>9, <1>10, <1>11 DEF RunInv

\* A flow that is aborted before its session is there does not start.
LEMMA EnterKeeps ==
  ASSUME RunInv, NEW n \in Node, Enter(n)
  PROVE  RunInv'
<1>1. /\ pc[n] = "forking" /\ attempt' = [attempt EXCEPT ![n] = 1]
      /\ UNCHANGED <<expired, superseded, winners, outputs, unclean, recovered, published, messy>>
  BY DEF Enter
<1>2. n \notin Line /\ 1 \in Nat /\ 1 <= Attempts[n]
  BY <1>1, LineFacts, FlowFacts
<1>3. CASE BodyAborted(n)
  <2>1. FailBody(n)
    BY <1>3 DEF Enter
  <2> QED
    BY <1>1, <1>2, <2>1, FailureKeeps DEF FailBody
<1>4. CASE ~BodyAborted(n) /\ visits < MaxVisits
  BY <1>1, <1>4, StartKeeps DEF Enter, Visit
<1>5. CASE ~BodyAborted(n) /\ ~(visits < MaxVisits)
  BY <1>1, <1>2, <1>5, FailureKeeps DEF Enter, Visit
<1> QED
  BY <1>3, <1>4, <1>5

\* A branch without a session is over before it began.
LEMMA ForkFailsKeeps ==
  ASSUME RunInv, NEW n \in Node, ForkFails(n)
  PROVE  RunInv'
<1>1. n \notin Line /\ attempt = [attempt EXCEPT ![n] = attempt[n]]
      /\ attempt[n] \in Nat /\ attempt[n] <= Attempts[n]
  BY LineFacts, FlowFacts DEF ForkFails
<1> QED
  BY <1>1, FailureKeeps DEF ForkFails

\* A request that settles gives its permit back.
LEMMA LeafSettlesKeeps ==
  ASSUME RunInv, NEW n \in Node, LeafSettles(n)
  PROVE  RunInv'
<1>1. PICK r \in {"passed", "failed", "fatal"} :
        /\ result' = [result EXCEPT ![n] = r]
        /\ pc' = [pc EXCEPT ![n] =
             IF r = "failed" /\ attempt[n] < Attempts[n] /\ ~BodyAborted(n) THEN "backoff" ELSE "body"]
  BY DEF LeafSettles
<1> DEFINE x == IF r = "failed" /\ attempt[n] < Attempts[n] /\ ~BodyAborted(n)
                THEN "backoff" ELSE "body"
<1>2. x \in {"backoff", "body"} /\ (x = "backoff" => attempt[n] < Attempts[n])
      /\ pc' = [pc EXCEPT ![n] = x]
  BY <1>1
<1> HIDE DEF x
<1>3. /\ n \in Line /\ pc[n] = "leaf" /\ n \in Leaves /\ place' = MovedUp(Line \ {n})
      /\ UNCHANGED <<attempt, visits, stopped, expired, superseded, winners, outputs, unclean,
                     recovered, published, messy>>
  BY LineFacts DEF LeafSettles, Running
<1>4. Line' = Line \ {n} /\ LineStep
  BY <1>3, LineFacts DEF LineStep, SameFlags
<1>5. /\ attempt = [attempt EXCEPT ![n] = attempt[n]] /\ attempt[n] \in Nat
      /\ attempt[n] <= Attempts[n] /\ visits \in 0..MaxVisits
      /\ stopped \in {"no", "user", "timeout", "limit"} /\ n \notin messy /\ pc[n] \in AtWork
  BY <1>3, FlowFacts DEF AtWork, Points
<1>6. Own(n, x, r, attempt[n])
  BY <1>1, <1>2, <1>3, <1>4, <1>5 DEF Own
<1>7. x \in Onward /\ r \in Verdicts /\ x \notin Ended /\ x # "leaf"
  BY <1>2 DEF Onward, Points, Verdicts, Ended
<1>8. Founded(n)'
  BY <1>3 DEF Founded
<1> QED
  BY <1>2, <1>3, <1>4, <1>5, <1>6, <1>7, <1>8, OwnKeeps DEF Ended

\* A request that left the line fails.
LEMMA LeafCancelledKeeps ==
  ASSUME RunInv, NEW n \in Node, LeafCancelled(n)
  PROVE  RunInv'
<1>1. attempt = [attempt EXCEPT ![n] = attempt[n]] /\ attempt[n] \in Nat /\ attempt[n] <= Attempts[n]
  BY FlowFacts
<1> QED
  BY <1>1, FailureKeeps DEF LeafCancelled, FailBody

\* A request that is tried again goes to the end of the line.
LEMMA RetryKeeps ==
  ASSUME RunInv, NEW n \in Node, Retry(n)
  PROVE  RunInv'
<1>1. /\ pc[n] = "backoff"
      /\ UNCHANGED <<expired, superseded, winners, outputs, unclean, recovered, published, messy>>
  BY DEF Retry
<1>2. /\ attempt = [attempt EXCEPT ![n] = attempt[n]] /\ attempt[n] \in Nat /\ Attempts[n] \in Nat
      /\ attempt[n] <= Attempts[n] /\ attempt[n] < Attempts[n] /\ n \notin Line /\ n \in Leaves
      /\ visits \in 0..MaxVisits /\ MaxVisits \in Nat
      /\ stopped \in {"no", "user", "timeout", "limit"}
      /\ n \notin messy /\ pc[n] \in AtWork /\ result \in [Node -> Verdicts]
  BY <1>1, FlowFacts, LineFacts DEF AtWork, Points
<1>3. CASE BodyAborted(n)
  <2>1. FailBody(n) /\ UNCHANGED attempt
    BY <1>3 DEF Retry
  <2> QED
    BY <1>1, <1>2, <2>1, FailureKeeps DEF FailBody
<1>4. CASE ~BodyAborted(n)
  <2> DEFINE a == attempt[n] + 1
  <2>1. Visit(n, [pc EXCEPT ![n] = "leaf"], {n}) /\ attempt' = [attempt EXCEPT ![n] = a]
    BY <1>4 DEF Retry
  <2>2. a \in Nat /\ a <= Attempts[n]
    BY <1>2
  <2> HIDE DEF a
  <2>3. CASE visits < MaxVisits
    <3>1. /\ visits' = visits + 1 /\ pc' = [pc EXCEPT ![n] = "leaf"] /\ place' = JoinLine({n})
          /\ UNCHANGED <<stopped, result>>
      BY <2>1, <2>3 DEF Visit
    <3>2. Line' = Line \cup {n} /\ LineStep
      BY <1>1, <1>2, <1>4, <3>1, LineFacts DEF LineStep, SameFlags
    <3>3. result' = [result EXCEPT ![n] = result[n]] /\ result[n] \in Verdicts
      BY <1>2, <3>1
    <3>4. visits' \in 0..MaxVisits
      BY <1>2, <2>3, <3>1
    <3>5. Own(n, "leaf", result[n], a)
      BY <1>1, <1>2, <2>1, <3>1, <3>2, <3>3, <3>4 DEF Own
    <3>6. "leaf" \in Onward /\ n \notin messy' /\ Founded(n)'
      BY <1>1, <1>2 DEF Onward, Points, Founded
    <3> QED
      BY <1>1, <1>2, <2>2, <3>2, <3>3, <3>5, <3>6, OwnKeeps
  <2>4. CASE ~(visits < MaxVisits)
    BY <1>1, <1>2, <2>1, <2>2, <2>4, FailureKeeps DEF Visit
  <2> QED
    BY <2>3, <2>4
<1> QED
  BY <1>3, <1>4

\* The verdict of an aborted flow is never that it passed.
LEMMA CancelledFail ==
  ASSUME NEW n \in Node
  PROVE  Cancellation(n) \subseteq Verdicts \ {"passed", "none"}
BY DEF Cancellation, Verdicts

\* A body that ended goes to its handler, to its finally handler, or ends.
LEMMA EndBodyKeeps ==
  ASSUME RunInv, NEW n \in Node, EndBody(n)
  PROVE  RunInv'
<1>1. PICK r \in IF FlowAborted(n) THEN Cancellation(n)
                 ELSE {IF BodyExpired(n) THEN "failed" ELSE result[n]} :
        IF r # "passed" /\ n \in Handled /\ ~FlowAborted(n)
        THEN Invoke(n, r, "handling") ELSE Finish(n, r)
  BY DEF EndBody
<1>2. /\ pc[n] = "body"
      /\ UNCHANGED <<attempt, expired, superseded, winners, outputs, unclean, recovered,
                     published, messy>>
  BY DEF EndBody
<1>3. EndWith(n, r) \/ \E phase \in {"handling", "cleaning"} : Invoke(n, r, phase)
  BY <1>1 DEF Finish
<1>4. r \in Verdicts /\ (r = "passed" => Passed(n))
  BY <1>1, CancelledFail, FlowFacts DEF Passed, Verdicts
<1>5. r = "passed" => Founded(n)'
  <2>1. Founded(n)' <=> Founded(n)
    BY <1>2 DEF Founded
  <2> QED
    BY <1>4, <2>1, FlowFacts
<1>6. n \notin messy'
  BY <1>2, FlowFacts DEF AtWork, Points
<1> QED
  BY <1>2, <1>3, <1>4, <1>5, <1>6, EndKeeps

\* A handler makes up for a failure, or not.
LEMMA HandlerEndsKeeps ==
  ASSUME RunInv, NEW n \in Node, HandlerEnds(n)
  PROVE  RunInv'
<1>1. /\ pc[n] = "handling"
      /\ UNCHANGED <<attempt, expired, superseded, winners, outputs, unclean, published, messy>>
  BY DEF HandlerEnds
<1>2. n \notin messy'
  BY <1>1, FlowFacts DEF AtWork, Points
<1>3. CASE Finish(n, "passed") /\ recovered' = recovered \cup {n}
  <2>1. Founded(n)' /\ "passed" \in Verdicts
    BY <1>3 DEF Founded, Verdicts
  <2>2. EndWith(n, "passed") \/ \E phase \in {"handling", "cleaning"} : Invoke(n, "passed", phase)
    BY <1>3 DEF Finish
  <2> QED
    BY <1>1, <1>2, <1>3, <2>1, <2>2, EndKeeps
<1>4. ASSUME NEW r \in IF FlowAborted(n) THEN Cancellation(n) ELSE {result[n]}, Finish(n, r),
             UNCHANGED recovered
      PROVE  RunInv'
  <2>1. r \in Verdicts /\ (r = "passed" => Passed(n))
    BY <1>4, CancelledFail, FlowFacts DEF Passed, Verdicts
  <2>2. Founded(n)' <=> Founded(n)
    BY <1>1, <1>4 DEF Founded
  <2>3. EndWith(n, r) \/ \E phase \in {"handling", "cleaning"} : Invoke(n, r, phase)
    BY <1>4 DEF Finish
  <2>4. r = "passed" => Founded(n)'
    BY <2>1, <2>2, FlowFacts
  <2> QED
    BY <1>1, <1>2, <1>4, <2>1, <2>3, <2>4, EndKeeps
<1> QED
  BY <1>3, <1>4 DEF HandlerEnds

\* A finally handler that failed leaves no node that passed.
LEMMA CleaningEndsKeeps ==
  ASSUME RunInv, NEW n \in Node, CleaningEnds(n)
  PROVE  RunInv'
<1>1. /\ pc[n] = "cleaning"
      /\ UNCHANGED <<attempt, expired, superseded, winners, outputs, unclean, recovered, published>>
  BY DEF CleaningEnds
<1>2. PICK ok \in BOOLEAN :
        /\ messy' = IF ok THEN messy ELSE messy \cup {n}
        /\ \E r \in IF FlowAborted(n) THEN Cancellation(n) ELSE AfterCleaning(n, ok) : EndWith(n, r)
  BY DEF CleaningEnds
<1>3. PICK r \in IF FlowAborted(n) THEN Cancellation(n) ELSE AfterCleaning(n, ok) : EndWith(n, r)
  BY <1>2
<1>4. n \notin messy
  BY <1>1, FlowFacts DEF AtWork, Points
<1>5. r \in Verdicts /\ (r = "passed" => Passed(n) /\ ok)
  BY <1>3, CancelledFail, FlowFacts DEF AfterCleaning, Passed, Verdicts
<1>6. Founded(n)' <=> Founded(n)
  BY <1>1 DEF Founded
<1>7. /\ r = "passed" => Founded(n)'
      /\ n \in messy' => r # "passed"
      /\ messy' \in {messy, messy \cup {n}}
  BY <1>2, <1>4, <1>5, <1>6, FlowFacts
<1> QED
  BY <1>1, <1>3, <1>5, <1>7, EndKeeps

\* A join is passed on the outputs it has.
LEMMA JoinKeeps ==
  ASSUME RunInv, NEW n \in Node, Join(n)
  PROVE  RunInv'
<1> DEFINE joined == IF n \in AnySuccess THEN Winner(n) # {} ELSE Branches(n) \subseteq outputs
           publish == joined /\ ~CleanupFailed(n) /\ ~BodyAborted(n)
<1>1. /\ pc[n] = "branches" /\ Drained(n) /\ pc' = [pc EXCEPT ![n] = "body"]
      /\ UNCHANGED <<attempt, place, visits, stopped, expired, superseded, winners, outputs,
                     unclean, recovered, messy>>
      /\ published' \in {published, published \cup {n}}
  BY DEF Join
<1>2. \E r \in Verdicts : result' = [result EXCEPT ![n] = r] /\ (r = "passed" => joined)
  <2>1. CASE publish
    BY <2>1 DEF Join, Verdicts
  <2>2. CASE ~publish
    <3>1. PICK r \in IF CleanupFailed(n) THEN {"fatal"}
                     ELSE ({"fatal"} \cup {result[m] : m \in Branches(n) \ outputs}) \ {"passed"} :
            result' = [result EXCEPT ![n] = r]
      BY <2>2 DEF Join
    <3>2. r \in Verdicts /\ r # "passed"
      <4>1. \A m \in Branches(n) : result[m] \in Verdicts
        BY FlowFacts DEF Branches
      <4> QED
        BY <4>1 DEF Verdicts
    <3> QED
      BY <3>1, <3>2
  <2> QED
    BY <2>1, <2>2
<1>3. joined => Founded(n)'
  <2>1. Winner(n) \subseteq Branches(n) \cap outputs
    BY DEF Winner, RunInv, Entitled
  <2> QED
    BY <1>1, <2>1 DEF Founded
<1>4. PICK r \in Verdicts : result' = [result EXCEPT ![n] = r] /\ (r = "passed" => joined)
  BY <1>2
<1> HIDE DEF joined
<1>5. Line' = Line /\ LineStep /\ n \notin Line
  BY <1>1, LineFacts DEF LineStep, SameFlags
<1>6. /\ attempt = [attempt EXCEPT ![n] = attempt[n]] /\ attempt[n] \in Nat
      /\ attempt[n] <= Attempts[n] /\ visits \in 0..MaxVisits /\ n \notin messy
      /\ stopped \in {"no", "user", "timeout", "limit"} /\ pc[n] \in AtWork
  BY <1>1, FlowFacts DEF AtWork, Points
<1>7. Own(n, "body", r, attempt[n])
  BY <1>1, <1>4, <1>5, <1>6 DEF Own
<1>8. "body" \in Onward
  BY DEF Onward, Points
<1> QED
  BY <1>1, <1>3, <1>4, <1>5, <1>6, <1>7, <1>8, OwnKeeps

(***************************************************************************)
(* Flows that have ended                                                   *)
(***************************************************************************)

\* Where the root has ended, no flow is at work: the one at work that is
\* nearest to the root would be waited for by the next.
LEMMA RootIsLast ==
  ASSUME Nested, RunTypeOK, pc[Root] \in {"ended", "done"}
  PROVE  \A n \in Node \ {Root} : pc[n] \in Idle
<1> DEFINE S == {m \in Node : pc[m] \notin Idle /\ (m = Root => pc[m] = "branches")}
<1>1. \A m \in S \ {Root} : Parent[m] \in S
  <2>1. ASSUME NEW m \in S \ {Root}
        PROVE  Parent[m] \in S
    <3>1. m \in Node \ {Root} /\ pc[m] \notin Idle /\ Parent[m] \in Node
      BY RunTree
    <3>2. pc[Parent[m]] = "branches"
      BY <3>1 DEF Nested
    <3> QED
      BY <3>1, <3>2 DEF Idle
  <2> QED
    BY <2>1
<1>2. Root \notin S
  OBVIOUS
<1>3. S \in SUBSET Node
  OBVIOUS
<1>4. S = {}
  <2> HIDE DEF S
  <2> QED
    BY <1>1, <1>2, <1>3, RunTree
<1> QED
  BY <1>4

\* A flow that has ended hands over what it has, closes its session, and is over.
LEMMA LateKeeps ==
  ASSUME RunInv, NEW n \in Node, NEW x \in {"closing", "closed", "done"},
         pc[n] \in {"ended", "closing"}, pc' = [pc EXCEPT ![n] = x],
         UNCHANGED <<result, attempt, visits, stopped, expired, recovered, published, messy>>,
         LineStep, Line' \subseteq Line, superseded' \subseteq Node, unclean' \subseteq Node,
         outputs' \in {outputs, outputs \cup {n}}, winners' \in {winners, winners \cup {n}},
         winners' \subseteq outputs',
         n \in outputs' => Passed(n) /\ x # "done",
         winners' # winners => n # Root /\ Winner(Parent[n]) = {},
         unclean' # unclean => pc[n] = "closing", x = "done" => pc[n] = "ended"
  PROVE  RunInv'
<1>1. RunTypeOK /\ Nested /\ InOrder /\ Entitled /\ Placed
  BY DEF RunInv
<1>2. pc \in [Node -> Points] /\ \A m \in Node : pc'[m] = IF m = n THEN x ELSE pc[m]
  BY FlowFacts
<1>3. place' \in [Node -> Nat] /\ InOrder'
  BY <1>1, LineKeeps
<1>4. Nested'
  BY <1>1, OwnNested DEF Points, Idle
<1>5. RunTypeOK'
  <2>1. pc' \in [Node -> Points]
    BY <1>2 DEF Points
  <2>2. \A m \in Line' : m \in Leaves /\ pc'[m] = "leaf"
    BY <1>2, LineFacts
  <2>3. winners' \subseteq Node /\ outputs' \subseteq Node
    BY <1>1 DEF RunTypeOK
  <2>4. ASSUME NEW p \in Node
        PROVE  Cardinality(Winner(p)') <= 1
    <3>1. CASE Winner(p)' = Winner(p)
      BY <1>1, <3>1 DEF RunTypeOK
    <3>2. CASE Winner(p)' # Winner(p)
      <4>1. winners' = winners \cup {n} /\ n \in Branches(p)
        BY <3>2 DEF Winner
      <4>2. Winner(p) = {}
        BY <3>2, <4>1 DEF Winner, Branches
      <4>3. Winner(p)' = {n}
        BY <4>1, <4>2 DEF Winner
      <4> QED
        BY <4>3, FS_Singleton
    <3> QED
      BY <3>1, <3>2
  <2> QED
    BY <1>1, <1>3, <2>1, <2>2, <2>3, <2>4 DEF RunTypeOK, Points
<1>6. Entitled'
  <2>1. \A m \in Node : Passed(m)' <=> Passed(m)
    BY DEF Passed
  <2>2. \A m \in Node : Founded(m) => Founded(m)'
    BY DEF Founded
  <2>3. \A m \in outputs' : m \in Node /\ (m = n \/ m \in outputs)
    BY <1>1 DEF RunTypeOK
  <2>4. \A m \in outputs' : Passed(m)' /\ pc'[m] \in {"closing", "closed"}
    BY <1>1, <1>2, <2>1, <2>3 DEF Entitled
  <2>5. \A m \in messy' : ~Passed(m)' /\ pc'[m] \in Ended
    <3>1. messy' = messy /\ messy \subseteq Node
      BY <1>1 DEF RunTypeOK
    <3>2. x \in Ended
      BY DEF Ended
    <3> QED
      BY <1>1, <1>2, <2>1, <3>1, <3>2 DEF Entitled
  <2> QED
    BY <1>1, <2>1, <2>2, <2>4, <2>5 DEF Entitled
<1>7. Placed'
  <2>1. \A m \in Node : pc'[m] \in {"leaf", "backoff"} => m # n /\ pc'[m] = pc[m]
    BY <1>2
  <2>2. ASSUME pc'[Root] \in {"ended", "done"}, Passed(Root)'
        PROVE  unclean' = {}
    <3>1. Root \in Node /\ (n = Root \/ pc[Root] \in {"ended", "done"})
      BY <1>2, <2>2, RunTree
    <3>2. CASE n = Root
      <4>1. x = "done"
        BY <1>2, <2>2, <3>2
      <4>2. unclean' = unclean /\ pc[Root] = "ended" /\ Passed(Root)
        BY <2>2, <3>2, <4>1 DEF Passed
      <4> QED
        BY <1>1, <4>2 DEF Placed
    <3>3. CASE n # Root
      <4>1. pc[Root] \in {"ended", "done"}
        BY <3>1, <3>3
      <4>2. pc[n] \in Idle
        BY <1>1, <3>3, <4>1, RootIsLast
      <4> QED
        BY <4>2 DEF Idle
    <3> QED
      BY <3>2, <3>3
  <2> QED
    BY <1>1, <2>1, <2>2 DEF Placed
<1> QED
  BY <1>3, <1>4, <1>5, <1>6, <1>7 DEF RunInv

\* A branch that returns wins only where it is the first, and hands over its
\* outputs only where it passed.
LEMMA BranchReturnsKeeps ==
  ASSUME RunInv, NEW n \in Node, BranchReturns(n)
  PROVE  RunInv'
<1> DEFINE p == Parent[n]
           good == Passed(n) /\ ~BranchAborted(n)
           wins == good /\ p \in AnySuccess /\ Winner(p) = {} /\ ~BodyAborted(p)
<1>1. /\ pc[n] = "ended" /\ n # Root /\ pc' = [pc EXCEPT ![n] = "closing"]
      /\ UNCHANGED <<result, attempt, visits, stopped, expired, unclean, recovered, published, messy>>
      /\ DropAborted
      /\ outputs' = IF good THEN outputs \cup {n} ELSE outputs
      /\ winners' = IF wins THEN winners \cup {n} ELSE winners
  BY DEF BranchReturns
<1>2. superseded' \subseteq superseded \cup Branches(p)
  BY DEF BranchReturns
<1>3. superseded' \subseteq Node
  BY <1>2 DEF RunInv, RunTypeOK, Branches
<1>4. winners \subseteq outputs /\ (n \in outputs => Passed(n))
  BY DEF RunInv, Entitled
<1>5. /\ winners' # winners => good /\ Winner(p) = {}
      /\ n \in outputs' => Passed(n)
      /\ winners' \subseteq outputs'
      /\ outputs' \in {outputs, outputs \cup {n}} /\ winners' \in {winners, winners \cup {n}}
  BY <1>1, <1>4
<1>6. LineStep /\ Line' \subseteq Line
  BY <1>1, LineFacts DEF LineStep
<1>7. unclean' = unclean /\ unclean' \subseteq Node
  BY <1>1 DEF RunInv, RunTypeOK
<1> QED
  BY <1>1, <1>3, <1>5, <1>6, <1>7, LateKeeps

\* A session is closed, or is left open.
LEMMA CloseSessionKeeps ==
  ASSUME RunInv, NEW n \in Node, CloseSession(n)
  PROVE  RunInv'
<1>1. /\ pc[n] = "closing" /\ pc' = [pc EXCEPT ![n] = "closed"]
      /\ unclean' \in {unclean, unclean \cup ({n} \cap Fragile)}
      /\ UNCHANGED <<result, attempt, place, visits, stopped, expired, superseded, winners,
                     outputs, recovered, published, messy>>
  BY DEF CloseSession
<1>2. superseded' \subseteq Node /\ unclean' \subseteq Node /\ winners' \subseteq outputs'
      /\ (n \in outputs' => Passed(n))
  BY <1>1 DEF RunInv, RunTypeOK, Entitled
<1>3. LineStep /\ Line' = Line
  BY <1>1, LineFacts DEF LineStep, SameFlags
<1> QED
  BY <1>1, <1>2, <1>3, LateKeeps

\* The root returns.
LEMMA RootReturnsKeeps ==
  ASSUME RunInv, RootReturns
  PROVE  RunInv'
<1>1. /\ Root \in Node /\ pc[Root] = "ended" /\ pc' = [pc EXCEPT ![Root] = "done"]
      /\ UNCHANGED <<result, attempt, place, visits, stopped, expired, superseded, winners,
                     outputs, unclean, recovered, published, messy>>
  BY RunTree DEF RootReturns
<1>2. superseded' \subseteq Node /\ unclean' \subseteq Node /\ winners' \subseteq outputs'
  BY <1>1 DEF RunInv, RunTypeOK, Entitled
<1>3. Root \notin outputs
  BY <1>1 DEF RunInv, Entitled
<1>4. LineStep /\ Line' = Line
  BY <1>1, LineFacts DEF LineStep, SameFlags
<1> QED
  BY <1>1, <1>2, <1>3, <1>4, LateKeeps

\* Flows that are only aborted stay where they are, but for the leaves that wait.
LEMMA AbortsKeep ==
  ASSUME RunInv, DropAborted, stopped' \in {"no", "user", "timeout", "limit"},
         expired' \subseteq {"node", "invocation"} \X Timed,
         UNCHANGED <<pc, result, attempt, visits, superseded, winners, outputs, unclean,
                     recovered, published, messy>>
  PROVE  RunInv'
<1>1. RunTypeOK /\ Nested /\ InOrder /\ Entitled /\ Placed
  BY DEF RunInv
<1>2. place' \in [Node -> Nat] /\ InOrder' /\ Line' \subseteq Line
  BY <1>1, LineKeeps, LineFacts DEF LineStep
<1>3. RunTypeOK'
  <2>1. \A m \in Line' : m \in Leaves /\ pc'[m] = "leaf"
    BY <1>2, LineFacts
  <2>2. \A p \in Node : Winner(p)' = Winner(p)
    BY DEF Winner
  <2> QED
    BY <1>1, <1>2, <2>1, <2>2 DEF RunTypeOK
<1>4. Nested' /\ Entitled' /\ Placed'
  <2>1. \A m \in Node : (Passed(m)' <=> Passed(m)) /\ (Founded(m)' <=> Founded(m))
    BY DEF Passed, Founded
  <2>2. Root \in Node
    BY RunTree
  <2>3. Nested'
    BY <1>1 DEF Nested
  <2>4. Entitled'
    <3>1. outputs \subseteq Node /\ messy \subseteq Node
      BY <1>1 DEF RunTypeOK
    <3> QED
      BY <1>1, <2>1, <3>1 DEF Entitled
  <2>5. Placed'
    BY <1>1, <2>1, <2>2 DEF Placed
  <2> QED
    BY <2>3, <2>4, <2>5
<1> QED
  BY <1>2, <1>3, <1>4 DEF RunInv

\* The run is aborted from outside, or runs out of time.
LEMMA AbortRootKeeps ==
  ASSUME RunInv, AbortRoot
  PROVE  RunInv'
<1>1. stopped' \in {"no", "user", "timeout", "limit"}
  BY DEF AbortRoot, Stop
<1>2. expired' \subseteq {"node", "invocation"} \X Timed
  BY DEF AbortRoot, RunInv, RunTypeOK
<1> QED
  BY <1>1, <1>2, AbortsKeep DEF AbortRoot

\* A deadline runs out.
LEMMA ExpireKeeps ==
  ASSUME RunInv, NEW n \in Timed, Expire(n)
  PROVE  RunInv'
<1>1. PICK deadline \in {<<"node", n>>, <<"invocation", n>>} : expired' = expired \cup {deadline}
  BY DEF Expire
<1>2. expired' \subseteq {"node", "invocation"} \X Timed
  BY <1>1 DEF RunInv, RunTypeOK
<1>3. stopped' \in {"no", "user", "timeout", "limit"}
  BY DEF Expire, RunInv, RunTypeOK
<1> QED
  BY <1>2, <1>3, AbortsKeep DEF Expire

\* A step of something else changes nothing here.
LEMMA StutterKeeps ==
  ASSUME RunInv, UNCHANGED runVars
  PROVE  RunInv'
BY DEF RunInv, RunTypeOK, Nested, InOrder, Distinct, Dense, Wanted, Entitled, Placed, Line, Running,
   Winner, Passed, Founded, BodyAborted, FlowAborted, BranchAborted, BodyExpired, OwnAbort, runVars

\* A run begins with its root alone.
LEMMA InitKeeps ==
  ASSUME RunInit
  PROVE  RunInv
<1>1. Root \in Node /\ \A n \in Node : pc[n] = IF n = Root THEN "forking" ELSE "off"
  BY RunTree DEF RunInit
<1>2. /\ \A n \in Node : result[n] = "none" /\ attempt[n] = 0 /\ place[n] = 0
      /\ winners = {} /\ outputs = {} /\ messy = {} /\ unclean = {}
  BY DEF RunInit
<1>3. Line = {}
  BY <1>2 DEF Line
<1>4. RunTypeOK
  <2>1. \A p \in Node : Cardinality(Winner(p)) <= 1
    <3>1. \A p \in Node : Winner(p) = {}
      BY <1>2 DEF Winner
    <3> QED
      BY <3>1, FS_EmptySet
  <2>2. \A n \in Node : attempt[n] <= Attempts[n]
    BY <1>2, RunLimits
  <2>3. place \in [Node -> Nat] /\ attempt \in [Node -> Nat] /\ visits \in 0..MaxVisits
    BY RunLimits DEF RunInit
  <2> QED
    BY <1>3, <2>1, <2>2, <2>3 DEF RunTypeOK, RunInit
<1>5. Nested
  BY <1>1, RunTree DEF Nested, Idle
<1>6. InOrder
  BY <1>3 DEF InOrder, Distinct, Dense, Wanted
<1>7. Entitled /\ Placed
  BY <1>1, <1>2 DEF Entitled, Placed, Passed
<1> QED
  BY <1>4, <1>5, <1>6, <1>7 DEF RunInv

\* Every step keeps the invariant.
LEMMA NextKeeps ==
  ASSUME RunInv, [RunNext]_runVars
  PROVE  RunInv'
<1>1. ASSUME NEW n \in Node, NodeStep(n)
      PROVE  RunInv'
  BY <1>1, EnterKeeps, ForkFailsKeeps, LeafSettlesKeeps, LeafCancelledKeeps, RetryKeeps,
     EndBodyKeeps, HandlerEndsKeeps, CleaningEndsKeeps, BranchReturnsKeeps, CloseSessionKeeps,
     JoinKeeps DEF NodeStep
<1> QED
  BY <1>1, RootReturnsKeeps, AbortRootKeeps, ExpireKeeps, StutterKeeps DEF RunNext
-----------------------------------------------------------------------------
(***************************************************************************)
(* From the abort of a node on                                             *)
(***************************************************************************)

\* Every step does to the line one of the things a step may do to it.
LEMMA StepsOfTheLine ==
  ASSUME RunInv, [RunNext]_runVars
  PROVE  LineStep
<1>1. ASSUME NEW n \in Node, Enter(n) \/ Retry(n)
      PROVE  LineStep
  <2>1. n \notin Line
    BY <1>1, LineFacts DEF Enter, Retry
  <2>2. Permit(n) = {n} \/ Permit(n) = {}
    BY DEF Permit
  <2>3. place' = JoinLine({}) => place' = place
    BY LineFacts
  <2>4. CASE BodyAborted(n)
    BY <1>1, <2>4 DEF Enter, Retry, FailBody, LineStep, SameFlags
  <2>5. CASE ~BodyAborted(n)
    <3>1. \/ place' \in {JoinLine({n}), JoinLine({})} /\ SameFlags
          \/ DropAborted
      BY <1>1, <2>2, <2>5 DEF Enter, Retry, Visit, SameFlags
    <3> QED
      BY <2>1, <2>3, <2>5, <3>1 DEF LineStep
  <2> QED
    BY <2>4, <2>5
<1>2. ASSUME NEW n \in Node, LeafSettles(n)
      PROVE  LineStep
  BY <1>2 DEF LeafSettles, Running, LineStep, SameFlags
<1>3. ASSUME NEW n \in Node, EndBody(n) \/ HandlerEnds(n) \/ CleaningEnds(n)
      PROVE  LineStep
  BY <1>3 DEF EndBody, HandlerEnds, CleaningEnds, Finish, EndWith, Invoke, LineStep, SameFlags
<1>4. ASSUME NEW n \in Node,
             ForkFails(n) \/ LeafCancelled(n) \/ BranchReturns(n) \/ CloseSession(n) \/ Join(n)
      PROVE  LineStep
  BY <1>4 DEF ForkFails, LeafCancelled, FailBody, BranchReturns, CloseSession, Join, LineStep, SameFlags
<1>5. CASE RootReturns \/ AbortRoot \/ (\E n \in Timed : Expire(n)) \/ UNCHANGED runVars
  BY <1>5 DEF RootReturns, AbortRoot, Expire, LineStep, SameFlags, runVars
<1> QED
  BY <1>1, <1>2, <1>3, <1>4, <1>5 DEF RunNext, NodeStep

\* What no step does for an aborted node: publish, recover, choose a winner,
\* start a handler.
Lasting(n) ==
  /\ BodyAborted(n) => /\ n \in published' => n \in published
                       /\ Winner(n)' = Winner(n)
  /\ FlowAborted(n) => /\ n \in recovered' => n \in recovered
                       /\ pc'[n] \in {"handling", "cleaning"} => pc'[n] = pc[n]

\* None of that is done by any step.
LEMMA ResultsLast ==
  ASSUME RunInv, [RunNext]_runVars, NEW n \in Node
  PROVE  Lasting(n)
<1>1. pc \in [Node -> Points]
  BY FlowFacts
<1>2. ASSUME UNCHANGED <<published, winners, recovered>>,
             pc'[n] \in {"handling", "cleaning"} => pc'[n] = pc[n] \/ ~FlowAborted(n)
      PROVE  Lasting(n)
  BY <1>2 DEF Lasting, Winner
<1>3. ASSUME NEW m \in Node, EndBody(m) \/ HandlerEnds(m) \/ CleaningEnds(m)
      PROVE  Lasting(n)
  <2>1. /\ UNCHANGED <<published, winners>>
        /\ recovered' = recovered \/ (recovered' = recovered \cup {m} /\ ~FlowAborted(m))
    BY <1>3 DEF EndBody, HandlerEnds, CleaningEnds
  <2>2. \E x \in {"handling", "cleaning", "ended"} :
          pc' = [pc EXCEPT ![m] = x] /\ (x # "ended" => ~FlowAborted(m))
    BY <1>3 DEF EndBody, HandlerEnds, CleaningEnds, Finish, EndWith, Invoke
  <2> QED
    BY <1>1, <2>1, <2>2 DEF Lasting, Winner
<1>4. ASSUME NEW m \in Node, BranchReturns(m)
      PROVE  Lasting(n)
  <2>1. /\ UNCHANGED <<published, recovered>> /\ pc' = [pc EXCEPT ![m] = "closing"]
        /\ winners' = winners \/ (winners' = winners \cup {m} /\ ~BodyAborted(Parent[m]))
    BY <1>4 DEF BranchReturns
  <2>2. BodyAborted(n) => Winner(n)' = Winner(n)
    BY <2>1 DEF Winner, Branches
  <2> QED
    BY <1>1, <2>1, <2>2 DEF Lasting
<1>5. ASSUME NEW m \in Node, Join(m)
      PROVE  Lasting(n)
  <2>1. /\ UNCHANGED <<winners, recovered>> /\ pc' = [pc EXCEPT ![m] = "body"]
        /\ published' = published \/ (published' = published \cup {m} /\ ~BodyAborted(m))
    BY <1>5 DEF Join
  <2> QED
    BY <1>1, <2>1 DEF Lasting, Winner
<1>6. ASSUME NEW m \in Node, Enter(m)
      PROVE  Lasting(n)
  <2>1. UNCHANGED <<published, winners, recovered>>
    BY <1>6 DEF Enter
  <2>2. pc'[n] \in {"handling", "cleaning"} => pc'[n] = pc[n]
    BY <1>1, <1>6 DEF Enter, Visit, FailBody
  <2> QED
    BY <1>2, <2>1, <2>2
<1>7. ASSUME NEW m \in Node,
             ForkFails(m) \/ LeafSettles(m) \/ LeafCancelled(m) \/ Retry(m) \/ CloseSession(m)
      PROVE  Lasting(n)
  <2>1. UNCHANGED <<published, winners, recovered>>
    BY <1>7 DEF ForkFails, LeafSettles, LeafCancelled, Retry, CloseSession
  <2>2. \E x \in {"closed", "backoff", "body", "leaf"} : pc' = [pc EXCEPT ![m] = x]
    BY <1>7 DEF ForkFails, LeafSettles, LeafCancelled, FailBody, Retry, Visit, CloseSession
  <2>3. pc'[n] \in {"handling", "cleaning"} => pc'[n] = pc[n]
    BY <1>1, <2>2
  <2> QED
    BY <1>2, <2>1, <2>3
<1>8. CASE RootReturns \/ AbortRoot \/ (\E m \in Timed : Expire(m)) \/ UNCHANGED runVars
  <2>1. UNCHANGED <<published, winners, recovered>>
    BY <1>8 DEF RootReturns, AbortRoot, Expire, runVars
  <2>2. pc' = pc \/ pc' = [pc EXCEPT ![Root] = "done"]
    BY <1>8 DEF RootReturns, AbortRoot, Expire, runVars
  <2> QED
    BY <1>1, <1>2, <2>1, <2>2
<1> QED
  BY <1>3, <1>4, <1>5, <1>6, <1>7, <1>8 DEF RunNext, NodeStep
-----------------------------------------------------------------------------
(***************************************************************************)
(* Theorems                                                                *)
(***************************************************************************)

\* The inductive invariant: how the flows of a run wait for each other, what
\* the line for permits looks like, and what a node that passed rests on.
THEOREM WorkflowInductiveInvariant == RunSpec => []RunInv
<1>1. RunInit => RunInv
  BY InitKeeps
<1>2. RunInv /\ [RunNext]_runVars => RunInv'
  BY NextKeeps
<1> QED
  BY <1>1, <1>2, PTL DEF RunSpec

\* Every variable of a run stays in its type: only leaves that are at work are
\* in the line, no request is tried more often than its policy says, and an
\* any-success node has at most one winner.
THEOREM RunTypeCorrect == RunSpec => []RunTypeOK
<1>1. RunInv => RunTypeOK
  BY DEF RunInv
<1> QED
  BY <1>1, WorkflowInductiveInvariant, PTL

\* At no time do more requests of a run run than it has permits, however deep
\* its parallel nodes are nested; and nobody waits while a permit is free, or is
\* held by anything but a request that was sent.
THEOREM PermitsRespected ==
  RunSpec => [](/\ Cardinality(Running) <= MaxConcurrency
                /\ Line # Running => Cardinality(Running) = MaxConcurrency
                /\ \A n \in Running : n \in Leaves /\ pc[n] = "leaf")
<1>1. RunInv => /\ Cardinality(Running) <= MaxConcurrency
                /\ Line # Running => Cardinality(Running) = MaxConcurrency
                /\ \A n \in Running : n \in Leaves /\ pc[n] = "leaf"
  BY PermitsFit DEF RunInv, RunTypeOK, InOrder, Running
<1> QED
  BY <1>1, WorkflowInductiveInvariant, PTL

\* When the root of a run has ended, no leaf of it waits or runs, and every
\* branch that was started has closed its session.
THEOREM RootOutlivesAll == RunSpec => []NothingOutlivesRoot
<1>1. RunInv => NothingOutlivesRoot
  <2> SUFFICES ASSUME RunInv, pc[Root] \in {"ended", "done"}
               PROVE  Line = {} /\ \A n \in Node \ {Root} : pc[n] \in {"off", "closed"}
    BY DEF NothingOutlivesRoot
  <2>1. \A n \in Node \ {Root} : pc[n] \in Idle
    BY RootIsLast DEF RunInv
  <2>2. \A n \in Line : n \in Node /\ pc[n] = "leaf"
    BY LineFacts
  <2>3. Line = {}
    BY <2>1, <2>2 DEF Idle
  <2> QED
    BY <2>1, <2>3 DEF Idle
<1> QED
  BY <1>1, WorkflowInductiveInvariant, PTL

\* A run that passes has what it takes, down to its requests, and left no
\* session open: the nodes that passed are what entitles it.
THEOREM PassesAreEarned == RunSpec => []PassIsEarned
<1>1. RunInv => PassIsEarned
  <2> SUFFICES ASSUME RunInv, pc[Root] \in {"ended", "done"}, Passed(Root)
               PROVE  /\ \E good \in SUBSET Node : Root \in good /\ \A n \in good : Earned(n, good)
                      /\ unclean = {}
    BY DEF PassIsEarned
  <2> DEFINE good == {n \in Node : Passed(n)}
  <2>1. /\ \A n \in Node : Passed(n) => Founded(n)
        /\ outputs \subseteq good
        /\ \A n \in messy : ~Passed(n)
        /\ unclean = {}
    BY DEF RunInv, RunTypeOK, Entitled, Placed
  <2>2. \A n \in good : n \in Node /\ Passed(n)
    OBVIOUS
  <2>3. Root \in good /\ good \in SUBSET Node
    BY RunTree
  <2> HIDE DEF good
  <2>4. \A n \in good : Earned(n, good)
    <3> SUFFICES ASSUME NEW n \in good
                 PROVE  Earned(n, good)
      OBVIOUS
    <3>1. n \notin messy /\ Founded(n) /\ Passed(n)
      BY <2>1, <2>2
    <3>2. n \notin AnySuccess => (n \in Leaves \/ n \notin Leaves \cup AnySuccess)
      OBVIOUS
    <3>3. Branches(n) \cap outputs \subseteq Branches(n) \cap outputs \cap good
      BY <2>1
    <3>4. Branches(n) \subseteq outputs => Branches(n) \subseteq outputs \cap good
      BY <2>1
    <3> QED
      BY <3>1, <3>2, <3>3, <3>4 DEF Founded, Earned
  <2> QED
    BY <2>1, <2>3, <2>4
<1> QED
  BY <1>1, WorkflowInductiveInvariant, PTL

\* From the abort of a node on, whatever the reason, none of its requests gets
\* a permit, no handler of it is started, nothing of it is published or
\* recovered, and no branch of it wins.
THEOREM AbortsAreFinal == RunSpec => AbortIsFinal
<1> DEFINE Final ==
      \A n \in Node :
        /\ BodyAborted(n) => /\ n \in Running' => n \in Running
                             /\ n \in published' => n \in published
                             /\ Winner(n)' = Winner(n)
        /\ FlowAborted(n) => /\ n \in recovered' => n \in recovered
                             /\ pc'[n] \in {"handling", "cleaning"} => pc'[n] = pc[n]
<1>1. RunInv /\ [RunNext]_runVars => Final
  <2> SUFFICES ASSUME RunInv, [RunNext]_runVars, NEW n \in Node
               PROVE  /\ BodyAborted(n) /\ n \in Running' => n \in Running
                      /\ Lasting(n)
    BY DEF Lasting
  <2>1. \A m \in Node : BodyAborted(m) /\ m \in Running' => m \in Running
    BY StepsOfTheLine, LineKeeps DEF RunInv
  <2> QED
    BY <2>1, ResultsLast
<1>2. RunInv /\ [RunNext]_runVars => [Final]_runVars
  BY <1>1
<1> QED
  BY <1>2, WorkflowInductiveInvariant, PTL DEF RunSpec, AbortIsFinal
=============================================================================
