-------------------- MODULE ScheduledNotificationsProofs --------------------
(***************************************************************************)
(* The safety of the outbox, and of a plan and its notifications, for      *)
(* every number of instants, drivers, events, threads, edits, attempts and *)
(* changes of the channel.                                                 *)
(*                                                                         *)
(* The invariant of the outbox relates the rows to the channel only: a     *)
(* thread may hold anything, since what it brings back is checked against  *)
(* the row when it settles.  The plan and the outbox each keep their own   *)
(* invariant; what ties them is what the mark on the source says: a        *)
(* delivery only exists for what is consumed, what is consumed is over and *)
(* stays so, and what was removed has nothing left to send (Retained).     *)
(***************************************************************************)
EXTENDS ScheduledNotifications, ScheduleProofs, FiniteSetTheorems
-----------------------------------------------------------------------------
(***************************************************************************)
(* The outbox                                                              *)
(***************************************************************************)

\* The rows whose lease counts against the calls the deployment allows.
Leased(rows) == {e \in Event : rows[e].state = "sending" /\ rows[e].live /\ ~rows[e].late}

\* What a row may look like.
Proper(r) ==
  /\ r \in Delivery /\ r.attempts <= MaxAttempts
  /\ r.state \notin Open => ~r.live

RowsProper == \A e \in Event : Proper(delivery[e])
OpenCurrent == \A e \in Event : delivery[e].state \in Open => Current(delivery[e].version)
LeasesFit == Cardinality(Leased(delivery)) <= Concurrency

\* The inductive invariant.
OutboxInv == OutboxTypeOK /\ RowsProper /\ OpenCurrent /\ LeasesFit

\* What has been closed stays as it is.
ClosedStay == \A e \in Event : delivery[e].state \in Closed => delivery'[e] = delivery[e]

\* Threads, clocks and changes of the channel touch open deliveries only.
OnlyOpenMove == \A e \in Event : delivery'[e] # delivery[e] => delivery[e].state \in Open
-----------------------------------------------------------------------------
\* Leases end, so that fewer of them are never too many.
LEMMA FewerLeases ==
  ASSUME NEW rows, NEW S \in SUBSET Event, Leased(rows) \subseteq S
  PROVE  /\ Cardinality(Leased(rows)) \in Nat /\ Cardinality(S) \in Nat
         /\ Cardinality(Leased(rows)) <= Cardinality(S)
<1>1. IsFiniteSet(S)
  BY OutboxAssumption, FS_Subset
<1> QED BY <1>1, FS_Subset, FS_CardinalityType

\* A row that is closed is proper, and its lease does not count.
LEMMA ClosingType ==
  ASSUME NEW r \in Delivery, r.attempts <= MaxAttempts, NEW s \in Closed
  PROVE  /\ Proper(Closing(r, s)) /\ Closing(r, s).state = s
  BY DEF Closing, Proper, Delivery, Open, Closed

\* A verdict other than none closes.
LEMMA VerdictCloses ==
  ASSUME NEW r
  PROVE  Verdict(r) # "none" => Verdict(r) \in Closed
  BY DEF Verdict, Closed

\* Rows that are closed or come to be proper, open ones on the channel as it is
\* and without new leases, keep the invariant.
LEMMA RowsChange ==
  ASSUME OutboxInv, UNCHANGED channel, sender' \in [Sender -> Hand \cup {Free}],
         delivery' \in [Event -> Delivery],
         \A e \in Event :
           delivery'[e] # delivery[e] =>
             /\ Proper(delivery'[e]) /\ delivery[e].state \in Open
             /\ delivery'[e].state \in Open => delivery'[e].version = delivery[e].version,
         Cardinality(Leased(delivery')) <= Concurrency
  PROVE  OutboxInv' /\ OnlyOpenMove
<1>1. \A e \in Event : Proper(delivery'[e])
  BY DEF OutboxInv, RowsProper
<1>2. RowsProper'
  BY <1>1 DEF RowsProper, Proper
<1>3. OutboxTypeOK'
  BY <1>1 DEF OutboxInv, OutboxTypeOK, Proper
<1>4. OpenCurrent'
  BY DEF OutboxInv, OpenCurrent, Current, Usable
<1>5. LeasesFit'
  BY DEF LeasesFit, Leased
<1>6. OnlyOpenMove
  BY DEF OnlyOpenMove
<1> QED BY <1>2, <1>3, <1>4, <1>5, <1>6 DEF OutboxInv

\* One row moves on without gaining a lease.
LEMMA OneRowMoves ==
  ASSUME OutboxInv, UNCHANGED channel, sender' \in [Sender -> Hand \cup {Free}],
         NEW e \in Event, NEW r, Proper(r), delivery[e].state \in Open,
         r.state \in Open => delivery[e].state \in Open /\ r.version = delivery[e].version,
         r.state = "sending" /\ r.live /\ ~r.late => e \in Leased(delivery),
         delivery' = [delivery EXCEPT ![e] = r]
  PROVE  OutboxInv' /\ OnlyOpenMove
<1>1. delivery \in [Event -> Delivery]
  BY DEF OutboxInv, OutboxTypeOK
<1>2. delivery' \in [Event -> Delivery] /\ delivery'[e] = r
      /\ \A x \in Event : x # e => delivery'[x] = delivery[x]
  BY <1>1 DEF Proper
<1>3. Leased(delivery') \subseteq Leased(delivery) /\ Leased(delivery) \in SUBSET Event
  BY <1>2 DEF Leased
<1>4. Cardinality(Leased(delivery')) <= Concurrency
  <2>1. /\ Cardinality(Leased(delivery')) \in Nat /\ Cardinality(Leased(delivery)) \in Nat
        /\ Cardinality(Leased(delivery')) <= Cardinality(Leased(delivery))
    BY <1>3, FewerLeases
  <2>2. Cardinality(Leased(delivery)) <= Concurrency /\ Concurrency \in Nat
    BY OutboxAssumption DEF OutboxInv, LeasesFit
  <2> QED BY <2>1, <2>2
<1> QED BY <1>2, <1>4, RowsChange

\* Only the threads move, and what they hold is of their type.
LEMMA OnlySender ==
  ASSUME OutboxInv, UNCHANGED <<channel, delivery>>, sender' \in [Sender -> Hand \cup {Free}]
  PROVE  OutboxInv' /\ OnlyOpenMove
  BY DEF OutboxInv, OutboxTypeOK, RowsProper, Proper, OpenCurrent, Current, Usable, LeasesFit,
         Leased, OnlyOpenMove

\* Backoff, leases and deadlines run out.
LEMMA ClockStep ==
  ASSUME OutboxInv, NEW e \in Event, BackoffEnds(e) \/ DeliveryLeaseEnds(e) \/ DeliveryDeadline(e)
  PROVE  OutboxInv' /\ OnlyOpenMove
<1>1. /\ Proper(delivery[e]) /\ sender \in [Sender -> Hand \cup {Free}]
      /\ delivery[e] \in Delivery /\ Open \cap Closed = {}
  BY DEF OutboxInv, OutboxTypeOK, RowsProper, Open, Closed
<1>2. CASE BackoffEnds(e)
  <2> DEFINE r == [delivery[e] EXCEPT !.due = TRUE]
  <2>1. /\ Proper(r) /\ r.state = "pending" /\ r.version = delivery[e].version
        /\ delivery[e].state = "pending"
    BY <1>1, <1>2 DEF BackoffEnds, Proper, Delivery, Open
  <2>2. delivery' = [delivery EXCEPT ![e] = r] /\ UNCHANGED <<channel, sender>>
    BY <1>2 DEF BackoffEnds
  <2> HIDE DEF r
  <2> QED BY <1>1, <2>1, <2>2, OneRowMoves DEF Open, Closed
<1>3. CASE DeliveryLeaseEnds(e)
  <2> DEFINE r == [delivery[e] EXCEPT !.live = FALSE]
  <2>1. /\ Proper(r) /\ r.state = delivery[e].state /\ r.version = delivery[e].version /\ ~r.live
        /\ delivery[e].state \in Open
    BY <1>1, <1>3 DEF DeliveryLeaseEnds, Proper, Delivery
  <2>2. delivery' = [delivery EXCEPT ![e] = r] /\ UNCHANGED <<channel, sender>>
    BY <1>3 DEF DeliveryLeaseEnds
  <2> HIDE DEF r
  <2> QED BY <1>1, <2>1, <2>2, OneRowMoves
<1>4. CASE DeliveryDeadline(e)
  <2> DEFINE r == [delivery[e] EXCEPT !.late = TRUE]
  <2>1. /\ Proper(r) /\ r.state = delivery[e].state /\ r.version = delivery[e].version /\ r.late
        /\ delivery[e].state \in Open
    BY <1>1, <1>4 DEF DeliveryDeadline, Proper, Delivery
  <2>2. delivery' = [delivery EXCEPT ![e] = r] /\ UNCHANGED <<channel, sender>>
    BY <1>4 DEF DeliveryDeadline
  <2> HIDE DEF r
  <2> QED BY <1>1, <2>1, <2>2, OneRowMoves
<1> QED BY <1>2, <1>3, <1>4

\* Settling: the row is the one the thread has the lease of, or nothing happens.
LEMMA CompleteStep ==
  ASSUME OutboxInv, NEW s \in Sender, Complete(s)
  PROVE  OutboxInv' /\ OnlyOpenMove
<1> DEFINE e == sender[s].e
           old == delivery[e]
<1>1. /\ sender \in [Sender -> Hand \cup {Free}] /\ sender' \in [Sender -> Hand \cup {Free}]
      /\ UNCHANGED channel
  BY DEF Complete, OutboxInv, OutboxTypeOK
<1>2. e \in Event
  <2>1. sender[s] \in Hand \cup {Free} /\ sender[s].pc = "answered"
    BY <1>1 DEF Complete
  <2> QED BY <2>1 DEF Hand, Free
<1>3. CASE ~Holds(s)
  BY <1>1, <1>3, OnlySender DEF Complete
<1>4. CASE Holds(s)
  <2>1. PICK r \in Settled(s) : delivery' = [delivery EXCEPT ![e] = r]
    BY <1>4 DEF Complete
  <2>2. Proper(old) /\ old \in Delivery /\ old.attempts <= MaxAttempts /\ old.state = "sending"
    BY <1>2, <1>4 DEF OutboxInv, RowsProper, Proper, Holds
  <2>3. \A x \in Closed : Proper(Closing(old, x)) /\ Closing(old, x).state = x
    BY <2>2, ClosingType
  <2> DEFINE again == [old EXCEPT !.state = "pending", !.live = FALSE]
  <2>4. Proper(again) /\ again.state = "pending" /\ again.version = old.version
    BY <2>2 DEF Proper, Delivery, Open
  <2>5. r = again \/ \E x \in Closed : r = Closing(old, x)
    BY <2>1 DEF Settled, Closed
  <2> HIDE DEF again, old, e
  <2>6. Proper(r) /\ ((r.state = "pending" /\ r.version = old.version) \/ r.state \in Closed)
    BY <2>3, <2>4, <2>5
  <2> QED BY <1>1, <1>2, <2>1, <2>2, <2>6, OneRowMoves DEF Open, Closed, old
<1> QED BY <1>3, <1>4

\* The rest of a round concerns what the thread holds.
LEMMA ThreadStep ==
  ASSUME OutboxInv, NEW s \in Sender, CheckChannel(s) \/ CallEnds(s) \/ SenderStops(s)
  PROVE  OutboxInv' /\ OnlyOpenMove
<1>1. sender \in [Sender -> Hand \cup {Free}] /\ sender[s] \in Hand \cup {Free}
  BY DEF OutboxInv, OutboxTypeOK
<1>2. UNCHANGED <<channel, delivery>>
  BY DEF CheckChannel, CallEnds, Call, SenderStops
<1>3. ASSUME NEW answer \in Answer, Answered(s, answer), sender[s].pc \in {"claimed", "sending"}
      PROVE  sender' \in [Sender -> Hand \cup {Free}]
  <2> DEFINE h == [pc |-> "answered", e |-> sender[s].e, version |-> sender[s].version,
                   token |-> sender[s].token, answer |-> answer]
  <2>1. h \in Hand
    BY <1>1, <1>3 DEF Hand, Free
  <2>2. sender' = [sender EXCEPT ![s] = h]
    BY <1>3 DEF Answered
  <2> HIDE DEF h
  <2> QED BY <1>1, <2>1, <2>2
<1>4. CASE CheckChannel(s)
  <2>1. "refused" \in Answer
    BY DEF Answer
  <2>2. sender[s].pc = "claimed"
    BY <1>4 DEF CheckChannel
  <2>3. CASE sender' = [sender EXCEPT ![s].pc = "sending"]
    <3> DEFINE h == [sender[s] EXCEPT !.pc = "sending"]
    <3>1. h \in Hand
      BY <1>1, <2>2 DEF Hand, Free
    <3> QED BY <1>1, <1>2, <2>3, <3>1, OnlySender
  <2>4. CASE Answered(s, "refused")
    BY <1>2, <1>3, <2>1, <2>2, <2>4, OnlySender
  <2> QED BY <1>4, <2>3, <2>4 DEF CheckChannel
<1>5. CASE CallEnds(s)
  BY <1>2, <1>3, <1>5, OnlySender DEF CallEnds, Call
<1>6. CASE SenderStops(s)
  BY <1>1, <1>2, <1>6, OnlySender DEF SenderStops
<1> QED BY <1>4, <1>5, <1>6

\* A claim closes rows that are spent and takes at most one lease, if there is
\* one to be had.
LEMMA ClaimStep ==
  ASSUME OutboxInv, NEW s \in Sender, ClaimDelivery(s)
  PROVE  OutboxInv' /\ OnlyOpenMove
<1> DEFINE page == {e \in DueDeliveries : Cardinality({x \in DueDeliveries : x < e}) < Concurrency}
           fit == {e \in page : ~Spent(e)}
<1>1. /\ delivery \in [Event -> Delivery] /\ sender \in [Sender -> Hand \cup {Free}]
      /\ UNCHANGED channel
      /\ \A e \in Event : Proper(delivery[e]) /\ delivery[e] \in Delivery
  BY DEF OutboxInv, OutboxTypeOK, RowsProper, Proper, ClaimDelivery
<1>2. page \subseteq DueDeliveries /\ DueDeliveries \subseteq Event
      /\ \A e \in DueDeliveries : /\ delivery[e].state \in Open /\ delivery[e].state \in Open
                                  /\ e \notin Leased(delivery)
  BY DEF DueDeliveries, Open, Closed, Leased
<1>3. ASSUME NEW S \in SUBSET page, \A e \in S : Spent(e)
      PROVE  /\ Retired(S) \in [Event -> Delivery]
             /\ \A e \in Event : \/ Retired(S)[e] = delivery[e]
                                \/ /\ e \in DueDeliveries /\ Proper(Retired(S)[e])
                                   /\ Retired(S)[e].state \in Closed
             /\ Leased(Retired(S)) \subseteq Leased(delivery)
  <2>1. ASSUME NEW e \in S
        PROVE  /\ Proper(Closing(delivery[e], Verdict(delivery[e])))
               /\ Closing(delivery[e], Verdict(delivery[e])).state \in Closed
               /\ Closing(delivery[e], Verdict(delivery[e])) \in Delivery
    <3>1. e \in Event /\ Proper(delivery[e]) /\ delivery[e] \in Delivery
      BY <1>1, <1>2
    <3>2. Verdict(delivery[e]) \in Closed
      BY <1>3, VerdictCloses DEF Spent
    <3> QED BY <3>1, <3>2, ClosingType DEF Proper
  <2>2. \A e \in Event : Retired(S)[e] = IF e \in S THEN Closing(delivery[e], Verdict(delivery[e]))
                                                    ELSE delivery[e]
    BY DEF Retired
  <2>3. Retired(S) \in [Event -> Delivery]
    BY <1>1, <2>1 DEF Retired
  <2>4. \A e \in Event : \/ Retired(S)[e] = delivery[e]
                         \/ /\ e \in DueDeliveries /\ Proper(Retired(S)[e])
                            /\ Retired(S)[e].state \in Closed
    BY <1>2, <2>1, <2>2
  <2>5. Leased(Retired(S)) \subseteq Leased(delivery)
    BY <2>4 DEF Leased, Closed
  <2> QED BY <2>3, <2>4, <2>5
<1>4. CASE \E first \in fit :
             /\ SlotFree
             /\ delivery' = [Retired({e \in page : Spent(e) /\ e < first}) EXCEPT
                               ![first] = Taken(delivery[first])]
             /\ sender' = [sender EXCEPT ![s] =
                  [pc |-> "claimed", e |-> first, version |-> delivery[first].version,
                   token |-> delivery[first].attempts + 1]]
  <2>1. PICK first \in fit :
             /\ SlotFree
             /\ delivery' = [Retired({e \in page : Spent(e) /\ e < first}) EXCEPT
                               ![first] = Taken(delivery[first])]
             /\ sender' = [sender EXCEPT ![s] =
                  [pc |-> "claimed", e |-> first, version |-> delivery[first].version,
                   token |-> delivery[first].attempts + 1]]
    BY <1>4
  <2> DEFINE S == {e \in page : Spent(e) /\ e < first}
             r == Taken(delivery[first])
  <2>2. /\ first \in DueDeliveries /\ first \in Event /\ first \notin S /\ ~Spent(first)
        /\ Proper(delivery[first]) /\ delivery[first] \in Delivery
    BY <1>1, <1>2
  <2>3. /\ S \in SUBSET page /\ \A e \in S : Spent(e)
    OBVIOUS
  <2>4. /\ Retired(S) \in [Event -> Delivery]
        /\ \A e \in Event : \/ Retired(S)[e] = delivery[e]
                            \/ /\ e \in DueDeliveries /\ Proper(Retired(S)[e])
                               /\ Retired(S)[e].state \in Closed
        /\ Leased(Retired(S)) \subseteq Leased(delivery)
    BY <1>3, <2>3
  <2>5. Retired(S)[first] = delivery[first]
    BY <2>2 DEF Retired
  <2>6. delivery' = [Retired(S) EXCEPT ![first] = r]
    BY <2>1
  <2>7. /\ Proper(r) /\ r.state = "sending" /\ r.version = delivery[first].version
        /\ delivery[first].version \in Nat /\ delivery[first].attempts + 1 \in Nat
    <3>1. delivery[first].attempts \in Nat /\ ~(delivery[first].attempts >= MaxAttempts)
      BY <2>2 DEF Spent, Verdict, Delivery
    <3>2. MaxAttempts \in Nat
      BY OutboxAssumption
    <3>3. delivery[first].attempts + 1 \in Nat /\ delivery[first].attempts + 1 <= MaxAttempts
      BY <3>1, <3>2
    <3>4. r \in Delivery /\ r.attempts = delivery[first].attempts + 1 /\ r.state = "sending"
          /\ r.version = delivery[first].version
      BY <2>2, <3>3 DEF Delivery, Open, Taken
    <3>5. delivery[first].version \in Nat
      BY <2>2 DEF Delivery
    <3> HIDE DEF r
    <3> QED BY <3>3, <3>4, <3>5 DEF Proper, Open
  <2>8. sender' \in [Sender -> Hand \cup {Free}]
    <3> DEFINE h == [pc |-> "claimed", e |-> first, version |-> delivery[first].version,
                     token |-> delivery[first].attempts + 1]
    <3>1. h \in Hand
      BY <2>2, <2>7 DEF Hand
    <3>2. sender' = [sender EXCEPT ![s] = h]
      BY <2>1
    <3> HIDE DEF h
    <3> QED BY <1>1, <3>1, <3>2
  <2> HIDE DEF S, r
  <2>9. /\ delivery'[first] = r /\ delivery' \in [Event -> Delivery]
        /\ \A e \in Event : e # first => delivery'[e] = Retired(S)[e]
    BY <2>2, <2>4, <2>6, <2>7 DEF Proper
  <2>10. Cardinality(Leased(delivery')) <= Concurrency
    <3>1. Leased(delivery') \subseteq Leased(delivery) \cup {first}
      BY <2>4, <2>9 DEF Leased
    <3>2. Leased(delivery) \in SUBSET Event /\ Leased(delivery) \cup {first} \in SUBSET Event
      BY <2>2 DEF Leased
    <3>3. IsFiniteSet(Leased(delivery)) /\ first \notin Leased(delivery)
      BY <1>2, <2>2, <3>2, OutboxAssumption, FS_Subset
    <3>4. Cardinality(Leased(delivery) \cup {first}) = Cardinality(Leased(delivery)) + 1
      BY <3>3, FS_AddElement
    <3>5. /\ Cardinality(Leased(delivery')) \in Nat
          /\ Cardinality(Leased(delivery')) <= Cardinality(Leased(delivery) \cup {first})
      BY <3>1, <3>2, FewerLeases
    <3>6. Cardinality(Leased(delivery)) \in Nat /\ Concurrency \in Nat
      BY <3>3, OutboxAssumption, FS_CardinalityType
    <3>7. Cardinality(Leased(delivery)) < Concurrency
      BY <2>1 DEF SlotFree, Leased
    <3> QED BY <3>4, <3>5, <3>6, <3>7
  <2>11. ASSUME NEW e \in Event, delivery'[e] # delivery[e]
         PROVE  /\ Proper(delivery'[e]) /\ delivery[e].state \in Open
                /\ delivery'[e].state \in Open =>
                     delivery[e].state \in Open /\ delivery'[e].version = delivery[e].version
    <3>1. CASE e = first
      BY <1>2, <2>2, <2>7, <2>9, <3>1
    <3>2. CASE e # first
      BY <1>2, <2>4, <2>9, <2>11, <3>2 DEF Open, Closed
    <3> QED BY <3>1, <3>2
  <2> QED BY <1>1, <2>8, <2>9, <2>10, <2>11, RowsChange
<1>5. CASE /\ delivery' = Retired({e \in page : Spent(e) /\ \A x \in fit : e < x})
           /\ UNCHANGED sender
  <2> DEFINE S == {e \in page : Spent(e) /\ \A x \in fit : e < x}
  <2>1. S \in SUBSET page /\ \A e \in S : Spent(e)
    OBVIOUS
  <2>2. /\ Retired(S) \in [Event -> Delivery]
        /\ \A e \in Event : \/ Retired(S)[e] = delivery[e]
                            \/ /\ e \in DueDeliveries /\ Proper(Retired(S)[e])
                               /\ Retired(S)[e].state \in Closed
        /\ Leased(Retired(S)) \subseteq Leased(delivery)
    BY <1>3, <2>1
  <2>3. delivery' = Retired(S) /\ sender' = sender
    BY <1>5
  <2> HIDE DEF S
  <2>4. Cardinality(Leased(delivery')) <= Concurrency
    <3>1. Leased(delivery) \in SUBSET Event
      BY DEF Leased
    <3>2. /\ Cardinality(Leased(delivery')) \in Nat /\ Cardinality(Leased(delivery)) \in Nat
          /\ Cardinality(Leased(delivery')) <= Cardinality(Leased(delivery))
      BY <2>2, <2>3, <3>1, FewerLeases
    <3>3. Cardinality(Leased(delivery)) <= Concurrency /\ Concurrency \in Nat
      BY OutboxAssumption DEF OutboxInv, LeasesFit
    <3> QED BY <3>2, <3>3
  <2>5. \A e \in Event :
          delivery'[e] # delivery[e] =>
            /\ Proper(delivery'[e]) /\ delivery[e].state \in Open
            /\ delivery'[e].state \in Open =>
                 delivery[e].state \in Open /\ delivery'[e].version = delivery[e].version
    BY <1>2, <2>2, <2>3 DEF Open, Closed
  <2> QED BY <1>1, <2>2, <2>3, <2>4, <2>5, RowsChange
<1> QED BY <1>4, <1>5 DEF ClaimDelivery
-----------------------------------------------------------------------------
\* A change of the channel closes every open delivery: all are of the version
\* that ends.
LEMMA ChangeStep ==
  ASSUME OutboxInv, NEW enabled \in BOOLEAN, NEW deleted \in BOOLEAN, ChangeChannel(enabled, deleted)
  PROVE  OutboxInv' /\ OnlyOpenMove
<1>1. /\ delivery \in [Event -> Delivery] /\ sender \in [Sender -> Hand \cup {Free}]
      /\ \A e \in Event : Proper(delivery[e]) /\ delivery[e] \in Delivery
      /\ \A e \in Event : delivery[e].state \in Open => delivery[e].version = channel.version
  BY DEF OutboxInv, OutboxTypeOK, RowsProper, OpenCurrent, Current, Proper
<1>2. /\ channel' = [version |-> channel.version + 1, enabled |-> enabled, deleted |-> deleted]
      /\ channel.version < MaxVersion /\ UNCHANGED sender
      /\ delivery' = [e \in Event |->
           IF delivery[e].state \in Open /\ delivery[e].version = channel.version
           THEN Closing(delivery[e], "stopped") ELSE delivery[e]]
  BY DEF ChangeChannel, StopChannel
<1>3. \A e \in Event : /\ Proper(Closing(delivery[e], "stopped"))
                       /\ Closing(delivery[e], "stopped").state = "stopped"
                       /\ Closing(delivery[e], "stopped") \in Delivery
  BY <1>1, ClosingType DEF Proper, Closed
<1>4. \A e \in Event : /\ Proper(delivery'[e]) /\ delivery'[e].state \notin Open
                       /\ delivery'[e] # delivery[e] => delivery[e].state \in Open
  BY <1>1, <1>2, <1>3 DEF Open
<1>5. delivery' \in [Event -> Delivery]
  BY <1>1, <1>2, <1>3
<1>6. channel' \in [version : 1..MaxVersion, enabled : BOOLEAN, deleted : BOOLEAN]
  <2>1. channel.version \in 1..MaxVersion /\ MaxVersion \in Nat
    BY OutboxAssumption DEF OutboxInv, OutboxTypeOK
  <2>2. channel.version + 1 \in 1..MaxVersion
    BY <1>2, <2>1
  <2> QED BY <1>2, <2>2
<1>7. RowsProper' /\ OpenCurrent'
  BY <1>4 DEF RowsProper, Proper, OpenCurrent
<1>8. OutboxTypeOK'
  BY <1>1, <1>2, <1>4, <1>5, <1>6 DEF OutboxTypeOK, Proper
<1>9. LeasesFit'
  <2>1. Leased(delivery') = {}
    BY <1>4 DEF Leased, Open
  <2>2. Cardinality(Leased(delivery')) = 0 /\ Concurrency \in Nat
    BY <2>1, FS_EmptySet, OutboxAssumption
  <2> QED BY <2>2 DEF LeasesFit, Leased
<1>10. OnlyOpenMove
  BY <1>4 DEF OnlyOpenMove
<1> QED BY <1>7, <1>8, <1>9, <1>10 DEF OutboxInv

\* Every step of threads, clocks and administrators.
LEMMA OutboxKept ==
  ASSUME OutboxInv, OutboxStep
  PROVE  OutboxInv' /\ OnlyOpenMove
<1>1. CASE \E s \in Sender : SenderStep(s)
  BY <1>1, ClaimStep, ThreadStep, CompleteStep DEF SenderStep
<1>2. CASE \E enabled, deleted \in BOOLEAN : ChangeChannel(enabled, deleted)
  BY <1>2, ChangeStep
<1>3. CASE \E e \in Event : BackoffEnds(e) \/ DeliveryLeaseEnds(e) \/ DeliveryDeadline(e)
  BY <1>3, ClockStep
<1> QED BY <1>1, <1>2, <1>3 DEF OutboxStep

\* A delivery that is inserted is open only on a usable channel, at its version.
LEMMA EnqueuedStep ==
  ASSUME OutboxInv, NEW e \in Event, delivery[e].state = "none",
         delivery' = Enqueued(e), UNCHANGED <<channel, sender>>
  PROVE  /\ OutboxInv' /\ ClosedStay /\ delivery'[e].state # "none"
         /\ \A x \in Event : x # e => delivery'[x] = delivery[x]
<1> DEFINE fresh == [NoDelivery EXCEPT !.version = channel.version, !.due = TRUE]
           waiting == [fresh EXCEPT !.state = "pending"]
<1>1. /\ delivery \in [Event -> Delivery] /\ channel.version \in Nat
      /\ channel \in [version : 1..MaxVersion, enabled : BOOLEAN, deleted : BOOLEAN]
      /\ MaxAttempts \in Nat /\ Concurrency \in Nat
  BY OutboxAssumption DEF OutboxInv, OutboxTypeOK
<1>2. NoDelivery \in Delivery /\ NoDelivery.attempts = 0 /\ NoDelivery.live = FALSE
  BY DEF NoDelivery, Delivery
<1>3. fresh \in Delivery /\ fresh.attempts = 0 /\ fresh.version = channel.version /\ ~fresh.live
  BY <1>1, <1>2 DEF Delivery
<1> HIDE DEF fresh
<1>4. /\ waiting \in Delivery /\ waiting.attempts = 0 /\ waiting.state = "pending"
      /\ waiting.version = channel.version /\ ~waiting.live
  BY <1>3 DEF Delivery, Open
<1> HIDE DEF waiting
<1>5. PICK r : /\ delivery' = [delivery EXCEPT ![e] = r]
               /\ \/ r = waiting /\ Usable
                  \/ r \in {Closing(fresh, "rejected"), Closing(fresh, "stopped")}
  BY DEF Enqueued, fresh, waiting
<1>6. /\ Proper(Closing(fresh, "rejected")) /\ Closing(fresh, "rejected").state = "rejected"
      /\ Proper(Closing(fresh, "stopped")) /\ Closing(fresh, "stopped").state = "stopped"
  <2>1. fresh.attempts <= MaxAttempts
    BY <1>1, <1>3
  <2> QED BY <1>3, <2>1, ClosingType DEF Closed
<1>7. Proper(waiting)
  BY <1>1, <1>4 DEF Proper, Open
<1>8. /\ Proper(r) /\ r.state # "none" /\ r.state # "sending" /\ r \in Delivery
      /\ r.state \in Open => r.version = channel.version /\ Usable
  BY <1>4, <1>5, <1>6, <1>7 DEF Proper, Open
<1>9. delivery'[e] = r /\ \A x \in Event : x # e => delivery'[x] = delivery[x]
  BY <1>1, <1>5
<1>10. delivery' \in [Event -> Delivery]
  BY <1>1, <1>5, <1>8
<1>11. \A x \in Event : Proper(delivery'[x])
  BY <1>8, <1>9 DEF OutboxInv, RowsProper
<1>12. RowsProper' /\ OutboxTypeOK'
  BY <1>10, <1>11 DEF OutboxInv, RowsProper, Proper, OutboxTypeOK
<1>13. OpenCurrent'
  BY <1>8, <1>9 DEF OutboxInv, OpenCurrent, Current, Usable
<1>14. LeasesFit'
  <2>1. Leased(delivery') \subseteq Leased(delivery) /\ Leased(delivery) \in SUBSET Event
    BY <1>8, <1>9 DEF Leased
  <2>2. /\ Cardinality(Leased(delivery')) \in Nat /\ Cardinality(Leased(delivery)) \in Nat
        /\ Cardinality(Leased(delivery')) <= Cardinality(Leased(delivery))
    BY <2>1, FewerLeases
  <2>3. Cardinality(Leased(delivery')) <= Concurrency
    BY <1>1, <2>2 DEF OutboxInv, LeasesFit
  <2> QED BY <2>3 DEF LeasesFit, Leased
<1>15. ClosedStay
  BY <1>9 DEF ClosedStay, Closed
<1> QED BY <1>8, <1>9, <1>12, <1>13, <1>14, <1>15 DEF OutboxInv

\* The invariant holds of an empty outbox.
LEMMA OutboxInitial ==
  OutboxInit => OutboxInv
<1> SUFFICES ASSUME OutboxInit PROVE OutboxInv
  OBVIOUS
<1>1. NoDelivery \in Delivery /\ NoDelivery.state = "none" /\ NoDelivery.attempts = 0 /\ ~NoDelivery.live
  BY DEF NoDelivery, Delivery
<1>2. \A e \in Event : delivery[e] = NoDelivery
  BY DEF OutboxInit
<1>3. {MaxVersion, MaxAttempts, Concurrency} \subseteq Nat \ {0}
  BY OutboxAssumption
<1>4. OutboxTypeOK
  <2>1. channel \in [version : 1..MaxVersion, enabled : BOOLEAN, deleted : BOOLEAN]
    BY <1>3 DEF OutboxInit
  <2>2. sender \in [Sender -> Hand \cup {Free}] /\ delivery \in [Event -> Delivery]
    BY <1>1 DEF OutboxInit
  <2>3. \A e \in Event : delivery[e].attempts <= MaxAttempts
    BY <1>1, <1>2, <1>3
  <2> QED BY <2>1, <2>2, <2>3 DEF OutboxTypeOK
<1>5. RowsProper /\ OpenCurrent
  BY <1>1, <1>2, <1>3 DEF RowsProper, Proper, OpenCurrent, Open
<1>6. LeasesFit
  <2>1. Leased(delivery) = {}
    BY <1>1, <1>2 DEF Leased
  <2> QED BY <1>3, <2>1, FS_EmptySet DEF LeasesFit
<1> QED BY <1>4, <1>5, <1>6 DEF OutboxInv

\* Where nothing of the outbox changes, the invariant stays.
LEMMA OutboxStutter ==
  ASSUME OutboxInv, UNCHANGED outboxVars
  PROVE  OutboxInv' /\ ClosedStay
  BY OnlySender DEF outboxVars, OutboxInv, OutboxTypeOK, ClosedStay
-----------------------------------------------------------------------------
(***************************************************************************)
(* A plan and its notifications                                            *)
(***************************************************************************)

Retained ==
  \A o \in Occurrence :
    /\ row[o].state = "pruned" => o \in consumed /\ delivery[o].state \notin Open
    /\ o \in consumed => Over(o) \/ row[o].state = "pruned"
    /\ delivery[o].state # "none" => o \in consumed

\* The inductive invariant.
NotificationInv == ScheduleInv /\ OutboxInv /\ Retained /\ consumed \subseteq Occurrence

\* The invariant holds at the start.
LEMMA NotificationInitial ==
  Init => NotificationInv
<1> SUFFICES ASSUME Init PROVE NotificationInv
  OBVIOUS
<1>1. ScheduleInv /\ OutboxInv
  BY ScheduleInitial, OutboxInitial DEF Init
<1>2. Retained
  <2>1. \A o \in Occurrence : /\ row[o].state = "none" /\ o \notin consumed
                              /\ delivery[o].state = "none"
    BY NotificationAssumption
    DEF Init, ScheduleInit, OutboxInit, NoRow, NoDelivery
  <2> QED BY <2>1 DEF Retained
<1> QED BY <1>1, <1>2 DEF NotificationInv, Init

\* The plan's own steps leave the outbox alone, and what is over stays over.
LEMMA PlanStep ==
  ASSUME NotificationInv, Schedules(ScheduleNext)
  PROVE  NotificationInv' /\ ClosedStay
<1>1. ScheduleInv' /\ OutboxInv' /\ ClosedStay /\ UNCHANGED <<delivery, consumed>>
  BY ScheduleStep, OutboxStutter DEF Schedules, NotificationInv, outboxVars
<1>2. \A o \in Occurrence :
        /\ row[o].state \in Dropped \cup {"submitted", "pruned"} => row'[o].state = row[o].state
        /\ job[o] # "none" => job'[o] \in {job[o], "released"}
  BY EndedStays DEF Schedules, NotificationInv
<1>3. Retained'
  <2> SUFFICES ASSUME NEW o \in Occurrence
               PROVE  /\ row'[o].state = "pruned" => o \in consumed /\ delivery[o].state \notin Open
                      /\ o \in consumed => Over(o)' \/ row'[o].state = "pruned"
                      /\ delivery[o].state # "none" => o \in consumed
    BY <1>1 DEF Retained
  <2>1. o \in consumed => Over(o) \/ row[o].state = "pruned"
    BY DEF NotificationInv, Retained
  <2>2. o \in consumed => Over(o)' \/ row'[o].state = "pruned"
    BY <1>2, <2>1 DEF Over, Dropped
  <2>3. row'[o].state = "pruned" => row[o].state = "pruned"
    BY NonePruned DEF Schedules, NotificationInv
  <2> QED BY <2>2, <2>3 DEF NotificationInv, Retained
<1> QED BY <1>1, <1>3 DEF NotificationInv

\* Threads, clocks and the channel leave the plan alone and close deliveries.
LEMMA DeliveryStep ==
  ASSUME NotificationInv, Delivers(OutboxStep)
  PROVE  NotificationInv' /\ ClosedStay
<1>1. OutboxInv' /\ OnlyOpenMove
  BY OutboxKept DEF Delivers, NotificationInv
<1>2. ScheduleInv' /\ UNCHANGED <<row, job, consumed>>
  BY ScheduleStutter DEF Delivers, NotificationInv, scheduleVars
<1>3. ClosedStay
  BY <1>1 DEF OnlyOpenMove, ClosedStay, Open, Closed
<1>4. Retained'
  <2> SUFFICES ASSUME NEW o \in Occurrence
               PROVE  /\ row[o].state = "pruned" => o \in consumed /\ delivery'[o].state \notin Open
                      /\ o \in consumed => Over(o) \/ row[o].state = "pruned"
                      /\ delivery'[o].state # "none" => o \in consumed
    BY <1>2 DEF Retained, Over
  <2>1. delivery'[o] # delivery[o] => delivery[o].state \in Open
    BY <1>1, NotificationAssumption DEF OnlyOpenMove
  <2> QED BY <2>1 DEF NotificationInv, Retained, Open
<1> QED BY <1>1, <1>2, <1>3, <1>4 DEF NotificationInv

\* An event is made of what is over and not yet consumed, so its delivery is new.
LEMMA ObserveStep ==
  ASSUME NotificationInv, NEW o \in Occurrence, Observe(o)
  PROVE  NotificationInv' /\ ClosedStay
<1>1. /\ Over(o) /\ o \notin consumed /\ consumed' = consumed \cup {o}
      /\ UNCHANGED <<scheduleVars, channel, sender>>
      /\ delivery' = Enqueued(o) \/ delivery' = delivery
  BY DEF Observe, Ready
<1>2. ScheduleInv' /\ UNCHANGED <<row, job>>
  BY <1>1, ScheduleStutter DEF NotificationInv, scheduleVars
<1>3. delivery[o].state = "none" /\ row[o].state # "pruned" /\ o \in Event
  BY <1>1, NotificationAssumption DEF NotificationInv, Retained, Over, Dropped
<1>4. OutboxInv' /\ ClosedStay /\ \A x \in Occurrence : x # o => delivery'[x] = delivery[x]
  <2>1. CASE delivery' = Enqueued(o)
    BY <1>1, <1>3, <2>1, EnqueuedStep, NotificationAssumption DEF NotificationInv
  <2>2. CASE delivery' = delivery
    BY <1>1, <2>2, OutboxStutter DEF NotificationInv, outboxVars
  <2> QED BY <1>1, <2>1, <2>2
<1>5. \A x \in Occurrence : Over(x)' = Over(x)
  BY <1>2 DEF Over
<1>6. Retained'
  BY <1>1, <1>2, <1>3, <1>4, <1>5 DEF NotificationInv, Retained
<1> QED BY <1>1, <1>2, <1>4, <1>6 DEF NotificationInv

\* What is removed has been consumed, and its delivery is not open.
LEMMA PruneStep ==
  ASSUME NotificationInv, NEW o \in Occurrence, Prune(o)
  PROVE  NotificationInv' /\ ClosedStay
<1>1. /\ row[o].state \in Dropped \cup {"submitted"} /\ job[o] # "open"
      /\ o \in consumed /\ delivery[o].state \notin Open
      /\ row' = [row EXCEPT ![o] = [NoRow EXCEPT !.state = "pruned"]]
      /\ UNCHANGED <<control, plan, missed, job, allowed, clock, driver, outboxVars, consumed>>
  <2>1. row[o].state = "submitted" => job[o] = "released"
    BY DEF Prune, NoActiveJob
  <2>2. job[o] = "open" => row[o].state = "submitted"
    BY DEF NotificationInv, ScheduleInv, Linked
  <2> QED BY <2>1, <2>2 DEF Prune, NoPendingNotification
<1>2. ScheduleInv' /\ row'[o].state = "pruned"
  BY <1>1, RowRemoved DEF NotificationInv
<1>3. OutboxInv' /\ ClosedStay /\ UNCHANGED <<delivery, consumed, job>>
  BY <1>1, OutboxStutter DEF NotificationInv, outboxVars
<1>4. \A x \in Occurrence : x # o => row'[x] = row[x]
  BY <1>1 DEF NotificationInv, ScheduleInv, ScheduleTypeOK
<1>5. \A x \in Occurrence : x # o => Over(x)' = Over(x)
  BY <1>3, <1>4 DEF Over
<1>6. Retained'
  BY <1>1, <1>2, <1>3, <1>4, <1>5 DEF NotificationInv, Retained
<1> QED BY <1>2, <1>3, <1>6 DEF NotificationInv

\* Every step, or none, keeps the invariant and every delivery that has ended.
LEMMA NotificationStep ==
  ASSUME NotificationInv, [Next]_notificationVars
  PROVE  NotificationInv' /\ ClosedStay
<1>1. CASE UNCHANGED notificationVars
  <2>1. ScheduleInv' /\ OutboxInv' /\ ClosedStay
        /\ UNCHANGED <<row, job, delivery, consumed>>
    BY <1>1, ScheduleStutter, OutboxStutter
    DEF notificationVars, scheduleVars, outboxVars, NotificationInv
  <2>2. Retained'
    BY <2>1 DEF NotificationInv, Retained, Over
  <2> QED BY <2>1, <2>2 DEF NotificationInv
<1>2. CASE Next
  BY <1>2, PlanStep, DeliveryStep, ObserveStep, PruneStep DEF Next
<1> QED BY <1>1, <1>2

\* The inductive invariant holds of every reachable state.
THEOREM NotificationInvariant == Spec => []NotificationInv
<1>1. NotificationInv /\ [Next]_notificationVars => NotificationInv'
  BY NotificationStep
<1> QED BY NotificationInitial, <1>1, PTL DEF Spec
-----------------------------------------------------------------------------
\* Rows, cursor, drivers, deliveries and threads keep their types, and no
\* delivery is tried more often than its limit says.
THEOREM ScheduledTypeCorrect == Spec => []ScheduledTypeOK
<1>1. NotificationInv => ScheduledTypeOK
  BY DEF NotificationInv, ScheduleInv, OutboxInv, ScheduledTypeOK
<1> QED BY NotificationInvariant, <1>1, PTL

\* The runs of one plan never overlap and start in the order they were planned
\* in, however many instances admit and submit them.
THEOREM RunsDoNotOverlap == Spec => []OneAtATime
<1>1. NotificationInv => OneAtATime
  <2> SUFFICES ASSUME NotificationInv PROVE OneAtATime
    OBVIOUS
  <2>1. \A o \in Occurrence : \A k \in 1..(o - 1) : k \in Occurrence /\ k < o
    BY ScheduleAssumption DEF Occurrence
  <2> QED BY <2>1 DEF NotificationInv, ScheduleInv, Serial, OneWaits, OneAtATime
<1> QED BY NotificationInvariant, <1>1, PTL

\* Nothing planned before a pause, an edit, a deletion or a rejection can still
\* be submitted.
THEOREM BarrierHolds == Spec => []NothingOutlivesBarrier
<1>1. NotificationInv => NothingOutlivesBarrier
  BY DEF NotificationInv, ScheduleInv, Behind, Cursor, NothingOutlivesBarrier, CurrentBarrier
<1> QED BY NotificationInvariant, <1>1, PTL

\* Every instant the cursor has passed is an occurrence or recorded as missed.
THEOREM NoInstantLost == Spec => []InstantsAccounted
<1>1. NotificationInv => InstantsAccounted
  BY DEF NotificationInv, ScheduleInv, Accounted, InstantsAccounted
<1> QED BY NotificationInvariant, <1>1, PTL

\* Open deliveries are for the channel as it is, and leases never exceed the
\* calls the deployment allows.
THEOREM OutboxFollowsChannel == Spec => []OutboxIsCurrent
<1>1. NotificationInv => OutboxIsCurrent
  BY DEF NotificationInv, OutboxInv, OpenCurrent, LeasesFit, Leased, OutboxIsCurrent
<1> QED BY NotificationInvariant, <1>1, PTL

\* Retention takes nothing away that a job or a delivery still needs.
THEOREM RetentionIsSafe == Spec => []RemovedIsSpent
<1>1. NotificationInv => RemovedIsSpent
  BY DEF NotificationInv, ScheduleInv, Linked, Retained, RemovedIsSpent
<1> QED BY NotificationInvariant, <1>1, PTL

\* What was decided of an occurrence stands, whichever driver holds a claim of it
\* or a rejection to record.
THEOREM DecisionsStand == Spec => DecisionIsFinal
<1>1. NotificationInv /\ [Next]_notificationVars =>
        [\A o \in Occurrence :
           /\ row[o].state \in Dropped \cup {"submitted", "pruned"} =>
                row'[o].state = row[o].state \/ row'[o].state = "pruned"
           /\ job[o] # "none" => job'[o] \in {job[o], "released"}]_notificationVars
  <2> SUFFICES ASSUME NotificationInv, Next, NEW o \in Occurrence
               PROVE  /\ row[o].state \in Dropped \cup {"submitted", "pruned"} =>
                           row'[o].state = row[o].state \/ row'[o].state = "pruned"
                      /\ job[o] # "none" => job'[o] \in {job[o], "released"}
    OBVIOUS
  <2>1. CASE Schedules(ScheduleNext)
    BY <2>1, EndedStays DEF Schedules, NotificationInv
  <2>2. CASE Delivers(OutboxStep)
    BY <2>2 DEF Delivers, scheduleVars
  <2>3. ASSUME NEW k \in Occurrence, Observe(k)
        PROVE  row' = row /\ job' = job
    BY <2>3 DEF Observe, scheduleVars
  <2>4. ASSUME NEW k \in Occurrence, Prune(k)
        PROVE  job' = job /\ (row'[o] = row[o] \/ row'[o].state = "pruned")
    <3>1. row \in [Occurrence -> Row] /\ job' = job
          /\ row' = [row EXCEPT ![k] = [NoRow EXCEPT !.state = "pruned"]]
      BY <2>4 DEF Prune, NotificationInv, ScheduleInv, ScheduleTypeOK
    <3> QED BY <3>1 DEF NoRow
  <2> QED BY <2>1, <2>2, <2>3, <2>4 DEF Next
<1> QED BY NotificationInvariant, <1>1, PTL DEF Spec, DecisionIsFinal

\* How a delivery ended stays so.
THEOREM DeliveryEndsOnce == Spec => DeliveryEndIsFinal
<1>1. NotificationInv /\ [Next]_notificationVars =>
        [\A e \in Event : delivery[e].state \in Closed => delivery'[e] = delivery[e]]_notificationVars
  BY NotificationStep DEF ClosedStay
<1> QED BY NotificationInvariant, <1>1, PTL DEF Spec, DeliveryEndIsFinal
=============================================================================
