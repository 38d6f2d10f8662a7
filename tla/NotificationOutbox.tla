------------------------- MODULE NotificationOutbox -------------------------
(***************************************************************************)
(* The outbox of schedule notifications (execution/notifications): the     *)
(* deliveries of events to one webhook channel and the dispatch threads of *)
(* all instances that claim, send and settle them.  A claim and a settling *)
(* are transactions under the notification gate; between them the thread   *)
(* reads the channel without a lock and calls the webhook without a        *)
(* transaction, while its lease may run out and the channel may change.    *)
(* Every take counts an attempt, so the number of attempts stands for the  *)
(* lease token.                                                            *)
(***************************************************************************)
EXTENDS Naturals, FiniteSets

CONSTANTS
  Event,          \* the events, numbered in the order of their deliveries' ids
  Sender,         \* dispatch threads, of all instances
  MaxAttempts,    \* limits.maxAttempts
  Concurrency,    \* apicc.notification.concurrency
  MaxPending,     \* maxPendingDeliveries
  MaxVersion      \* bound on the changes of the channel

ASSUME OutboxAssumption ==
  /\ Event \subseteq Nat /\ IsFiniteSet(Event)
  /\ {MaxAttempts, Concurrency, MaxPending, MaxVersion} \subseteq Nat \ {0}

VARIABLES
  channel,    \* the row of execution_notification_channels
  delivery,   \* the rows of execution_notification_outbox
  sender      \* what a dispatch thread has in its hands

outboxVars == <<channel, delivery, sender>>

Open == {"pending", "sending"}
Closed == {"acknowledged", "failed", "expired", "stopped", "rejected"}
\* What a round brings; refused is everything that is not worth a retry: an
\* answer, a channel that changed or cannot be opened, a deadline passed before
\* the call.
Answer == {"acknowledged", "retryable", "refused"}

Delivery == [state : {"none"} \cup Open \cup Closed,
             version : Nat,      \* channel_version
             attempts : Nat,
             due : BOOLEAN,      \* next_attempt_at has passed
             live : BOOLEAN,     \* now < lease_until_utc
             late : BOOLEAN]     \* now >= deadline_utc

NoDelivery == [state |-> "none", version |-> 0, attempts |-> 0,
               due |-> FALSE, live |-> FALSE, late |-> FALSE]

Free == [pc |-> "free"]
Hand == [pc : {"claimed", "sending"}, e : Event, version : Nat, token : Nat]
        \cup [pc : {"answered"}, e : Event, version : Nat, token : Nat, answer : Answer]

OutboxTypeOK ==
  /\ channel \in [version : 1..MaxVersion, enabled : BOOLEAN, deleted : BOOLEAN]
  /\ delivery \in [Event -> Delivery]
  /\ \A e \in Event : delivery[e].attempts <= MaxAttempts
  /\ sender \in [Sender -> Hand \cup {Free}]

OutboxInit ==
  /\ channel = [version |-> 1, enabled |-> TRUE, deleted |-> FALSE]
  /\ delivery = [e \in Event |-> NoDelivery]
  /\ sender = [s \in Sender |-> Free]
-----------------------------------------------------------------------------
Usable == channel.enabled /\ ~channel.deleted

Current(version) == Usable /\ channel.version = version

Closing(r, state) == [r EXCEPT !.state = state, !.due = FALSE, !.live = FALSE, !.late = FALSE]

\* The transaction that consumes an event's source inserts its delivery, which
\* a full outbox or a channel switched off ends at once.
Enqueued(e) ==
  LET fresh == [NoDelivery EXCEPT !.version = channel.version, !.due = TRUE]
      full == Cardinality({x \in Event : delivery[x].state \in Open}) >= MaxPending IN
  [delivery EXCEPT ![e] = IF full THEN Closing(fresh, "rejected")
                          ELSE IF ~Usable THEN Closing(fresh, "stopped")
                          ELSE [fresh EXCEPT !.state = "pending"]]

\* Mutant: a delivery that is being sent when the channel changes goes on.
StopPending(version) ==
  [e \in Event |-> IF delivery[e].state = "pending" /\ delivery[e].version = version
                   THEN Closing(delivery[e], "stopped") ELSE delivery[e]]

\* stopChannel: an open delivery does not follow its channel to a new version.
StopChannel(version) ==
  [e \in Event |-> IF delivery[e].state \in Open /\ delivery[e].version = version
                   THEN Closing(delivery[e], "stopped") ELSE delivery[e]]

ChangeChannel(enabled, deleted) ==
  /\ ~channel.deleted /\ channel.version < MaxVersion /\ (deleted => ~enabled)
  /\ channel' = [version |-> channel.version + 1, enabled |-> enabled, deleted |-> deleted]
  /\ delivery' = StopChannel(channel.version)
  /\ UNCHANGED sender
-----------------------------------------------------------------------------
(* One round of a dispatch thread: claim, send, settle.                    *)

\* Mutant: a delivery whose sender was lost is not taken again.
DuePending == {e \in Event : delivery[e].state = "pending" /\ delivery[e].due}

DueDeliveries ==
  {e \in Event : \/ delivery[e].state = "pending" /\ delivery[e].due
                 \/ delivery[e].state = "sending" /\ (~delivery[e].live \/ delivery[e].late)}

\* Why a due delivery is not tried again.
Verdict(r) == IF r.late THEN "expired"
              ELSE IF r.attempts >= MaxAttempts THEN "failed"
              ELSE IF ~Current(r.version) THEN "stopped"
              ELSE "none"

Retired(events) ==
  [e \in Event |-> IF e \in events THEN Closing(delivery[e], Verdict(delivery[e]))
                   ELSE delivery[e]]

Spent(e) == Verdict(delivery[e]) # "none"

Taken(r) ==
  [r EXCEPT !.state = "sending", !.attempts = @ + 1, !.due = FALSE, !.live = TRUE]

\* Fewer unexpired leases than the deployment allows calls.
SlotFree ==
  Cardinality({e \in Event : delivery[e].state = "sending" /\ delivery[e].live
                             /\ ~delivery[e].late}) < Concurrency

\* The due rows are gone through in the order of their ids: those that are spent
\* are closed, the first that is not is taken if a call is free.  At most as many
\* rows are looked at as calls are allowed.
ClaimDelivery(s) ==
  LET page == {e \in DueDeliveries : Cardinality({x \in DueDeliveries : x < e}) < Concurrency}
      fit == {e \in page : ~Spent(e)} IN
  /\ sender[s] = Free /\ UNCHANGED channel
  /\ \/ \E first \in fit :
          /\ SlotFree /\ \A x \in fit : first <= x
          /\ delivery' = [Retired({e \in page : Spent(e) /\ e < first}) EXCEPT
                            ![first] = Taken(delivery[first])]
          /\ sender' = [sender EXCEPT ![s] =
               [pc |-> "claimed", e |-> first, version |-> delivery[first].version,
                token |-> delivery[first].attempts + 1]]
     \/ LET passed == {e \in page : Spent(e) /\ \A x \in fit : e < x} IN
        /\ fit = {} \/ ~SlotFree
        /\ passed # {} /\ delivery' = Retired(passed) /\ UNCHANGED sender

Answered(s, answer) ==
  sender' = [sender EXCEPT ![s] = [pc |-> "answered", e |-> @.e, version |-> @.version,
                                   token |-> @.token, answer |-> answer]]

\* The unlocked look at the channel and the clock before the call.
CheckChannel(s) ==
  /\ sender[s].pc = "claimed"
  /\ IF Current(sender[s].version) /\ ~delivery[sender[s].e].late
     THEN sender' = [sender EXCEPT ![s].pc = "sending"]
     ELSE Answered(s, "refused")
  /\ UNCHANGED <<channel, delivery>>

\* The call ends; without an answer the webhook may or may not have received it.
Call(s, answer) ==
  /\ sender[s].pc = "sending" /\ Answered(s, answer)
  /\ UNCHANGED <<channel, delivery>>

\* Mutant: any thread that was given the delivery may settle it.
HoldsAny(s) == delivery[sender[s].e].state # "none"

Holds(s) ==
  LET r == delivery[sender[s].e] IN
  r.state = "sending" /\ r.attempts = sender[s].token /\ r.live

\* Only the holder of an unexpired lease settles; a retry waits and is given up
\* when it would come after the deadline.
Settled(s) ==
  LET r == delivery[sender[s].e]  answer == sender[s].answer IN
  IF ~Current(sender[s].version) THEN {Closing(r, "stopped")}
  ELSE IF r.late THEN {Closing(r, "expired")}
  ELSE IF answer = "acknowledged" THEN {Closing(r, "acknowledged")}
  ELSE IF answer # "retryable" \/ r.attempts >= MaxAttempts THEN {Closing(r, "failed")}
  ELSE {Closing(r, "expired"), [r EXCEPT !.state = "pending", !.live = FALSE]}

Complete(s) ==
  /\ sender[s].pc = "answered"
  /\ IF Holds(s) THEN \E r \in Settled(s) : delivery' = [delivery EXCEPT ![sender[s].e] = r]
                 ELSE UNCHANGED delivery
  /\ sender' = [sender EXCEPT ![s] = Free]
  /\ UNCHANGED channel

SenderStops(s) ==
  /\ sender[s] # Free /\ sender' = [sender EXCEPT ![s] = Free]
  /\ UNCHANGED <<channel, delivery>>
-----------------------------------------------------------------------------
(* Clocks *)

BackoffEnds(e) ==
  /\ delivery[e].state = "pending" /\ ~delivery[e].due
  /\ delivery' = [delivery EXCEPT ![e].due = TRUE]
  /\ UNCHANGED <<channel, sender>>

DeliveryLeaseEnds(e) ==
  /\ delivery[e].live /\ delivery' = [delivery EXCEPT ![e].live = FALSE]
  /\ UNCHANGED <<channel, sender>>

DeliveryDeadline(e) ==
  /\ delivery[e].state \in Open /\ ~delivery[e].late
  /\ delivery' = [delivery EXCEPT ![e].late = TRUE]
  /\ UNCHANGED <<channel, sender>>

CallEnds(s) == \E answer \in Answer : Call(s, answer)

SenderStep(s) ==
  ClaimDelivery(s) \/ CheckChannel(s) \/ CallEnds(s) \/ Complete(s) \/ SenderStops(s)

OutboxStep ==
  \/ \E s \in Sender : SenderStep(s)
  \/ \E enabled, deleted \in BOOLEAN : ChangeChannel(enabled, deleted)
  \/ \E e \in Event : BackoffEnds(e) \/ DeliveryLeaseEnds(e) \/ DeliveryDeadline(e)
=============================================================================
