--------------------------- MODULE ScheduleProofs ---------------------------
(***************************************************************************)
(* What holds of a plan and its occurrences for every number of instants,  *)
(* drivers, edits, leases and changes of the control.                      *)
(*                                                                         *)
(* None of the properties is inductive.  That no instant is lost, that     *)
(* runs do not overlap and that a removed occurrence is never planned      *)
(* again all rest on where the cursor stands: what has a row lies behind   *)
(* it, and what is due next lies directly behind it or behind the instant  *)
(* the plan was switched on, or edited while on, at (Cursor).  A rejection *)
(* is recorded in a transaction of its own, so what was decided earlier    *)
(* has to be related to the plan as it is now (Decided).                   *)
(***************************************************************************)
EXTENDS ScheduleOccurrences, TLAPS

\* The cursor never runs ahead of time, and nothing is skipped between what
\* was evaluated, or the instant of switching on or editing, and what is due next.
Cursor ==
  /\ plan.deleted => ~plan.enabled
  /\ plan.through <= clock /\ plan.anchor <= clock
  /\ plan.due # 0 =>
       /\ plan.enabled
       /\ \/ plan.due = plan.through + 1
          \/ plan.due = plan.anchor + 1 /\ plan.through <= plan.anchor

\* Rows lie behind the cursor, and what is undecided is of the current barrier.
Behind ==
  \A o \in Occurrence :
    /\ row[o].state # "none" => o <= plan.through
    /\ row[o].state \in Undecided => plan.enabled /\ row[o].barrier = plan.barrier

\* A job belongs to a submitted row, which stays while the job is open.
Linked ==
  \A o \in Occurrence :
    /\ job[o] # "none" => row[o].state \in {"submitted", "pruned"}
    /\ job[o] = "open" => row[o].state = "submitted"

\* While a job is open, everything planned before it is over.
Serial ==
  \A o, k \in Occurrence :
    job[o] = "open" /\ k < o => row[k].state \notin Undecided /\ job[k] # "open"

\* At most one occurrence waits.
OneWaits ==
  \A o, k \in Occurrence :
    row[o].state = "waiting-overlap" /\ row[k].state = "waiting-overlap" => o = k

\* What the cursor has passed since the plan was switched on or edited is accounted for.
Accounted ==
  \A o \in Occurrence :
    plan.anchor < o /\ o <= plan.through => row[o].state # "none" \/ o \in missed

\* A rejection yet to be recorded was decided on this barrier or an earlier one;
\* that of an admission, while the cursor has not passed it, on what is due now
\* or on an instant before the plan was edited or switched on again.
Decided(f) ==
  f # NoFailure =>
    /\ f.barrier <= plan.barrier
    /\ f.kind = "occurrence" => f.state \in Undecided
    /\ f.kind = "admission" =>
         /\ f.o <= clock
         /\ f.barrier = plan.barrier /\ plan.through < f.o => f.o = plan.due \/ f.o <= plan.anchor

Failures == \A d \in Driver : Decided(driver[d].failure)

Hands == [phase : {"scan", "submit"}, claims : SUBSET Claim, failure : Failure \cup {NoFailure}]

\* The inductive invariant.
ScheduleInv ==
  /\ ScheduleTypeOK /\ Cursor /\ Behind /\ Linked /\ Serial /\ OneWaits /\ Accounted /\ Failures
-----------------------------------------------------------------------------
(***************************************************************************)
(* Types                                                                   *)
(***************************************************************************)

\* Ending a row gives a row.
LEMMA EndedType ==
  ASSUME NEW r \in Row, NEW s \in Dropped \cup {"submitted"}
  PROVE  /\ Ended(r, s) \in Row /\ Ended(r, s).state = s
         /\ [Ended(r, s) EXCEPT !.observed = FALSE] \in Row
         /\ [Ended(r, s) EXCEPT !.observed = FALSE].state = s
  BY DEF Ended, Row, Dropped, Undecided

\* Withdrawing what an edit has invalidated ends undecided rows and nothing else.
LEMMA CancelType ==
  ASSUME NEW rows \in [Occurrence -> Row], NEW p
  PROVE  /\ CancelInvalidated(rows, p) \in [Occurrence -> Row]
         /\ \A o \in Occurrence :
              LET r == CancelInvalidated(rows, p)[o] IN
              \/ /\ r = rows[o]
                 /\ rows[o].state \in Undecided => p.enabled /\ rows[o].barrier = p.barrier
              \/ rows[o].state \in Undecided /\ r.state = "skipped"
<1>1. \A o \in Occurrence : /\ Ended(rows[o], "skipped") \in Row
                            /\ Ended(rows[o], "skipped").state = "skipped"
  BY EndedType DEF Dropped
<1> QED BY <1>1 DEF CancelInvalidated

\* What a rejection remembers of an undecided row fits its types and its plan.
LEMMA RejectionType ==
  ASSUME ScheduleInv, NEW o \in Occurrence, row[o].state \in Undecided
  PROVE  /\ Rejection(o) \in Failure /\ [Rejection(o) EXCEPT !.kind = "submission"] \in Failure
         /\ Decided(Rejection(o)) /\ Decided([Rejection(o) EXCEPT !.kind = "submission"])
<1>1. /\ row[o] \in Row /\ control.generation \in Nat /\ row[o].barrier = plan.barrier
      /\ plan.barrier \in Nat
  BY ScheduleAssumption DEF ScheduleInv, ScheduleTypeOK, Behind
<1>2. row[o].lease \in Nat /\ row[o].barrier \in Nat
  BY <1>1 DEF Row, Undecided, Dropped
<1> QED BY <1>1, <1>2 DEF Rejection, Failure, Decided
-----------------------------------------------------------------------------
(***************************************************************************)
(* Steps that leave the plan alone                                         *)
(***************************************************************************)

\* A driver may change what it holds as long as its rejection is sound.
LEMMA OnlyDriver ==
  ASSUME ScheduleInv, NEW d \in Driver, NEW h \in Hands, Decided(h.failure),
         driver' = [driver EXCEPT ![d] = h],
         UNCHANGED <<control, plan, row, missed, job, allowed, clock>>
  PROVE  ScheduleInv'
<1>1. ScheduleTypeOK'
  BY DEF ScheduleInv, ScheduleTypeOK, Hands
<1>2. Failures'
  BY DEF ScheduleInv, ScheduleTypeOK, Failures, Decided
<1> QED
  BY <1>1, <1>2 DEF ScheduleInv, Cursor, Behind, Linked, Serial, OneWaits, Accounted

\* A row that exists may change its lease, or be dropped while it is undecided.
LEMMA OneRow ==
  ASSUME ScheduleInv, NEW o \in Occurrence, NEW r \in Row,
         row[o].state # "none", row' = [row EXCEPT ![o] = r],
         \/ r.state = row[o].state /\ r.barrier = row[o].barrier
         \/ row[o].state \in Undecided /\ r.state \in Dropped,
         driver' \in [Driver -> Hands], Failures',
         UNCHANGED <<control, plan, missed, job, allowed, clock>>
  PROVE  ScheduleInv'
<1>1. ScheduleTypeOK'
  BY DEF ScheduleInv, ScheduleTypeOK, Hands
<1>2. /\ row \in [Occurrence -> Row] /\ row'[o] = r
      /\ \A k \in Occurrence : k # o => row'[k] = row[k]
      /\ r.state # "none"
  BY DEF ScheduleInv, ScheduleTypeOK, Dropped
<1>3. Behind' /\ Accounted'
  BY <1>2 DEF ScheduleInv, Behind, Accounted, Undecided, Dropped
<1>4. Linked' /\ Serial' /\ OneWaits'
  BY <1>2 DEF ScheduleInv, Linked, Serial, OneWaits, Undecided, Dropped
<1> QED
  BY <1>1, <1>3, <1>4 DEF ScheduleInv, Cursor

\* Without a change of plan and clock, the rejections drivers have yet to record
\* stay sound.
LEMMA FailuresStay ==
  ASSUME Failures, UNCHANGED <<plan, clock, driver>>
  PROVE  Failures'
  BY DEF Failures, Decided

\* What happens outside, as far as it leaves the plan alone.
LEMMA OutsideStep ==
  ASSUME ScheduleInv,
         \/ RightsChange \/ InstantPasses
         \/ \E mode \in {"embedded", "disabled"} : ChangeControl(mode)
         \/ \E o \in Occurrence : JobReleased(o)
  PROVE  ScheduleInv'
<1>1. CASE RightsChange
  <2>1. ScheduleTypeOK' /\ Failures'
    BY <1>1, FailuresStay DEF RightsChange, ScheduleInv, ScheduleTypeOK
  <2> QED
    BY <1>1, <2>1 DEF RightsChange, ScheduleInv, Cursor, Behind, Linked, Serial, OneWaits, Accounted
<1>2. CASE InstantPasses
  <2>1. ScheduleTypeOK'
    BY <1>2, ScheduleAssumption DEF InstantPasses, ScheduleInv, ScheduleTypeOK
  <2>2. clock \in Nat /\ clock' = clock + 1 /\ plan.through \in Nat /\ plan.anchor \in Nat
    BY <1>2, ScheduleAssumption DEF InstantPasses, ScheduleInv, ScheduleTypeOK
  <2>3. Cursor'
    BY <1>2, <2>2 DEF InstantPasses, ScheduleInv, Cursor
  <2>4. Failures'
    <3> SUFFICES ASSUME NEW d \in Driver PROVE Decided(driver[d].failure)'
      BY <1>2 DEF InstantPasses, Failures
    <3>1. driver[d].failure \in Failure \cup {NoFailure} /\ Decided(driver[d].failure)
      BY DEF ScheduleInv, ScheduleTypeOK, Failures
    <3>2. driver[d].failure # NoFailure => driver[d].failure.o \in Nat
      BY <3>1, ScheduleAssumption DEF Failure, Occurrence
    <3> QED
      BY <1>2, <2>2, <3>1, <3>2 DEF InstantPasses, Decided
  <2> QED
    BY <1>2, <2>1, <2>3, <2>4
    DEF InstantPasses, ScheduleInv, Behind, Linked, Serial, OneWaits, Accounted
<1>3. ASSUME NEW mode \in {"embedded", "disabled"}, ChangeControl(mode) PROVE ScheduleInv'
  <2>1. ScheduleTypeOK' /\ Failures'
    BY <1>3, FailuresStay, ScheduleAssumption DEF ChangeControl, ScheduleInv, ScheduleTypeOK
  <2> QED
    BY <1>3, <2>1 DEF ChangeControl, ScheduleInv, Cursor, Behind, Linked, Serial, OneWaits, Accounted
<1>4. ASSUME NEW o \in Occurrence, JobReleased(o) PROVE ScheduleInv'
  <2>1. ScheduleTypeOK' /\ Failures'
    BY <1>4, FailuresStay DEF JobReleased, ScheduleInv, ScheduleTypeOK
  <2>2. job \in [Occurrence -> {"none", "open", "released"}]
    BY DEF ScheduleInv, ScheduleTypeOK
  <2>3. Linked' /\ Serial'
    BY <1>4, <2>2 DEF JobReleased, ScheduleInv, Linked, Serial
  <2> QED
    BY <1>4, <2>1, <2>3 DEF JobReleased, ScheduleInv, Cursor, Behind, OneWaits, Accounted
<1> QED BY <1>1, <1>2, <1>3, <1>4

\* What a driver gains, loses, refuses or forgets without writing a row.
LEMMA DriverAloneStep ==
  ASSUME ScheduleInv, NEW d \in Driver,
         \/ \E o \in Occurrence : TakeDenied(d, o)
         \/ EndScan(d) \/ AdmissionFails(d, "admission") \/ AdmissionFails(d, "limit")
         \/ \E c \in driver[d].claims : SubmitNothing(d, c) \/ SubmitDenied(d, c) \/ SubmitRefused(d, c)
         \/ RejectionOvertaken(d) \/ DriverStops(d)
  PROVE  ScheduleInv'
<1>1. /\ driver[d] \in Hands /\ Decided(driver[d].failure)
      /\ driver[d].claims \subseteq Claim /\ driver[d].failure \in Failure \cup {NoFailure}
  BY DEF ScheduleInv, ScheduleTypeOK, Failures, Hands
<1>2. NoFailure \in Failure \cup {NoFailure} /\ Decided(NoFailure)
  BY DEF Decided
<1>3. ASSUME NEW o \in Occurrence, TakeDenied(d, o) PROVE ScheduleInv'
  <2> DEFINE h == [driver[d] EXCEPT !.failure = Rejection(o)]
  <2>1. Rejection(o) \in Failure /\ Decided(Rejection(o))
    BY <1>3, RejectionType DEF TakeDenied, Claimable
  <2>2. h \in Hands /\ h.failure = Rejection(o)
    BY <1>1, <2>1 DEF Hands
  <2>3. driver' = [driver EXCEPT ![d] = h]
    BY <1>3 DEF TakeDenied
  <2> QED BY <1>3, <2>1, <2>2, <2>3, OnlyDriver DEF TakeDenied
<1>4. ASSUME NEW claims \in SUBSET Claim, NEW failure \in Failure \cup {NoFailure},
             Decided(failure), ScanEnds(d, claims, failure),
             UNCHANGED <<control, plan, row, missed, job, allowed, clock>>
      PROVE  ScheduleInv'
  <2> DEFINE h == [phase |-> IF claims = {} /\ failure = NoFailure THEN "scan" ELSE "submit",
                   claims |-> claims, failure |-> failure]
  <2>1. h \in Hands /\ h.failure = failure
    BY DEF Hands
  <2>2. driver' = [driver EXCEPT ![d] = h]
    BY <1>4 DEF ScanEnds
  <2> QED BY <1>4, <2>1, <2>2, OnlyDriver
<1>5. CASE EndScan(d)
  BY <1>1, <1>2, <1>4, <1>5 DEF EndScan
<1>6. ASSUME NEW kind \in {"admission", "limit"}, AdmissionFails(d, kind) PROVE ScheduleInv'
  <2> DEFINE f == [kind |-> kind, o |-> plan.due, lease |-> 0, state |-> "none",
                   barrier |-> plan.barrier, generation |-> control.generation]
  <2>1. /\ plan.due \in 0..MaxOccurrence /\ plan.due \in 1..clock /\ clock \in Nat
        /\ plan.barrier \in Nat /\ control.generation \in Nat
    BY <1>6, ScheduleAssumption DEF AdmissionFails, Due, ScheduleInv, ScheduleTypeOK
  <2>2. f \in Failure
    BY <2>1, ScheduleAssumption DEF Failure, Occurrence
  <2>3. Decided(f)
    BY <2>1 DEF Decided
  <2> QED BY <1>1, <1>4, <1>6, <2>2, <2>3 DEF AdmissionFails
<1>7. ASSUME NEW c \in driver[d].claims, NEW failure \in Failure \cup {NoFailure},
             Decided(failure), Released(d, c, failure),
             UNCHANGED <<control, plan, row, missed, job, allowed, clock>>
      PROVE  ScheduleInv'
  <2> DEFINE rest == driver[d].claims \ {c}
             h == [phase |-> IF rest = {} /\ failure = NoFailure THEN "scan" ELSE "submit",
                   claims |-> rest, failure |-> failure]
  <2>1. h \in Hands /\ h.failure = failure
    BY <1>1 DEF Hands
  <2>2. driver' = [driver EXCEPT ![d] = h]
    BY <1>7 DEF Released
  <2> QED BY <1>7, <2>1, <2>2, OnlyDriver
<1>8. ASSUME NEW c \in driver[d].claims,
             SubmitNothing(d, c) \/ SubmitDenied(d, c) \/ SubmitRefused(d, c)
      PROVE  ScheduleInv'
  <2>1. c.o \in Occurrence
    BY <1>1 DEF Claim
  <2>2. CASE SubmitNothing(d, c)
    BY <1>2, <1>7, <2>2 DEF SubmitNothing
  <2>3. CASE SubmitDenied(d, c)
    BY <1>7, <2>1, <2>3, RejectionType DEF SubmitDenied, Submittable, Fence
  <2>4. CASE SubmitRefused(d, c)
    BY <1>7, <2>1, <2>4, RejectionType DEF SubmitRefused, Submittable, Fence
  <2> QED BY <1>8, <2>2, <2>3, <2>4
<1>9. ASSUME Forget(d), UNCHANGED <<control, plan, row, missed, job, allowed, clock>>
      PROVE  ScheduleInv'
  <2> DEFINE h == [driver[d] EXCEPT !.failure = NoFailure,
                     !.phase = IF driver[d].claims = {} THEN "scan" ELSE @]
  <2>1. h \in Hands /\ h.failure = NoFailure
    BY <1>1 DEF Hands
  <2>2. driver' = [driver EXCEPT ![d] = h]
    BY <1>9 DEF Forget
  <2> QED BY <1>2, <1>9, <2>1, <2>2, OnlyDriver
<1>10. CASE RejectionOvertaken(d)
  BY <1>9, <1>10 DEF RejectionOvertaken
<1>11. CASE DriverStops(d)
  <2>1. Idle \in Hands /\ Idle.failure = NoFailure
    BY DEF Idle, Hands
  <2> QED BY <1>2, <1>11, <2>1, OnlyDriver DEF DriverStops
<1> QED BY <1>3, <1>5, <1>6, <1>8, <1>10, <1>11

\* What a lease, a deadline, the release of a job or a driver does to one row.
LEMMA RowStep ==
  ASSUME ScheduleInv,
         \/ \E o \in Occurrence : LeaseEnds(o) \/ DeadlinePasses(o) \/ ObserveReleased(o)
         \/ \E d \in Driver : \/ \E o \in Occurrence : Expire(d, o) \/ Take(d, o)
                            \/ RecordSubmissionFailure(d)
  PROVE  ScheduleInv'
<1>1. /\ row \in [Occurrence -> Row] /\ driver \in [Driver -> Hands]
  BY DEF ScheduleInv, ScheduleTypeOK, Hands
<1>2. UNCHANGED <<plan, clock, driver>> => driver' \in [Driver -> Hands] /\ Failures'
  BY <1>1, FailuresStay DEF ScheduleInv
<1>3. \A o \in Occurrence : row[o] \in Row
  BY <1>1
<1>4. ASSUME NEW o \in Occurrence, LeaseEnds(o) PROVE ScheduleInv'
  <2> DEFINE r == [row[o] EXCEPT !.live = FALSE]
  <2>1. r \in Row /\ r.state = row[o].state /\ r.barrier = row[o].barrier
    BY <1>3 DEF Row
  <2>2. CASE row[o].state # "none"
    BY <1>2, <1>4, <2>1, <2>2, OneRow DEF LeaseEnds
  <2>3. CASE row[o].state = "none"
    <3>0. row' = [row EXCEPT ![o] = r] /\ UNCHANGED <<control, plan, missed, job, allowed, clock, driver>>
      BY <1>4 DEF LeaseEnds
    <3>1. /\ ScheduleTypeOK'
          /\ \A k \in Occurrence : row'[k].state = row[k].state /\ row'[k].barrier = row[k].barrier
      <4> HIDE DEF r
      <4> QED BY <1>1, <2>1, <3>0 DEF ScheduleInv, ScheduleTypeOK
    <3> QED
      BY <1>2, <1>4, <3>1
      DEF LeaseEnds, ScheduleInv, Cursor, Behind, Linked, Serial, OneWaits, Accounted
  <2> QED BY <2>2, <2>3
<1>5. ASSUME NEW o \in Occurrence, DeadlinePasses(o) PROVE ScheduleInv'
  <2> DEFINE r == [row[o] EXCEPT !.late = TRUE]
  <2>1. r \in Row /\ r.state = row[o].state /\ r.barrier = row[o].barrier
    BY <1>3 DEF Row
  <2> QED BY <1>2, <1>5, <2>1, OneRow DEF DeadlinePasses, Undecided
<1>6. ASSUME NEW o \in Occurrence, ObserveReleased(o) PROVE ScheduleInv'
  <2> DEFINE r == [row[o] EXCEPT !.observed = TRUE]
  <2>1. r \in Row /\ r.state = row[o].state /\ r.barrier = row[o].barrier
    BY <1>3 DEF Row
  <2> QED BY <1>2, <1>6, <2>1, OneRow DEF ObserveReleased
<1>7. ASSUME NEW d \in Driver, NEW o \in Occurrence, Expire(d, o) PROVE ScheduleInv'
  <2>1. Ended(row[o], "expired") \in Row /\ Ended(row[o], "expired").state = "expired"
    BY <1>3, EndedType DEF Dropped
  <2> QED BY <1>2, <1>7, <2>1, OneRow DEF Expire, Claimable, Undecided, Dropped
<1>8. ASSUME NEW d \in Driver, NEW o \in Occurrence, Take(d, o) PROVE ScheduleInv'
  <2> DEFINE r == [row[o] EXCEPT !.lease = @ + 1, !.live = TRUE, !.generation = control.generation]
             c == [o |-> o, lease |-> row[o].lease + 1]
  <2>0. row[o].lease \in Nat /\ control.generation \in Nat
    BY <1>3, ScheduleAssumption DEF Row, ScheduleInv, ScheduleTypeOK
  <2>1. r \in Row /\ r.state = row[o].state /\ r.barrier = row[o].barrier /\ c \in Claim
    <3>1. row[o].lease + 1 \in Nat
      BY <2>0
    <3>2. r \in Row
      BY <1>3, <2>0, <3>1 DEF Row
    <3>3. r.state = row[o].state /\ r.barrier = row[o].barrier
      BY <1>3 DEF Row
    <3>4. c \in Claim
      BY <3>1 DEF Claim
    <3> QED BY <3>2, <3>3, <3>4
  <2>2. driver' = [driver EXCEPT ![d].claims = @ \cup {c}]
    BY <1>8 DEF Take, Holding
  <2>3. driver' \in [Driver -> Hands] /\ driver'[d].failure = driver[d].failure
    BY <1>1, <2>1, <2>2 DEF Hands
  <2>4. Failures'
    BY <1>1, <1>8, <2>2, <2>3 DEF Take, ScheduleInv, Failures, Decided
  <2>5. row' = [row EXCEPT ![o] = r]
    BY <1>8 DEF Take
  <2> QED BY <1>8, <2>1, <2>3, <2>4, <2>5, OneRow DEF Take, Claimable, Undecided
<1>9. ASSUME NEW d \in Driver, RecordSubmissionFailure(d) PROVE ScheduleInv'
  <2> DEFINE f == driver[d].failure
             h == [driver[d] EXCEPT !.failure = NoFailure,
                     !.phase = IF driver[d].claims = {} THEN "scan" ELSE @]
  <2>1. driver[d] \in Hands /\ h \in Hands /\ h.failure = NoFailure
    BY <1>1 DEF Hands
  <2>0. f \in Failure \cup {NoFailure} /\ f.kind = "submission"
    BY <1>9 DEF RecordSubmissionFailure, ScheduleInv, ScheduleTypeOK
  <2>2. f.o \in Occurrence
    BY <2>0 DEF Failure, NoFailure
  <2>3. driver' = [driver EXCEPT ![d] = h]
    BY <1>9 DEF RecordSubmissionFailure, Forget
  <2>4. driver' \in [Driver -> Hands] /\ Failures'
    BY <1>1, <1>9, <2>1, <2>3 DEF RecordSubmissionFailure, ScheduleInv, Failures, Decided
  <2>5. Ended(row[f.o], "rejected") \in Row /\ Ended(row[f.o], "rejected").state = "rejected"
    BY <1>3, <2>2, EndedType DEF Dropped
  <2>6. row[f.o].state \in Undecided /\ row' = [row EXCEPT ![f.o] = Ended(@, "rejected")]
    BY <1>9 DEF RecordSubmissionFailure, Fence
  <2> QED
    BY <1>9, <2>2, <2>4, <2>5, <2>6, OneRow DEF RecordSubmissionFailure, Undecided, Dropped
<1> QED BY <1>4, <1>5, <1>6, <1>7, <1>8, <1>9
-----------------------------------------------------------------------------
(***************************************************************************)
(* Steps that change the plan                                              *)
(***************************************************************************)

\* After an edit that withdraws what it has invalidated, what a row says still
\* holds if the cursor stays where it is.
LEMMA Withdrawn ==
  ASSUME ScheduleInv, NEW rows \in [Occurrence -> Row],
         \A o \in Occurrence :
           rows[o] # row[o] => /\ rows[o].state = "rejected"
                               /\ row[o].state \in {"none"} \cup Undecided,
         row' = CancelInvalidated(rows, plan'), UNCHANGED job
  PROVE  /\ row' \in [Occurrence -> Row] /\ Linked' /\ Serial' /\ OneWaits'
         /\ \A o \in Occurrence :
              /\ row'[o].state \in Undecided => plan'.enabled /\ row'[o].barrier = plan'.barrier
              /\ row'[o].state # "none" => rows[o].state # "none"
              /\ rows[o].state # "none" => row'[o].state # "none"
<1>1. /\ row' \in [Occurrence -> Row]
      /\ \A o \in Occurrence :
           \/ /\ row'[o] = rows[o]
              /\ rows[o].state \in Undecided => plan'.enabled /\ rows[o].barrier = plan'.barrier
           \/ rows[o].state \in Undecided /\ row'[o].state = "skipped"
  BY CancelType
<1>2. Linked' /\ Serial' /\ OneWaits'
  BY <1>1 DEF ScheduleInv, Linked, Serial, OneWaits, Undecided
<1> QED BY <1>1, <1>2 DEF Undecided

\* An edit moves the instant of switching on to now, or raises the barrier.
LEMMA UpdateStep ==
  ASSUME ScheduleInv, NEW revised \in BOOLEAN, NEW wish \in {"keep", "on", "off"},
         Update(revised, wish)
  PROVE  ScheduleInv'
<1> DEFINE on == IF wish = "keep" THEN plan.enabled ELSE wish = "on"
<1>1. /\ plan.enabled \in BOOLEAN /\ plan.deleted \in BOOLEAN /\ plan.barrier \in Nat
      /\ plan.due \in Nat /\ plan.through \in Nat /\ plan.anchor \in Nat
      /\ clock \in Nat /\ clock <= MaxOccurrence /\ MaxOccurrence \in Nat
  BY ScheduleAssumption DEF ScheduleInv, ScheduleTypeOK
<1>2. /\ plan'.enabled <=> on
      /\ ~plan'.deleted
      /\ plan'.barrier = (IF revised \/ wish = "off" THEN plan.barrier + 1 ELSE plan.barrier)
      /\ plan'.anchor = (IF on THEN clock ELSE plan.anchor)
      /\ plan'.due = (IF on THEN NextAfter(clock) ELSE 0)
      /\ plan'.through = plan.through
  BY DEF Update, ScheduleInv, ScheduleTypeOK
<1>3. /\ NextAfter(clock) \in 0..MaxOccurrence
      /\ NextAfter(clock) # 0 => NextAfter(clock) = clock + 1
  BY <1>1 DEF NextAfter
<1>0. /\ on \in BOOLEAN
      /\ row' = CancelInvalidated(row, plan')
      /\ UNCHANGED <<control, missed, job, allowed, clock, driver>>
  BY <1>1 DEF Update
<1> HIDE DEF on
<1>4. Cursor'
  <2>1. clock' = clock /\ plan.through <= clock /\ plan.anchor <= clock
    BY <1>0 DEF ScheduleInv, Cursor
  <2>2. CASE on
    <3>1. /\ plan'.enabled /\ ~plan'.deleted /\ plan'.anchor = clock
          /\ plan'.due = NextAfter(clock) /\ plan'.through = plan.through
      BY <1>2, <2>2
    <3>2. plan'.due # 0 => plan'.due = plan'.anchor + 1
      BY <1>3, <3>1
    <3> QED BY <1>1, <2>1, <3>1, <3>2 DEF Cursor
  <2>3. CASE ~on
    <3>1. /\ ~plan'.deleted /\ plan'.anchor = plan.anchor
          /\ plan'.due = 0 /\ plan'.through = plan.through
      BY <1>2, <2>3
    <3> QED BY <2>1, <3>1 DEF Cursor
  <2> QED BY <2>2, <2>3
<1>5. /\ row' \in [Occurrence -> Row] /\ Linked' /\ Serial' /\ OneWaits'
      /\ \A o \in Occurrence :
           /\ row'[o].state \in Undecided => plan'.enabled /\ row'[o].barrier = plan'.barrier
           /\ row'[o].state # "none" => row[o].state # "none"
           /\ row[o].state # "none" => row'[o].state # "none"
  <2>1. row \in [Occurrence -> Row]
    BY DEF ScheduleInv, ScheduleTypeOK
  <2> QED BY <1>0, <2>1, Withdrawn
<1>6. Behind' /\ Accounted'
  BY <1>0, <1>1, <1>2, <1>5 DEF ScheduleInv, Behind, Accounted, Cursor, Occurrence
<1>7. ScheduleTypeOK'
  <2>1. plan' \in [enabled : BOOLEAN, deleted : BOOLEAN, barrier : Nat, due : 0..MaxOccurrence,
                   through : 0..MaxOccurrence, anchor : 0..MaxOccurrence]
    <3>1. plan' = [enabled |-> on, deleted |-> plan.deleted,
                   barrier |-> IF revised \/ wish = "off" THEN plan.barrier + 1 ELSE plan.barrier,
                   due |-> IF on THEN NextAfter(clock) ELSE 0, through |-> plan.through,
                   anchor |-> IF on THEN clock ELSE plan.anchor]
      BY DEF on, Update, ScheduleInv, ScheduleTypeOK
    <3>2. /\ (IF revised \/ wish = "off" THEN plan.barrier + 1 ELSE plan.barrier) \in Nat
          /\ (IF on THEN NextAfter(clock) ELSE 0) \in 0..MaxOccurrence
          /\ (IF on THEN clock ELSE plan.anchor) \in 0..MaxOccurrence
          /\ plan.through \in 0..MaxOccurrence
      BY <1>1, <1>3 DEF ScheduleInv, ScheduleTypeOK
    <3> QED BY <1>0, <1>1, <3>1, <3>2
  <2> QED BY <1>0, <1>5, <2>1 DEF ScheduleInv, ScheduleTypeOK
<1>8. Failures'
  <2> SUFFICES ASSUME NEW d \in Driver PROVE Decided(driver[d].failure)'
    BY DEF Update, Failures
  <2>1. driver[d].failure \in Failure \cup {NoFailure} /\ Decided(driver[d].failure)
    BY DEF ScheduleInv, ScheduleTypeOK, Failures
  <2>2. driver[d].failure # NoFailure =>
          driver[d].failure.o \in Nat /\ driver[d].failure.barrier \in Nat
    BY <2>1, ScheduleAssumption DEF Failure, Occurrence
  <2> QED BY <1>1, <1>2, <2>1, <2>2 DEF Update, Decided
<1> QED BY <1>4, <1>5, <1>6, <1>7, <1>8 DEF ScheduleInv

\* A driver's part of a step: its claims stay typed, its rejection stays or goes.
LEMMA HandsStay ==
  ASSUME ScheduleInv, NEW d \in Driver, NEW h \in Hands,
         h.failure = driver[d].failure \/ h.failure = NoFailure,
         driver' = [driver EXCEPT ![d] = h]
  PROVE  /\ driver' \in [Driver -> Hands]
         /\ \A e \in Driver : \/ driver'[e].failure = driver[e].failure
                             \/ driver'[e].failure = NoFailure
  BY DEF ScheduleInv, ScheduleTypeOK, Hands

\* Pausing or deleting the plan raises the barrier, so that no earlier decision
\* can be recorded any more; the cursor may only move over what is accounted for.
LEMMA PausedStep ==
  ASSUME ScheduleInv, NEW rows \in [Occurrence -> Row], NEW through \in 0..clock, NEW deleted \in BOOLEAN,
         \A o \in Occurrence :
           rows[o] # row[o] => /\ rows[o].state = "rejected"
                               /\ row[o].state \in {"none"} \cup Undecided,
         plan.through <= through,
         \A o \in Occurrence : rows[o].state # "none" => o <= through,
         \A o \in Occurrence : plan.anchor < o /\ o <= through => rows[o].state # "none" \/ o \in missed,
         plan' = [enabled |-> FALSE, deleted |-> deleted, barrier |-> plan.barrier + 1,
                  due |-> 0, through |-> through, anchor |-> plan.anchor],
         row' = CancelInvalidated(rows, plan'),
         driver' \in [Driver -> Hands],
         \A d \in Driver : driver'[d].failure = driver[d].failure \/ driver'[d].failure = NoFailure,
         UNCHANGED <<control, missed, job, allowed, clock>>
  PROVE  ScheduleInv'
<1>1. /\ plan.barrier \in Nat /\ clock \in 0..MaxOccurrence /\ MaxOccurrence \in Nat
      /\ plan.anchor \in 0..MaxOccurrence /\ plan.anchor <= clock
  BY ScheduleAssumption DEF ScheduleInv, ScheduleTypeOK, Cursor
<1>2. /\ plan'.enabled = FALSE /\ plan'.deleted = deleted /\ plan'.barrier = plan.barrier + 1
      /\ plan'.due = 0 /\ plan'.through = through /\ plan'.anchor = plan.anchor
  OBVIOUS
<1>3. /\ row' \in [Occurrence -> Row] /\ Linked' /\ Serial' /\ OneWaits'
      /\ \A o \in Occurrence :
           /\ row'[o].state \in Undecided => plan'.enabled /\ row'[o].barrier = plan'.barrier
           /\ row'[o].state # "none" => rows[o].state # "none"
           /\ rows[o].state # "none" => row'[o].state # "none"
  BY Withdrawn
<1>4. Behind' /\ Accounted' /\ Cursor'
  <2>1. Behind'
    BY <1>2, <1>3 DEF Behind
  <2>2. Accounted'
    BY <1>2, <1>3 DEF Accounted
  <2>3. Cursor'
    BY <1>1, <1>2 DEF Cursor
  <2> QED BY <2>1, <2>2, <2>3
<1>5. ScheduleTypeOK'
  <2>1. through \in 0..MaxOccurrence /\ plan.barrier + 1 \in Nat
    BY <1>1
  <2>2. plan' \in [enabled : BOOLEAN, deleted : BOOLEAN, barrier : Nat, due : 0..MaxOccurrence,
                   through : 0..MaxOccurrence, anchor : 0..MaxOccurrence]
    BY <1>1, <2>1
  <2> QED BY <1>3, <2>2 DEF ScheduleInv, ScheduleTypeOK, Hands
<1>6. Failures'
  <2> SUFFICES ASSUME NEW d \in Driver, driver'[d].failure = driver[d].failure
               PROVE  Decided(driver[d].failure)'
    BY DEF Failures, Decided
  <2> DEFINE f == driver[d].failure
  <2>1. f \in Failure \cup {NoFailure} /\ Decided(f)
    BY DEF ScheduleInv, ScheduleTypeOK, Failures
  <2>2. f # NoFailure => f.barrier \in Nat /\ f.barrier <= plan.barrier
    BY <2>1 DEF Failure, Decided
  <2>3. f # NoFailure => f.barrier <= plan'.barrier /\ f.barrier # plan'.barrier
    BY <1>1, <1>2, <2>2
  <2> QED BY <2>1, <2>3 DEF Decided
<1> QED BY <1>3, <1>4, <1>5, <1>6 DEF ScheduleInv

\* Deletion pauses for good.
LEMMA DeleteStep ==
  ASSUME ScheduleInv, Delete
  PROVE  ScheduleInv'
<1>1. /\ row \in [Occurrence -> Row] /\ driver \in [Driver -> Hands]
      /\ plan.through \in 0..clock
  BY ScheduleAssumption DEF ScheduleInv, ScheduleTypeOK, Hands, Cursor
<1>2. /\ plan' = [enabled |-> FALSE, deleted |-> TRUE, barrier |-> plan.barrier + 1,
                 due |-> 0, through |-> plan.through, anchor |-> plan.anchor]
      /\ row' = CancelInvalidated(row, plan')
      /\ UNCHANGED <<control, missed, job, allowed, clock, driver>>
  BY DEF Delete, Paused, ScheduleInv, ScheduleTypeOK
<1>3. /\ \A o \in Occurrence : row[o].state # "none" => o <= plan.through
      /\ \A o \in Occurrence :
           plan.anchor < o /\ o <= plan.through => row[o].state # "none" \/ o \in missed
  BY DEF ScheduleInv, Behind, Accounted
<1>4. plan.through <= plan.through
  BY <1>1
<1> QED BY <1>1, <1>2, <1>3, <1>4, PausedStep

\* A recorded rejection pauses the plan; that of an admission also moves the
\* cursor, but by no more than the instant that was refused.
LEMMA RecordRejectionStep ==
  ASSUME ScheduleInv, NEW d \in Driver, RecordRejection(d)
  PROVE  /\ ScheduleInv'
         /\ \A o \in Occurrence : row[o].state \notin {"none"} \cup Undecided => row'[o] = row[o]
<1> DEFINE f == driver[d].failure
           rows == IF f.kind = "limit" THEN row ELSE [row EXCEPT ![f.o] = Ended(@, "rejected")]
           through == IF f.kind = "admission" THEN f.o ELSE plan.through
           h == [driver[d] EXCEPT !.failure = NoFailure,
                   !.phase = IF driver[d].claims = {} THEN "scan" ELSE @]
<1>1. /\ row \in [Occurrence -> Row] /\ driver \in [Driver -> Hands]
      /\ plan.through \in 0..clock /\ clock \in 0..MaxOccurrence /\ MaxOccurrence \in Nat
      /\ plan.anchor \in 0..MaxOccurrence /\ plan.due \in 0..MaxOccurrence
  BY ScheduleAssumption DEF ScheduleInv, ScheduleTypeOK, Hands, Cursor
<1>2. /\ f.kind \in {"occurrence", "admission", "limit"} /\ StillStands(f)
      /\ UNCHANGED <<control, missed, job, allowed, clock>>
  BY DEF RecordRejection
<1>3. f \in Failure /\ f # NoFailure /\ Decided(f) /\ f.o \in Occurrence
  <2>1. f \in Failure \cup {NoFailure} /\ Decided(f)
    BY DEF ScheduleInv, ScheduleTypeOK, Failures
  <2>2. f # NoFailure
    BY <1>2 DEF NoFailure
  <2> QED BY <2>1, <2>2 DEF Failure
<1>4. /\ plan' = [enabled |-> FALSE, deleted |-> plan.deleted, barrier |-> plan.barrier + 1,
                 due |-> 0, through |-> through, anchor |-> plan.anchor]
      /\ row' = CancelInvalidated(rows, plan')
  BY DEF RecordRejection, Paused, ScheduleInv, ScheduleTypeOK
<1>5. /\ driver' \in [Driver -> Hands]
      /\ \A e \in Driver : driver'[e].failure = driver[e].failure \/ driver'[e].failure = NoFailure
  <2>1. h \in Hands /\ h.failure = NoFailure
    BY <1>1 DEF Hands
  <2>2. driver' = [driver EXCEPT ![d] = h]
    BY DEF RecordRejection, Forget
  <2> QED BY <2>1, <2>2, HandsStay
<1>6. /\ Ended(row[f.o], "rejected") \in Row /\ Ended(row[f.o], "rejected").state = "rejected"
      /\ rows \in [Occurrence -> Row]
      /\ \A o \in Occurrence : rows[o] # row[o] => o = f.o /\ f.kind # "limit"
      /\ f.kind # "limit" => rows[f.o] = Ended(row[f.o], "rejected")
  BY <1>1, <1>3, EndedType DEF Dropped
<1>7. plan.through <= through /\ through \in 0..clock
  <2>1. CASE f.kind = "admission"
    BY <1>1, <1>2, <1>3, <2>1 DEF Decided, StillStands, Occurrence
  <2>2. CASE f.kind # "admission"
    BY <1>1, <2>2
  <2> QED BY <2>1, <2>2
<1>8. f.kind # "limit" => row[f.o].state \in {"none"} \cup Undecided
  <2>1. CASE f.kind = "occurrence"
    BY <1>2, <1>3, <2>1 DEF Decided, StillStands
  <2>2. CASE f.kind = "admission"
    BY <1>1, <1>2, <1>3, <2>2 DEF StillStands, ScheduleInv, Behind, Occurrence
  <2> QED BY <1>2, <2>1, <2>2
<1>9. /\ \A o \in Occurrence : rows[o] # row[o] => /\ rows[o].state = "rejected"
                                                   /\ row[o].state \in {"none"} \cup Undecided
      /\ \A o \in Occurrence : row[o].state # "none" => rows[o].state # "none"
  BY <1>6, <1>8
<1>10. ASSUME NEW o \in Occurrence, rows[o].state # "none" PROVE o <= through
  <2>1. CASE row[o].state # "none"
    BY <1>1, <1>7, <2>1 DEF ScheduleInv, Behind, Occurrence
  <2>2. CASE row[o].state = "none"
    <3>1. o = f.o /\ f.kind # "limit" /\ f.kind # "occurrence"
      BY <1>2, <1>3, <1>6, <1>10, <2>2 DEF Decided, StillStands, Undecided
    <3> QED BY <1>2, <3>1 DEF Occurrence
  <2> QED BY <2>1, <2>2
<1>11. ASSUME NEW o \in Occurrence, plan.anchor < o, o <= through
       PROVE  rows[o].state # "none" \/ o \in missed
  <2>1. CASE o <= plan.through
    BY <1>9, <1>11, <2>1 DEF ScheduleInv, Accounted
  <2>2. CASE ~(o <= plan.through)
    <3>1. f.kind = "admission" /\ o <= f.o
      BY <1>11, <2>2
    <3>2. f.o = plan.due \/ f.o <= plan.anchor
      BY <1>2, <1>3, <3>1 DEF Decided, StillStands
    <3>3. o = f.o
      BY <1>1, <1>3, <1>11, <2>2, <3>1, <3>2 DEF ScheduleInv, Cursor, Occurrence
    <3> QED BY <1>6, <3>1, <3>3
  <2> QED BY <2>1, <2>2
<1>12. plan.deleted \in BOOLEAN
  BY DEF ScheduleInv, ScheduleTypeOK
<1>13. \A o \in Occurrence : row[o].state \notin {"none"} \cup Undecided => row'[o] = row[o]
  <2> HIDE DEF rows
  <2> QED BY <1>4, <1>6, <1>9 DEF CancelInvalidated
<1> HIDE DEF rows, through
<1> QED BY <1>2, <1>4, <1>5, <1>6, <1>7, <1>9, <1>10, <1>11, <1>12, <1>13, PausedStep

\* The cursor moves from what is due to an instant that has passed, and what it
\* skips is entered as missed.
LEMMA CursorStep ==
  ASSUME ScheduleInv, NEW d \in Driver, Due(d), NEW o \in plan.due..clock,
         plan' = [plan EXCEPT !.through = o, !.due = NextAfter(o)],
         missed' \in {missed \cup plan.due..(o - 1), missed \cup plan.due..o},
         o \in missed' \/ row'[o].state # "none",
         \A k \in Occurrence : row[k].state # "none" => row'[k].state # "none",
         clock' = clock,
         \A e \in Driver : driver'[e].failure = driver[e].failure \/ driver'[e].failure = NoFailure
  PROVE  /\ Cursor' /\ Accounted' /\ Failures' /\ o \in Occurrence /\ plan.through < o
         /\ plan' \in [enabled : BOOLEAN, deleted : BOOLEAN, barrier : Nat, due : 0..MaxOccurrence,
                       through : 0..MaxOccurrence, anchor : 0..MaxOccurrence]
         /\ missed' \subseteq Occurrence
         /\ plan.enabled /\ plan'.enabled /\ plan'.barrier = plan.barrier /\ plan'.through = o
<1>1. /\ MaxOccurrence \in Nat /\ clock \in 0..MaxOccurrence /\ plan.due \in 1..clock
      /\ plan.through \in 0..MaxOccurrence /\ plan.anchor \in 0..MaxOccurrence
      /\ plan.barrier \in Nat /\ plan.enabled \in BOOLEAN /\ plan.deleted \in BOOLEAN
      /\ missed \subseteq Occurrence /\ o \in 1..MaxOccurrence
  BY ScheduleAssumption DEF ScheduleInv, ScheduleTypeOK, Due
<1>2. /\ plan.enabled /\ plan.due <= o /\ o <= clock
      /\ \/ plan.due = plan.through + 1
         \/ plan.due = plan.anchor + 1 /\ plan.through <= plan.anchor
  BY <1>1 DEF ScheduleInv, Cursor
<1>3. NextAfter(o) \in 0..MaxOccurrence /\ (NextAfter(o) # 0 => NextAfter(o) = o + 1)
  BY <1>1 DEF NextAfter
<1>4. /\ plan'.through = o /\ plan'.due = NextAfter(o) /\ plan'.anchor = plan.anchor
      /\ plan'.barrier = plan.barrier /\ plan'.enabled = plan.enabled /\ plan'.deleted = plan.deleted
  BY DEF ScheduleInv, ScheduleTypeOK
<1>5. plan.through < o
  BY <1>1, <1>2
<1>6. Cursor'
  <2>1. ~plan.deleted /\ plan.anchor <= clock
    BY DEF ScheduleInv, Cursor, Due
  <2>2. plan'.due # 0 => plan'.enabled /\ plan'.due = plan'.through + 1
    BY <1>2, <1>3, <1>4
  <2>3. plan'.through <= clock' /\ plan'.anchor <= clock' /\ ~plan'.deleted
    BY <1>2, <1>4, <2>1
  <2> QED BY <2>2, <2>3 DEF Cursor
<1>7. Accounted'
  <2> SUFFICES ASSUME NEW k \in Occurrence, plan'.anchor < k, k <= plan'.through
               PROVE  row'[k].state # "none" \/ k \in missed'
    BY DEF Accounted
  <2>1. k \in Nat /\ plan.anchor < k /\ k <= o
    BY <1>4 DEF Occurrence
  <2>2. CASE k <= plan.through
    BY <2>1, <2>2 DEF ScheduleInv, Accounted
  <2>3. CASE ~(k <= plan.through)
    <3>1. plan.due <= k
      BY <1>1, <1>2, <2>1, <2>3
    <3>2. k = o \/ k \in plan.due..(o - 1)
      BY <1>1, <2>1, <3>1
    <3>3. plan.due..(o - 1) \subseteq missed'
      BY <1>1
    <3> QED BY <3>2, <3>3
  <2> QED BY <2>2, <2>3
<1>8. Failures'
  <2> SUFFICES ASSUME NEW e \in Driver, driver'[e].failure = driver[e].failure
               PROVE  Decided(driver[e].failure)'
    BY DEF Failures, Decided
  <2> DEFINE f == driver[e].failure
  <2>1. f \in Failure \cup {NoFailure} /\ Decided(f)
    BY DEF ScheduleInv, ScheduleTypeOK, Failures
  <2>2. f # NoFailure => f.o \in Nat
    BY <2>1, ScheduleAssumption DEF Failure, Occurrence
  <2>3. f # NoFailure /\ f.kind = "admission" /\ f.barrier = plan.barrier /\ o < f.o =>
          f.o <= plan.anchor
    BY <1>1, <1>2, <1>5, <2>1, <2>2 DEF Decided
  <2> HIDE DEF f
  <2>4. Decided(f)'
    <3>1. f # NoFailure => f.barrier <= plan'.barrier /\ (f.kind = "occurrence" => f.state \in Undecided)
      BY <1>4, <2>1 DEF Decided
    <3>2. f # NoFailure /\ f.kind = "admission" => f.o <= clock'
      BY <2>1 DEF Decided
    <3>3. f' = f
      BY DEF f
    <3> QED BY <1>4, <2>3, <3>1, <3>2, <3>3 DEF Decided
  <2> QED BY <2>4 DEF f
<1>9. plan' \in [enabled : BOOLEAN, deleted : BOOLEAN, barrier : Nat, due : 0..MaxOccurrence,
                 through : 0..MaxOccurrence, anchor : 0..MaxOccurrence]
  <2>1. plan \in [enabled : BOOLEAN, deleted : BOOLEAN, barrier : Nat, due : 0..MaxOccurrence,
                  through : 0..MaxOccurrence, anchor : 0..MaxOccurrence]
    BY DEF ScheduleInv, ScheduleTypeOK
  <2>2. o \in 0..MaxOccurrence /\ NextAfter(o) \in 0..MaxOccurrence
    BY <1>1, <1>3
  <2> QED BY <2>1, <2>2
<1>10. missed' \subseteq Occurrence
  BY <1>1 DEF Occurrence
<1> QED BY <1>1, <1>2, <1>4, <1>5, <1>6, <1>7, <1>8, <1>9, <1>10 DEF Occurrence

\* The gap is entered as missed and nothing is admitted.
LEMMA CloseGapStep ==
  ASSUME ScheduleInv, NEW d \in Driver, CloseGap(d)
  PROVE  ScheduleInv'
<1> DEFINE claims == driver[d].claims
           h == [phase |-> IF claims = {} /\ NoFailure = NoFailure THEN "scan" ELSE "submit",
                 claims |-> claims, failure |-> NoFailure]
<1>1. /\ Due(d) /\ plan' = [plan EXCEPT !.through = clock, !.due = NextAfter(clock)]
      /\ missed' = missed \cup plan.due..clock
      /\ driver' = [driver EXCEPT ![d] = h]
      /\ UNCHANGED <<control, row, job, allowed, clock>>
  BY DEF CloseGap, ScanEnds
<1>2. /\ driver' \in [Driver -> Hands]
      /\ \A e \in Driver : driver'[e].failure = driver[e].failure \/ driver'[e].failure = NoFailure
  <2>1. driver[d] \in Hands
    BY DEF ScheduleInv, ScheduleTypeOK, Hands
  <2>2. h \in Hands /\ h.failure = NoFailure
    BY <2>1 DEF Hands
  <2> QED BY <1>1, <2>2, HandsStay
<1>3. clock \in plan.due..clock /\ clock \in missed'
  BY <1>1, ScheduleAssumption DEF ScheduleInv, ScheduleTypeOK, Due
<1>4. \A k \in Occurrence : row[k].state # "none" => row'[k].state # "none"
  BY <1>1
<1>5. clock' = clock /\ missed' \in {missed \cup plan.due..(clock - 1), missed \cup plan.due..clock}
  BY <1>1
<1>6. /\ Cursor' /\ Accounted' /\ Failures' /\ plan.through < clock
      /\ plan' \in [enabled : BOOLEAN, deleted : BOOLEAN, barrier : Nat, due : 0..MaxOccurrence,
                    through : 0..MaxOccurrence, anchor : 0..MaxOccurrence]
      /\ missed' \subseteq Occurrence
      /\ plan.enabled /\ plan'.enabled /\ plan'.barrier = plan.barrier /\ plan'.through = clock
  BY <1>1, <1>2, <1>3, <1>4, <1>5, CursorStep
<1>7. ScheduleTypeOK'
  BY <1>1, <1>2, <1>6 DEF ScheduleInv, ScheduleTypeOK, Hands
<1>8. Behind'
  BY <1>1, <1>6, ScheduleAssumption DEF ScheduleInv, ScheduleTypeOK, Behind, Occurrence
<1>9. Linked' /\ Serial' /\ OneWaits'
  BY <1>1 DEF ScheduleInv, Linked, Serial, OneWaits
<1> QED BY <1>6, <1>7, <1>8, <1>9 DEF ScheduleInv

\* A new row goes to an instant the cursor has not passed: it had none, and no
\* open job is of a later instant.
LEMMA AdmitStep ==
  ASSUME ScheduleInv, NEW d \in Driver, NEW o \in Occurrence, Admit(d, o)
  PROVE  ScheduleInv' /\ row[o].state = "none" /\ row'[o].state # "pruned"
<1> DEFINE fresh == [NoRow EXCEPT !.state = "pending", !.barrier = plan.barrier, !.lease = 1,
                                  !.generation = control.generation, !.live = TRUE]
           waiting == [fresh EXCEPT !.state = "waiting-overlap", !.lease = 0, !.live = FALSE]
<1>1. PICK r \in Admitted(o, fresh) \cup {Ended(fresh, "expired")} :
        /\ row' = [row EXCEPT ![o] = r]
        /\ ScanEnds(d, driver[d].claims \cup (IF r = fresh THEN {[o |-> o, lease |-> 1]} ELSE {}), NoFailure)
  BY DEF Admit
<1>2. /\ Due(d) /\ o \in plan.due..clock /\ missed' = missed \cup plan.due..(o - 1)
      /\ plan' = [plan EXCEPT !.through = o, !.due = NextAfter(o)]
      /\ UNCHANGED <<control, job, allowed, clock>>
  BY DEF Admit
<1>3. /\ plan.barrier \in Nat /\ control.generation \in Nat
      /\ row \in [Occurrence -> Row] /\ driver[d] \in Hands
  BY ScheduleAssumption DEF ScheduleInv, ScheduleTypeOK, Hands
<1>4. NoRow \in Row
  BY DEF NoRow, Row
<1>5. fresh \in Row /\ fresh.state = "pending" /\ fresh.barrier = plan.barrier
  BY <1>3, <1>4 DEF Row, Undecided
<1>6. waiting \in Row /\ waiting.state = "waiting-overlap" /\ waiting.barrier = plan.barrier
  <2> HIDE DEF fresh
  <2> QED BY <1>5 DEF Row, Undecided
<1>7. /\ Ended(fresh, "expired") \in Row /\ Ended(fresh, "expired").state = "expired"
      /\ Ended(fresh, "skipped") \in Row /\ Ended(fresh, "skipped").state = "skipped"
  <2> HIDE DEF fresh
  <2> QED BY <1>5, EndedType DEF Dropped
<1> HIDE DEF fresh, waiting
<1>8. /\ r \in Row
      /\ \/ r = fresh \/ r.state \in Dropped
         \/ r = waiting /\ ~HasWaiting
  BY <1>5, <1>6, <1>7 DEF Admitted, Dropped, waiting
<1>9. /\ r.state # "none" /\ r.state # "pruned" /\ (r.state \in Undecided => r.barrier = plan.barrier)
      /\ (r.state = "waiting-overlap" => ~HasWaiting)
      /\ r.state # "submitted"
  BY <1>5, <1>6, <1>8 DEF Undecided, Dropped
<1>10. row'[o] = r /\ \A k \in Occurrence : k # o => row'[k] = row[k]
  BY <1>1, <1>3
<1>11. /\ driver' \in [Driver -> Hands]
       /\ \A e \in Driver : driver'[e].failure = driver[e].failure \/ driver'[e].failure = NoFailure
  <2> DEFINE claims == driver[d].claims \cup (IF r = fresh THEN {[o |-> o, lease |-> 1]} ELSE {})
             h == [phase |-> IF claims = {} /\ NoFailure = NoFailure THEN "scan" ELSE "submit",
                   claims |-> claims, failure |-> NoFailure]
  <2>1. claims \in SUBSET Claim
    BY <1>3 DEF Claim, Hands
  <2>2. driver' = [driver EXCEPT ![d] = h]
    BY <1>1 DEF ScanEnds
  <2> HIDE DEF claims
  <2>3. h \in Hands /\ h.failure = NoFailure
    BY <2>1 DEF Hands
  <2> QED BY <2>2, <2>3, HandsStay
<1>12. \A k \in Occurrence : row[k].state # "none" => row'[k].state # "none"
  BY <1>9, <1>10
<1>13. /\ Cursor' /\ Accounted' /\ Failures' /\ plan.through < o
       /\ plan' \in [enabled : BOOLEAN, deleted : BOOLEAN, barrier : Nat, due : 0..MaxOccurrence,
                     through : 0..MaxOccurrence, anchor : 0..MaxOccurrence]
       /\ missed' \subseteq Occurrence
       /\ plan.enabled /\ plan'.enabled /\ plan'.barrier = plan.barrier /\ plan'.through = o
  <2>1. missed' \in {missed \cup plan.due..(o - 1), missed \cup plan.due..o} /\ clock' = clock
    BY <1>2
  <2>2. o \in missed' \/ row'[o].state # "none"
    BY <1>9, <1>10
  <2> QED BY <1>2, <1>11, <1>12, <2>1, <2>2, CursorStep
<1>14. row[o].state = "none" /\ job[o] = "none" /\ \A k \in Occurrence : row[k].state # "none" => k < o
  <2>1. plan.through \in Nat
    BY ScheduleAssumption DEF ScheduleInv, ScheduleTypeOK
  <2>2. \A k \in Occurrence : row[k].state # "none" => k < o
    BY <1>13, <2>1 DEF ScheduleInv, Behind, Occurrence
  <2>3. row[o].state = "none"
    BY <2>2 DEF Occurrence
  <2> QED BY <2>2, <2>3 DEF ScheduleInv, Linked
<1>15. ScheduleTypeOK'
  BY <1>1, <1>2, <1>8, <1>11, <1>13 DEF ScheduleInv, ScheduleTypeOK, Hands
<1>16. Behind'
  BY <1>9, <1>10, <1>13, <1>14 DEF ScheduleInv, Behind, Occurrence
<1>17. Linked' /\ Serial'
  BY <1>2, <1>10, <1>14 DEF ScheduleInv, Linked, Serial, Occurrence
<1>18. OneWaits'
  BY <1>9, <1>10 DEF ScheduleInv, OneWaits, HasWaiting
<1> QED BY <1>9, <1>10, <1>13, <1>14, <1>15, <1>16, <1>17, <1>18 DEF ScheduleInv

\* An occurrence becomes a job only when everything planned before it is over,
\* and while it was undecided nothing planned after it ran.
LEMMA SubmitStep ==
  ASSUME ScheduleInv, NEW d \in Driver, NEW c \in driver[d].claims, Submit(d, c)
  PROVE  ScheduleInv'
<1> DEFINE o == c.o
           r == [Ended(row[o], "submitted") EXCEPT !.observed = FALSE]
           rest == driver[d].claims \ {c}
           h == [phase |-> IF rest = {} /\ NoFailure = NoFailure THEN "scan" ELSE "submit",
                 claims |-> rest, failure |-> NoFailure]
<1>1. /\ driver[d] \in Hands /\ o \in Occurrence
      /\ row \in [Occurrence -> Row] /\ job \in [Occurrence -> {"none", "open", "released"}]
  BY DEF ScheduleInv, ScheduleTypeOK, Hands, Claim
<1>2. /\ row' = [row EXCEPT ![o] = r] /\ job' = [job EXCEPT ![o] = "open"]
      /\ UNCHANGED <<control, plan, missed, allowed, clock>>
      /\ row[o].state \in Undecided /\ ~PrecedingActive(o)
  BY DEF Submit, Submittable, Fence
<1>3. r \in Row /\ r.state = "submitted"
  BY <1>1, EndedType
<1>4. /\ driver' \in [Driver -> Hands]
      /\ \A e \in Driver : driver'[e].failure = driver[e].failure \/ driver'[e].failure = NoFailure
  <2>1. h \in Hands /\ h.failure = NoFailure
    BY <1>1 DEF Hands
  <2>2. driver' = [driver EXCEPT ![d] = h]
    BY DEF Submit, Released
  <2> QED BY <2>1, <2>2, HandsStay
<1> HIDE DEF o, r
<1>5. /\ row'[o] = r /\ job'[o] = "open"
      /\ \A k \in Occurrence : k # o => row'[k] = row[k] /\ job'[k] = job[k]
  BY <1>1, <1>2
<1>6. ScheduleTypeOK'
  BY <1>1, <1>2, <1>3, <1>4 DEF ScheduleInv, ScheduleTypeOK, Hands
<1>7. Behind' /\ Accounted'
  BY <1>1, <1>2, <1>3, <1>5 DEF ScheduleInv, Behind, Accounted, Undecided
<1>8. Linked' /\ OneWaits'
  BY <1>1, <1>2, <1>3, <1>5 DEF ScheduleInv, Linked, OneWaits, Undecided
<1>9. Serial'
  <2> SUFFICES ASSUME NEW n \in Occurrence, NEW k \in Occurrence, job'[n] = "open", k < n
               PROVE  row'[k].state \notin Undecided /\ job'[k] # "open"
    BY DEF Serial
  <2>1. CASE n = o
    <3>1. k \in 1..(o - 1) /\ k # o
      BY <1>1, <2>1 DEF Occurrence
    <3>2. row[k].state \notin Undecided /\ job[k] # "open"
      BY <1>2, <3>1 DEF PrecedingActive, ScheduleInv, Linked
    <3> QED BY <1>5, <3>1, <3>2
  <2>2. CASE n # o
    <3>1. job[n] = "open"
      BY <1>5, <2>2
    <3>2. k # o
      BY <1>2, <3>1 DEF ScheduleInv, Serial
    <3> QED BY <1>5, <3>1, <3>2 DEF ScheduleInv, Serial
  <2> QED BY <2>1, <2>2
<1>10. Failures' /\ Cursor'
  BY <1>2, <1>4 DEF ScheduleInv, Failures, Decided, Cursor
<1> QED BY <1>6, <1>7, <1>8, <1>9, <1>10 DEF ScheduleInv
-----------------------------------------------------------------------------
(***************************************************************************)
(* All steps                                                               *)
(***************************************************************************)

\* The invariant holds of a plan that was just created.
LEMMA ScheduleInitial ==
  ScheduleInit => ScheduleInv
<1> SUFFICES ASSUME ScheduleInit PROVE ScheduleInv
  OBVIOUS
<1>1. \A o \in Occurrence : row[o].state = "none" /\ job[o] = "none"
  BY DEF ScheduleInit, NoRow
<1>2. ScheduleTypeOK
  <2>1. NoRow \in Row
    BY DEF NoRow, Row
  <2>2. Idle \in Hands
    BY DEF Idle, Hands
  <2>3. row \in [Occurrence -> Row] /\ driver \in [Driver -> Hands]
    BY <2>1, <2>2 DEF ScheduleInit
  <2>4. /\ control \in [mode : {"embedded", "disabled"}, generation : 1..MaxGeneration]
        /\ clock \in 0..MaxOccurrence
        /\ plan \in [enabled : BOOLEAN, deleted : BOOLEAN, barrier : Nat,
               due : 0..MaxOccurrence, through : 0..MaxOccurrence, anchor : 0..MaxOccurrence]
    BY ScheduleAssumption DEF ScheduleInit
  <2> QED
    BY <2>3, <2>4 DEF ScheduleInit, ScheduleTypeOK, Hands
<1>3. Cursor /\ Accounted
  BY ScheduleAssumption DEF ScheduleInit, Cursor, Accounted, Occurrence
<1>4. Behind /\ Linked /\ Serial /\ OneWaits
  BY <1>1 DEF Behind, Linked, Serial, OneWaits, Undecided
<1>5. Failures
  BY DEF ScheduleInit, Failures, Decided, Idle
<1> QED BY <1>2, <1>3, <1>4, <1>5 DEF ScheduleInv

\* Every step of users, clocks, jobs and drivers keeps it.
LEMMA ScheduleStep ==
  ASSUME ScheduleInv, ScheduleNext
  PROVE  ScheduleInv'
<1>1. CASE Outside
  BY <1>1, OutsideStep, UpdateStep, DeleteStep, RowStep DEF Outside
<1>2. CASE \E o \in Occurrence : ObserveReleased(o)
  BY <1>2, RowStep
<1>3. ASSUME NEW d \in Driver, DriverStep(d) PROVE ScheduleInv'
  <2>1. CASE Recover(d)
    BY <2>1, RowStep, DriverAloneStep DEF Recover
  <2>2. CASE EndScan(d) \/ DriverStops(d)
    BY <2>2, DriverAloneStep
  <2>3. CASE AdmitDue(d)
    BY <2>3, AdmitStep, CloseGapStep, DriverAloneStep DEF AdmitDue
  <2>4. CASE SubmitNext(d)
    BY <2>4, SubmitStep, DriverAloneStep DEF SubmitNext
  <2>5. CASE Record(d)
    BY <2>5, RecordRejectionStep, RowStep, DriverAloneStep DEF Record
  <2> QED BY <1>3, <2>1, <2>2, <2>3, <2>4, <2>5 DEF DriverStep
<1> QED BY <1>1, <1>2, <1>3 DEF ScheduleNext

\* Where nothing of the plan changes, the invariant stays.
LEMMA ScheduleStutter ==
  ASSUME ScheduleInv, UNCHANGED scheduleVars
  PROVE  ScheduleInv'
  BY DEF scheduleVars, ScheduleInv, ScheduleTypeOK, Cursor, Behind, Linked, Serial, OneWaits,
         Accounted, Failures, Decided, Occurrence, CurrentBarrier

\* Retention may take away a row that is over and whose job is not open.
LEMMA RowRemoved ==
  ASSUME ScheduleInv, NEW o \in Occurrence,
         row[o].state \in Dropped \cup {"submitted"}, job[o] # "open",
         row' = [row EXCEPT ![o] = [NoRow EXCEPT !.state = "pruned"]],
         UNCHANGED <<control, plan, missed, job, allowed, clock, driver>>
  PROVE  ScheduleInv' /\ row'[o].state = "pruned"
<1> DEFINE r == [NoRow EXCEPT !.state = "pruned"]
<1>1. r \in Row /\ r.state = "pruned"
  BY DEF NoRow, Row
<1>2. row \in [Occurrence -> Row] /\ Failures'
  BY FailuresStay DEF ScheduleInv, ScheduleTypeOK
<1> HIDE DEF r
<1>3. row' \in [Occurrence -> Row] /\ row'[o] = r /\ \A k \in Occurrence : k # o => row'[k] = row[k]
  BY <1>1, <1>2 DEF r
<1>4. ScheduleTypeOK' /\ Cursor'
  BY <1>3 DEF ScheduleInv, ScheduleTypeOK, Cursor
<1>5. Behind' /\ Linked' /\ Serial' /\ OneWaits' /\ Accounted'
  BY <1>1, <1>3 DEF ScheduleInv, Behind, Linked, Serial, OneWaits, Accounted, Undecided, Dropped
<1> QED BY <1>1, <1>2, <1>3, <1>4, <1>5 DEF ScheduleInv

\* What was decided stands, whatever the plan goes through.
LEMMA EndedStays ==
  ASSUME ScheduleInv, ScheduleNext, NEW o \in Occurrence
  PROVE  /\ row[o].state \in Dropped \cup {"submitted", "pruned"} => row'[o].state = row[o].state
         /\ job[o] # "none" => job'[o] \in {job[o], "released"}
<1>1. row \in [Occurrence -> Row] /\ job \in [Occurrence -> {"none", "open", "released"}]
  BY DEF ScheduleInv, ScheduleTypeOK
<1>2. ASSUME row' = row \/ \E p : row' = CancelInvalidated(row, p)
      PROVE  row[o].state \notin Undecided => row'[o] = row[o]
  BY <1>1, <1>2 DEF CancelInvalidated
<1>3. CASE Outside
  <2>1. CASE \E revised \in BOOLEAN, wish \in {"keep", "on", "off"} : Update(revised, wish)
    BY <1>2, <2>1 DEF Update, Undecided, Dropped
  <2>2. CASE Delete
    BY <1>2, <2>2 DEF Delete, Undecided, Dropped
  <2>3. CASE RightsChange \/ InstantPasses \/ \E mode \in {"embedded", "disabled"} : ChangeControl(mode)
    BY <2>3 DEF RightsChange, InstantPasses, ChangeControl
  <2>4. CASE \E k \in Occurrence : LeaseEnds(k) \/ DeadlinePasses(k)
    <3>1. PICK k \in Occurrence : \/ row' = [row EXCEPT ![k].live = FALSE]
                                  \/ row' = [row EXCEPT ![k].late = TRUE]
      BY <2>4 DEF LeaseEnds, DeadlinePasses
    <3>2. row[k] \in Row /\ job' = job
      BY <1>1, <2>4 DEF LeaseEnds, DeadlinePasses
    <3> QED BY <1>1, <3>1, <3>2 DEF Row
  <2>5. CASE \E k \in Occurrence : JobReleased(k)
    BY <1>1, <2>5 DEF JobReleased
  <2> QED BY <1>3, <2>1, <2>2, <2>3, <2>4, <2>5 DEF Outside
<1>4. ASSUME NEW k \in Occurrence, ObserveReleased(k)
      PROVE  row'[o].state = row[o].state /\ job' = job
  <2>1. row[k] \in Row /\ row' = [row EXCEPT ![k].observed = TRUE] /\ job' = job
    BY <1>1, <1>4 DEF ObserveReleased
  <2> QED BY <1>1, <2>1 DEF Row
<1>5. ASSUME NEW d \in Driver, DriverStep(d)
      PROVE  /\ row[o].state \in Dropped \cup {"submitted", "pruned"} => row'[o].state = row[o].state
             /\ job[o] # "none" => job'[o] \in {job[o], "released"}
  <2>1. ASSUME NEW k \in Occurrence, row[k].state \in {"none"} \cup Undecided,
               \A n \in Occurrence : n # k => row'[n] = row[n]
        PROVE  row[o].state \in Dropped \cup {"submitted", "pruned"} => row'[o].state = row[o].state
    BY <2>1 DEF Undecided, Dropped
  <2>2. CASE Recover(d)
    BY <1>1, <2>1, <2>2 DEF Recover, Expire, Take, TakeDenied, Claimable
  <2>3. CASE EndScan(d) \/ DriverStops(d)
    BY <2>3 DEF EndScan, DriverStops
  <2>4. ASSUME NEW k \in Occurrence, Admit(d, k)
        PROVE  /\ row[o].state \in Dropped \cup {"submitted", "pruned"} => row'[o].state = row[o].state
               /\ job' = job
    <3>1. row[k].state = "none" /\ job' = job
      BY <2>4, AdmitStep DEF Admit
    <3>2. \A n \in Occurrence : n # k => row'[n] = row[n]
      BY <1>1, <2>4 DEF Admit
    <3> QED BY <2>1, <3>1, <3>2
  <2>5. CASE CloseGap(d) \/ AdmissionFails(d, "admission") \/ AdmissionFails(d, "limit")
    BY <2>5 DEF CloseGap, AdmissionFails
  <2>6. ASSUME NEW c \in driver[d].claims, Submit(d, c)
        PROVE  /\ row[o].state \in Dropped \cup {"submitted", "pruned"} => row'[o].state = row[o].state
               /\ job[o] # "none" => job'[o] \in {job[o], "released"}
    <3>1. c.o \in Occurrence /\ row[c.o].state \in Undecided
      BY <2>6 DEF Submit, Submittable, Fence, ScheduleInv, ScheduleTypeOK, Claim
    <3>2. \A n \in Occurrence : n # c.o => row'[n] = row[n] /\ job'[n] = job[n]
      BY <1>1, <2>6 DEF Submit
    <3>3. job[c.o] = "none"
      BY <1>1, <3>1 DEF ScheduleInv, Linked, Undecided
    <3> QED BY <2>1, <3>1, <3>2, <3>3
  <2>7. CASE \E c \in driver[d].claims : SubmitNothing(d, c) \/ SubmitDenied(d, c) \/ SubmitRefused(d, c)
    BY <2>7 DEF SubmitNothing, SubmitDenied, SubmitRefused
  <2>8. CASE RecordRejection(d)
    <3>1. job' = job
      BY <2>8 DEF RecordRejection
    <3>2. row[o].state \notin {"none"} \cup Undecided => row'[o] = row[o]
      BY <2>8, RecordRejectionStep
    <3> QED BY <3>1, <3>2 DEF Undecided, Dropped
  <2>9. CASE RecordSubmissionFailure(d)
    <3>1. row[driver[d].failure.o].state \in Undecided /\ job' = job
      BY <2>9 DEF RecordSubmissionFailure, Fence
    <3>2. \A n \in Occurrence : n # driver[d].failure.o => row'[n] = row[n]
      BY <1>1, <2>9 DEF RecordSubmissionFailure
    <3> QED BY <3>1, <3>2 DEF Undecided, Dropped
  <2>10. CASE RejectionOvertaken(d)
    BY <2>10 DEF RejectionOvertaken
  <2> QED
    BY <1>5, <2>2, <2>3, <2>4, <2>5, <2>6, <2>7, <2>8, <2>9, <2>10
    DEF DriverStep, AdmitDue, SubmitNext, Record
<1> QED BY <1>3, <1>4, <1>5 DEF ScheduleNext

\* Only retention removes a row.
LEMMA NonePruned ==
  ASSUME ScheduleInv, ScheduleNext, NEW o \in Occurrence, row'[o].state = "pruned"
  PROVE  row[o].state = "pruned"
<1>1. row \in [Occurrence -> Row] /\ \A k \in Occurrence : row[k] \in Row
  BY DEF ScheduleInv, ScheduleTypeOK
<1>2. ASSUME NEW k \in Occurrence, NEW r, row' = [row EXCEPT ![k] = r],
             r.state = row[k].state \/ r.state # "pruned"
      PROVE  row[o].state = "pruned"
  BY <1>1, <1>2
<1>3. \A k \in Occurrence : Ended(row[k], "expired").state = "expired" /\
                            Ended(row[k], "rejected").state = "rejected" /\
                            [Ended(row[k], "submitted") EXCEPT !.observed = FALSE].state = "submitted"
  BY <1>1, EndedType DEF Dropped
<1>4. ASSUME NEW rows \in [Occurrence -> Row], NEW p, row' = CancelInvalidated(rows, p)
      PROVE  rows[o].state = "pruned"
  BY <1>4, CancelType
<1>5. ASSUME row' = row PROVE row[o].state = "pruned"
  BY <1>5
<1>6. CASE Outside
  <2>1. CASE \E revised \in BOOLEAN, wish \in {"keep", "on", "off"} : Update(revised, wish)
    BY <1>1, <1>4, <2>1 DEF Update
  <2>2. CASE Delete
    BY <1>1, <1>4, <2>2 DEF Delete
  <2>3. CASE \/ RightsChange \/ InstantPasses \/ \E k \in Occurrence : JobReleased(k)
             \/ \E mode \in {"embedded", "disabled"} : ChangeControl(mode)
    BY <1>5, <2>3 DEF RightsChange, InstantPasses, ChangeControl, JobReleased
  <2>4. ASSUME NEW k \in Occurrence, LeaseEnds(k) \/ DeadlinePasses(k) PROVE row[o].state = "pruned"
    <3>1. /\ [row[k] EXCEPT !.live = FALSE].state = row[k].state
          /\ [row[k] EXCEPT !.late = TRUE].state = row[k].state
      BY <1>1 DEF Row
    <3>2. \/ row' = [row EXCEPT ![k] = [row[k] EXCEPT !.live = FALSE]]
          \/ row' = [row EXCEPT ![k] = [row[k] EXCEPT !.late = TRUE]]
      BY <2>4 DEF LeaseEnds, DeadlinePasses
    <3> QED BY <1>2, <3>1, <3>2
  <2> QED BY <1>6, <2>1, <2>2, <2>3, <2>4 DEF Outside
<1>7. ASSUME NEW k \in Occurrence, ObserveReleased(k) PROVE row[o].state = "pruned"
  <2>1. [row[k] EXCEPT !.observed = TRUE].state = row[k].state
    BY <1>1 DEF Row
  <2>2. row' = [row EXCEPT ![k] = [row[k] EXCEPT !.observed = TRUE]]
    BY <1>7 DEF ObserveReleased
  <2> QED BY <1>2, <2>1, <2>2
<1>8. ASSUME NEW d \in Driver, DriverStep(d) PROVE row[o].state = "pruned"
  <2>1. ASSUME NEW k \in Occurrence, Expire(d, k) PROVE row[o].state = "pruned"
    BY <1>2, <1>3, <2>1 DEF Expire
  <2>2. ASSUME NEW k \in Occurrence, Take(d, k) PROVE row[o].state = "pruned"
    <3> DEFINE r == [row[k] EXCEPT !.lease = @ + 1, !.live = TRUE, !.generation = control.generation]
    <3>1. r.state = row[k].state
      BY <1>1 DEF Row
    <3>2. row' = [row EXCEPT ![k] = r]
      BY <2>2 DEF Take
    <3> QED BY <1>2, <3>1, <3>2
  <2>3. CASE \/ \E k \in Occurrence : TakeDenied(d, k)
             \/ EndScan(d) \/ CloseGap(d) \/ DriverStops(d) \/ RejectionOvertaken(d)
             \/ AdmissionFails(d, "admission") \/ AdmissionFails(d, "limit")
             \/ \E c \in driver[d].claims : SubmitNothing(d, c) \/ SubmitDenied(d, c) \/ SubmitRefused(d, c)
    BY <1>5, <2>3 DEF TakeDenied, EndScan, CloseGap, DriverStops, RejectionOvertaken, AdmissionFails,
                      SubmitNothing, SubmitDenied, SubmitRefused
  <2>4. ASSUME NEW k \in Occurrence, Admit(d, k) PROVE row[o].state = "pruned"
    <3>1. row'[k].state # "pruned"
      BY <2>4, AdmitStep
    <3>2. \A n \in Occurrence : n # k => row'[n] = row[n]
      BY <1>1, <2>4 DEF Admit
    <3> QED BY <3>1, <3>2
  <2>5. ASSUME NEW c \in driver[d].claims, Submit(d, c) PROVE row[o].state = "pruned"
    <3>1. c.o \in Occurrence
      BY DEF ScheduleInv, ScheduleTypeOK, Claim
    <3>2. row' = [row EXCEPT ![c.o] = [Ended(row[c.o], "submitted") EXCEPT !.observed = FALSE]]
      BY <2>5 DEF Submit
    <3> QED BY <1>2, <1>3, <3>1, <3>2
  <2>6. CASE RecordRejection(d)
    <3> DEFINE f == driver[d].failure
               rows == IF f.kind = "limit" THEN row ELSE [row EXCEPT ![f.o] = Ended(@, "rejected")]
    <3>1. f.o \in Occurrence
      BY <2>6 DEF RecordRejection, ScheduleInv, ScheduleTypeOK, Failure, NoFailure
    <3>2. Ended(row[f.o], "rejected") \in Row /\ Ended(row[f.o], "rejected").state = "rejected"
      BY <1>1, <3>1, EndedType DEF Dropped
    <3>3. rows \in [Occurrence -> Row] /\ (rows[o].state = "pruned" => row[o].state = "pruned")
      BY <1>1, <3>1, <3>2
    <3>4. row' = CancelInvalidated(rows, plan')
      BY <2>6 DEF RecordRejection
    <3> QED BY <1>4, <3>3, <3>4
  <2>7. CASE RecordSubmissionFailure(d)
    <3>1. driver[d].failure.o \in Occurrence
      BY <2>7 DEF RecordSubmissionFailure, ScheduleInv, ScheduleTypeOK, Failure, NoFailure
    <3> QED BY <1>2, <1>3, <2>7, <3>1 DEF RecordSubmissionFailure
  <2> QED BY <1>8, <2>1, <2>2, <2>3, <2>4, <2>5, <2>6, <2>7
          DEF DriverStep, Recover, AdmitDue, SubmitNext, Record
<1> QED BY <1>6, <1>7, <1>8 DEF ScheduleNext
=============================================================================
