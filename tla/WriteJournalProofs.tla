-------------------------- MODULE WriteJournalProofs --------------------------
(***************************************************************************)
(* Proofs about WriteJournal, for any number of processes, files, saves    *)
(* and crashes and with every fault: what a save leaves in half can be     *)
(* undone from the journal, and the journal implements AtomicWorkspace     *)
(* until a save is late or was reported with its record still complete.    *)
(***************************************************************************)
EXTENDS WriteJournal, SequenceTheorems, FiniteSetTheorems, WellFoundedInduction, TLAPS

Part == {Manifest, Marker} \cup {Backup(f) : f \in File}
Save == [plan : UNION {[T -> Content] : T \in SUBSET File}, old : [File -> Content],
         dir : BOOLEAN, parts : SUBSET Part, fate : {"open", "committed", "told"},
         applied : SUBSET File, late : BOOLEAN, kept : BOOLEAN]
Process == [pc : Working \cup {"idle"}, op : Nat, todo : SUBSET File, left : SUBSET Nat,
            seen : {NoRevision} \cup [File -> Content]]

JournalTyped ==
  /\ files \in [File -> Content] /\ stray \in BOOLEAN
  /\ lock = {} \/ \E w \in Writer : lock = {w}
  /\ ops \in Seq(Save) /\ Len(ops) <= MaxSaves
  /\ proc \in [Writer -> Process]
  /\ \A w \in Writer : proc[w].op \in 0..Len(ops) /\ proc[w].left \subseteq DOMAIN ops
  /\ crashes \in 0..MaxCrashes

\* Where a process holds the lock, and where it has an operation at hand.
Locked == {"locked", "staging", "applying", "restoring", "copied", "sweeping",
           "recovering", "visited"}
Early == {"checked", "locked"}
Holding(w) == proc[w].pc \in Locked => lock = {w}

Plan(w) == Op(w).plan
Old(w) == Op(w).old

\* How far a process has come with its operation, in the journal and in the files.
OpSound(w) ==
  /\ proc[w].pc \in Early =>
       /\ proc[w].op # 0 /\ proc[w].left = {} /\ Op(w).fate = "open"
       /\ ~Op(w).dir /\ Op(w).parts = {} /\ Old(w) = proc[w].seen /\ Op(w).applied = {}
       /\ ~Op(w).late
  /\ At(w, "staging") =>
       /\ proc[w].op # 0 /\ proc[w].left = {} /\ Op(w).fate = "open"
       /\ Op(w).dir /\ Op(w).parts = {} /\ Old(w) = files /\ Op(w).applied = {}
  /\ At(w, "applying") =>
       /\ proc[w].op # 0 /\ proc[w].left = {} /\ Op(w).fate = "open"
       /\ Complete(proc[w].op) /\ Marker \notin Op(w).parts
       /\ Op(w).applied = DOMAIN Plan(w) \ proc[w].todo
       /\ \A f \in File :
            files[f] = IF f \in DOMAIN Plan(w) \ proc[w].todo THEN Plan(w)[f] ELSE Old(w)[f]
  /\ proc[w].pc \in {"restoring", "copied"} =>
       /\ proc[w].op # 0 /\ Op(w).dir /\ Marker \notin Op(w).parts
       /\ proc[w].todo # {} => Complete(proc[w].op)
       /\ Op(w).applied \subseteq proc[w].todo
       /\ \A f \in DOMAIN Plan(w) \ proc[w].todo : files[f] = Old(w)[f]
       /\ proc[w].left = {} => Op(w).fate = "open"
       /\ proc[w].left # {} => proc[w].op \in proc[w].left
  /\ At(w, "sweeping") =>
       /\ proc[w].op # 0 /\ Op(w).dir
       /\ Op(w).applied = {} \/ (Op(w).applied = DOMAIN Plan(w) /\ Op(w).fate # "open")
       /\ Op(w).fate = "open" => \A f \in DOMAIN Plan(w) : files[f] = Old(w)[f]
       /\ proc[w].left = {} /\ Op(w).fate = "committed" =>
            \A f \in DOMAIN Plan(w) : files[f] = Plan(w)[f]
       /\ proc[w].left # {} => proc[w].op \in proc[w].left

WriterSound(w) ==
  /\ Holding(w) /\ OpSound(w)
  /\ proc[w].todo # {} =>
       proc[w].pc \in {"applying", "restoring", "copied"} /\ proc[w].todo \subseteq DOMAIN Plan(w)
  /\ At(w, "copied") => proc[w].todo # {}
  /\ proc[w].left # {} => proc[w].pc \in {"recovering", "restoring", "copied", "sweeping"}
  /\ At(w, "recovering") => proc[w].left # {}
  /\ \A n \in proc[w].left : ops[n].dir

Distinct ==
  \A v, w \in Writer :
    v # w /\ proc[v].pc \in Early /\ proc[w].pc \in Early => proc[v].op # proc[w].op

\* A record with the marker is of a save of which all is applied; one that was
\* reported is complete only if it was when the report was made; and one that is
\* applied in part is complete.
RecordSound(n) ==
  /\ ops[n].applied \subseteq Targets(n)
  /\ Marker \in ops[n].parts => ops[n].fate # "open" /\ ops[n].applied = Targets(n)
  /\ ops[n].fate = "told" => ops[n].kept \/ ~Complete(n)
  /\ \/ ops[n].applied = {}
     \/ ops[n].applied = Targets(n) /\ ops[n].fate # "open"
     \/ Complete(n)
RecordsSound == \A n \in DOMAIN ops : RecordSound(n)

JournalInv ==
  /\ JournalTyped
  /\ \A w \in Writer : WriterSound(w)
  /\ Distinct /\ RecordsSound

\* Until a save comes late there is never a second operation in the journal.
Single == \A m, n \in Journal : m = n
SomeLate == \E n \in DOMAIN ops : ops[n].late
Alone == Single \/ SomeLate
-----------------------------------------------------------------------------
(***************************************************************************)
(* Operators and types                                                     *)
(***************************************************************************)

\* A plan is applied from its first file on, and restored from its last.
LEMMA FirstIsMember ==
  ASSUME NEW S, S \subseteq File, S # {}
  PROVE  First(S) \in S
<1>1. S \subseteq Nat
  BY JournalBounds DEF File
<1>2. PICK f \in S : \A g \in S : <<g, f>> \notin OpToRel(<, Nat)
  BY <1>1, NatLessThanWellFounded, WFMin
<1>3. \A g \in S : f <= g
  <2> TAKE g \in S
  <2>1. ~(g < f)
    BY <1>1, <1>2 DEF OpToRel
  <2> QED
    BY <1>1, <2>1
<1> QED
  BY <1>3 DEF First

LEMMA LastIsMember ==
  ASSUME NEW S, S \subseteq File, S # {}
  PROVE  Last(S) \in S
<1> DEFINE T == {NFiles - f : f \in S}
<1>1. \A f \in S : f \in Nat /\ f <= NFiles
  BY JournalBounds DEF File
<1>2. T \subseteq Nat /\ T # {}
  BY <1>1, JournalBounds
<1>3. PICK t \in T : \A u \in T : <<u, t>> \notin OpToRel(<, Nat)
  BY <1>2, NatLessThanWellFounded, WFMin
<1>4. PICK f \in S : t = NFiles - f
  BY <1>3
<1>5. \A g \in S : g <= f
  <2> TAKE g \in S
  <2>1. NFiles - g \in T
    OBVIOUS
  <2>2. ~(NFiles - g < NFiles - f)
    BY <1>2, <1>3, <1>4, <2>1 DEF OpToRel
  <2> QED
    BY <1>1, <2>2, JournalBounds
<1> QED
  BY <1>5 DEF Last

\* The record of a save is changed in place, or added at the end.
LEMMA OpsExcept ==
  ASSUME NEW n \in DOMAIN ops, NEW r \in Save, ops \in Seq(Save)
  PROVE  LET new == [ops EXCEPT ![n] = r]
         IN  /\ new \in Seq(Save) /\ Len(new) = Len(ops) /\ DOMAIN new = DOMAIN ops
             /\ new[n] = r /\ \A m \in DOMAIN ops \ {n} : new[m] = ops[m]
BY ExceptSeq, LenProperties

LEMMA OpsAppend ==
  ASSUME NEW r \in Save, ops \in Seq(Save)
  PROVE  LET new == Append(ops, r)
         IN  /\ new \in Seq(Save) /\ Len(new) = Len(ops) + 1 /\ DOMAIN new = 1..Len(ops) + 1
             /\ DOMAIN ops = 1..Len(ops)
             /\ new[Len(ops) + 1] = r /\ \A m \in DOMAIN ops : new[m] = ops[m]
BY AppendProperties, LenProperties

LEMMA JournalTyping ==
  ASSUME JournalTyped
  PROVE  /\ Len(ops) \in Nat /\ DOMAIN ops = 1..Len(ops)
         /\ \A n \in DOMAIN ops : /\ ops[n] \in Save /\ DOMAIN ops[n].plan \subseteq File
                                 /\ ops[n].plan \in [DOMAIN ops[n].plan -> Content]
                                 /\ Targets(n) \subseteq File /\ Existed(n) \subseteq Targets(n)
         /\ \A w \in Writer : proc[w] \in Process
         /\ \A w \in Writer : proc[w].op # 0 => proc[w].op \in DOMAIN ops
<1>1. Len(ops) \in Nat /\ DOMAIN ops = 1..Len(ops)
  BY LenProperties DEF JournalTyped
<1>2. \A n \in DOMAIN ops : ops[n] \in Save
  BY ElementOfSeq, <1>1 DEF JournalTyped
<1>3. \A n \in DOMAIN ops : /\ DOMAIN ops[n].plan \subseteq File
                           /\ ops[n].plan \in [DOMAIN ops[n].plan -> Content]
  <2> TAKE n \in DOMAIN ops
  <2>1. PICK T \in SUBSET File : ops[n].plan \in [T -> Content]
    BY <1>2 DEF Save
  <2> QED
    BY <2>1
<1> QED
  BY <1>1, <1>2, <1>3 DEF JournalTyped, Targets, Existed
-----------------------------------------------------------------------------
(***************************************************************************)
(* What a step of one process may touch                                    *)
(***************************************************************************)

\* A process changes its own operation and, under the lock, the files.
Recording == {"locked", "staging", "applying", "restoring", "copied", "sweeping"}
Touches(w) ==
  /\ \A v \in Writer \ {w} : proc'[v] = proc[v]
  /\ DOMAIN ops \subseteq DOMAIN ops'
  /\ \A n \in DOMAIN ops :
       \/ ops'[n] = ops[n]
       \/ n = proc[w].op /\ proc[w].pc \in Recording
  /\ files' = files \/ proc[w].pc \in {"applying", "restoring", "copied"}
  /\ \/ lock' = lock
     \/ lock = {} /\ lock' = {w}
     \/ lock' = {} /\ proc[w].pc \in Locked

Moves(w, p) == p \in Process /\ proc' = [proc EXCEPT ![w] = p]

\* Steps that leave the journal and the files alone.
LEMMA QuietStep ==
  ASSUME JournalTyped, NEW w \in Writer, NEW p, Moves(w, p), UNCHANGED <<files, ops>>,
         p.op = 0 \/ p.op = proc[w].op \/ p.op \in DOMAIN ops,
         p.left \subseteq DOMAIN ops,
         stray' \in BOOLEAN, crashes' \in 0..MaxCrashes,
         \/ lock' = lock
         \/ lock = {} /\ lock' = {w}
         \/ lock' = {} /\ proc[w].pc \in Locked
  PROVE  JournalTyped' /\ Touches(w)
<1>1. Len(ops) \in Nat /\ DOMAIN ops = 1..Len(ops)
  BY JournalTyping
<1>2. proc' \in [Writer -> Process] /\ proc'[w] = p /\ \A v \in Writer \ {w} : proc'[v] = proc[v]
  BY DEF Moves, JournalTyped
<1>3. \A v \in Writer : proc'[v].op \in 0..Len(ops') /\ proc'[v].left \subseteq DOMAIN ops'
  BY <1>1, <1>2 DEF JournalTyped
<1>4. JournalTyped'
  BY <1>2, <1>3 DEF JournalTyped
<1> QED
  BY <1>2, <1>4 DEF Touches

LEMMA QuietSteps ==
  ASSUME JournalInv, NEW w \in Writer,
         \/ FindNoJournal(w) \/ Load(w) \/ AcquireLock(w) \/ FindLocked(w) \/ Conflict(w)
         \/ Fail(w) \/ CopyBackup(w) \/ AllRestored(w) \/ FailRestore(w)
         \/ StartRecovery(w) \/ Recover(w) \/ EndRecovery(w) \/ Crash(w)
  PROVE  JournalTyped' /\ Touches(w)
<1>1. /\ JournalTyped /\ proc[w] \in Process /\ proc[w].left \subseteq DOMAIN ops
      /\ proc \in [Writer -> Process]
  BY JournalTyping DEF JournalInv, JournalTyped
<1>2. stray \in BOOLEAN /\ crashes \in 0..MaxCrashes /\ files \in [File -> Content]
  BY <1>1 DEF JournalTyped
<1>3. CASE FindNoJournal(w)
  <2> DEFINE p == [proc[w] EXCEPT !.pc = "clear"]
  <2>1. Moves(w, p)
    BY <1>3, <1>1, <1>2, JournalTyping DEF FindNoJournal, Become, Moves, Process, Working
  <2> QED
    BY <1>3, <1>1, <1>2, <2>1, QuietStep DEF FindNoJournal, Become, Process, At, Locked
<1>4. CASE Load(w)
  <2> DEFINE p == [proc[w] EXCEPT !.pc = "idle", !.seen = IF Unexpected THEN NoRevision ELSE files]
  <2>1. Moves(w, p)
    BY <1>4, <1>1, <1>2, JournalTyping DEF Load, Moves, Process, Working
  <2> QED
    BY <1>4, <1>1, <1>2, <2>1, QuietStep DEF Load, Process, At, Locked
<1>5. CASE AcquireLock(w)
  <2> DEFINE p == [proc[w] EXCEPT !.pc = "locked"]
  <2>1. Moves(w, p)
    BY <1>5, <1>1, <1>2, JournalTyping DEF AcquireLock, Become, Moves, Process, Working
  <2> QED
    BY <1>5, <1>1, <1>2, <2>1, QuietStep DEF AcquireLock, Become, Process, At, Locked
<1>6. CASE FindLocked(w)
  <2> DEFINE p == [proc[w] EXCEPT !.pc = "idle", !.op = 0]
  <2>1. Moves(w, p)
    BY <1>6, <1>1, <1>2, JournalTyping DEF FindLocked, Moves, Process, Working
  <2> QED
    BY <1>6, <1>1, <1>2, <2>1, QuietStep DEF FindLocked, Process, At, Locked
<1>7. CASE Conflict(w)
  <2> DEFINE p == [proc[w] EXCEPT !.pc = "idle", !.op = 0, !.todo = {}]
  <2>1. Moves(w, p)
    BY <1>7, <1>1, <1>2, JournalTyping DEF Conflict, Release, Moves, Process, Working
  <2> QED
    BY <1>7, <1>1, <1>2, <2>1, QuietStep DEF Conflict, Release, Process, At, Locked
<1>8. CASE Fail(w)
  <2> DEFINE p == [proc[w] EXCEPT !.pc = "restoring",
               !.todo = IF At(w, "staging") THEN {} ELSE Targets(proc[w].op) \ proc[w].todo]
  <2>1. proc[w].op \in DOMAIN ops
    BY <1>8, <1>1, JournalTyping DEF Fail, At, JournalInv, WriterSound, OpSound
  <2>2. Targets(proc[w].op) \subseteq File
    BY <2>1, <1>1, JournalTyping
  <2>3. Moves(w, p)
    BY <1>8, <1>1, <2>2 DEF Fail, Moves, Process, Working, At
  <2> QED
    BY <1>8, <1>1, <1>2, <2>3, QuietStep DEF Fail, Process, At
<1>9. CASE CopyBackup(w)
  <2> DEFINE p == [proc[w] EXCEPT !.pc = "copied"]
  <2>1. Moves(w, p)
    BY <1>9, <1>1, <1>2, JournalTyping DEF CopyBackup, Become, Moves, Process, Working
  <2> QED
    BY <1>9, <1>1, <1>2, <2>1, QuietStep DEF CopyBackup, Become, Process, At, Locked
<1>10. CASE AllRestored(w)
  <2> DEFINE p == [proc[w] EXCEPT !.pc = "sweeping"]
  <2>1. Moves(w, p)
    BY <1>10, <1>1, <1>2, JournalTyping DEF AllRestored, Become, Moves, Process, Working
  <2> QED
    BY <1>10, <1>1, <1>2, <2>1, QuietStep DEF AllRestored, Become, Process, At, Locked
<1>11. CASE StartRecovery(w)
  <2> DEFINE p == [proc[w] EXCEPT !.pc = "recovering", !.left = Journal]
  <2>1. Moves(w, p)
    <3>1. Journal \in SUBSET Nat
      BY <1>1, JournalTyping DEF Journal
    <3> QED
      BY <1>11, <1>1, <3>1 DEF StartRecovery, Moves, Process, Working
  <2> QED
    BY <1>11, <1>1, <1>2, <2>1, QuietStep DEF StartRecovery, Journal, Process, At, Locked
<1>12. CASE EndRecovery(w)
  <2> DEFINE p == [proc[w] EXCEPT !.pc = IF Journal = {} THEN "clear" ELSE "idle", !.op = 0, !.todo = {}]
  <2>1. Moves(w, p)
    BY <1>12, <1>1, <1>2, JournalTyping DEF EndRecovery, Release, Moves, Process, Working
  <2> QED
    BY <1>12, <1>1, <1>2, <2>1, QuietStep DEF EndRecovery, Release, Process, At, Locked
<1>13. CASE Crash(w)
  <2>1. Moves(w, Resting)
    BY <1>13, <1>1 DEF Crash, Moves, Process, Working, Resting
  <2>2. Resting.op = 0 /\ Resting.left = {}
    BY DEF Resting
  <2>3. stray' \in BOOLEAN /\ crashes' \in 0..MaxCrashes
    BY <1>13, <1>2, JournalBounds DEF Crash
  <2> QED
    BY <1>13, <1>1, <2>1, <2>2, <2>3, QuietStep DEF Crash
<1>14. ASSUME NEW m, Skip(w, m), UNCHANGED <<files, ops, stray, crashes, lock>>
      PROVE  JournalTyped' /\ Touches(w)
  <2> DEFINE left == proc[w].left \ {m}
             p == [proc[w] EXCEPT !.pc = IF left = {} THEN "visited" ELSE "recovering",
                                  !.op = 0, !.todo = {}, !.left = left]
  <2>1. Moves(w, p)
    BY <1>14, <1>1 DEF Skip, Moves, Process, Working
  <2> QED
    BY <1>14, <1>1, <1>2, <2>1, QuietStep DEF Process
<1>15. CASE FailRestore(w)
  <2>1. CASE Recovering(w)
    BY <1>14, <1>15, <2>1 DEF FailRestore
  <2>2. CASE ~Recovering(w)
    <3> DEFINE p == [proc[w] EXCEPT !.pc = "idle", !.op = 0, !.todo = {}]
    <3>1. Moves(w, p)
      BY <1>15, <1>1, <2>2 DEF FailRestore, Release, Moves, Process, Working
    <3> QED
      BY <1>15, <1>1, <1>2, <2>2, <3>1, QuietStep DEF FailRestore, Release, Process, Locked
  <2> QED
    BY <2>1, <2>2
<1>16. CASE Recover(w)
  <2>1. PICK m \in proc[w].left :
          IF Manifest \in ops[m].parts /\ Marker \in ops[m].parts
          THEN proc' = [proc EXCEPT ![w].pc = "sweeping", ![w].op = m]
          ELSE IF Manifest \in ops[m].parts /\ Backups(m) \subseteq ops[m].parts
          THEN proc' = [proc EXCEPT ![w].pc = "restoring", ![w].op = m, ![w].todo = Targets(m)]
          ELSE Skip(w, m)
    BY <1>16 DEF Recover
  <2>2. m \in DOMAIN ops /\ m \in Nat /\ Targets(m) \subseteq File
    BY <1>1, JournalTyping
  <2>3. UNCHANGED <<files, ops, stray, crashes, lock>>
    BY <1>16 DEF Recover
  <2> DEFINE r == [proc[w] EXCEPT !.pc = "restoring", !.op = m, !.todo = Targets(m)]
             q == [proc[w] EXCEPT !.pc = "sweeping", !.op = m]
  <2>4. CASE proc' = [proc EXCEPT ![w].pc = "sweeping", ![w].op = m]
    <3>1. Moves(w, q)
      BY <1>1, <2>2, <2>4 DEF Moves, Process, Working
    <3> QED
      BY <1>1, <1>2, <2>2, <2>3, <3>1, QuietStep DEF Process
  <2>5. CASE proc' = [proc EXCEPT ![w].pc = "restoring", ![w].op = m, ![w].todo = Targets(m)]
    <3>1. Moves(w, r)
      BY <1>1, <2>2, <2>5 DEF Moves, Process, Working
    <3> QED
      BY <1>1, <1>2, <2>2, <2>3, <3>1, QuietStep DEF Process
  <2> QED
    BY <1>14, <2>1, <2>3, <2>4, <2>5
<1> QED
  BY <1>3, <1>4, <1>5, <1>6, <1>7, <1>8, <1>9, <1>10, <1>11, <1>12, <1>13, <1>15, <1>16

\* Steps that change the record of the operation at hand, or a file of it.
LEMMA RecordStep ==
  ASSUME JournalTyped, NEW w \in Writer, NEW p, Moves(w, p), p.op = 0 \/ p.op = proc[w].op,
         p.left \subseteq proc[w].left, UNCHANGED <<files, stray, crashes>>,
         NEW r \in Save, proc[w].op # 0, ops' = [ops EXCEPT ![proc[w].op] = r],
         proc[w].pc \in Recording, lock' = lock \/ lock' = {}
  PROVE  /\ JournalTyped' /\ Touches(w)
         /\ DOMAIN ops' = DOMAIN ops /\ ops'[proc[w].op] = r
<1>1. proc[w].op \in DOMAIN ops
  BY JournalTyping
<1>2. /\ ops' \in Seq(Save) /\ Len(ops') = Len(ops) /\ DOMAIN ops' = DOMAIN ops
      /\ ops'[proc[w].op] = r /\ \A m \in DOMAIN ops \ {proc[w].op} : ops'[m] = ops[m]
  BY <1>1, OpsExcept DEF JournalTyped
<1>3. proc' \in [Writer -> Process] /\ proc'[w] = p /\ \A v \in Writer \ {w} : proc'[v] = proc[v]
  BY DEF Moves, JournalTyped
<1>4. \A v \in Writer : proc'[v].op \in 0..Len(ops') /\ proc'[v].left \subseteq DOMAIN ops'
  BY <1>2, <1>3, JournalTyping DEF JournalTyped
<1>5. JournalTyped'
  BY <1>2, <1>3, <1>4 DEF JournalTyped
<1>6. Touches(w)
  BY <1>2, <1>3 DEF Touches, Locked, Recording
<1> QED
  BY <1>2, <1>5, <1>6

\* A change of what is applied leaves the rest of the record alone.
LEMMA AppliedOnly ==
  ASSUME JournalTyped, NEW n \in DOMAIN ops, NEW S \in SUBSET File,
         ops' = [ops EXCEPT ![n].applied = S]
  PROVE  /\ ops' \in Seq(Save) /\ Len(ops') = Len(ops) /\ DOMAIN ops' = DOMAIN ops
         /\ \A m \in DOMAIN ops \ {n} : ops'[m] = ops[m]
         /\ \A m \in DOMAIN ops :
              /\ ops'[m].plan = ops[m].plan /\ ops'[m].old = ops[m].old /\ ops'[m].dir = ops[m].dir
              /\ ops'[m].parts = ops[m].parts /\ ops'[m].fate = ops[m].fate
              /\ ops'[m].late = ops[m].late /\ ops'[m].kept = ops[m].kept
         /\ ops'[n].applied = S
<1> DEFINE r == [ops[n] EXCEPT !.applied = S]
<1>1. ops[n] \in Save
  BY JournalTyping
<1>2. r \in Save
  BY <1>1 DEF Save
<1>3. /\ r.plan = ops[n].plan /\ r.old = ops[n].old /\ r.dir = ops[n].dir /\ r.parts = ops[n].parts
      /\ r.fate = ops[n].fate /\ r.late = ops[n].late /\ r.kept = ops[n].kept /\ r.applied = S
  BY <1>1 DEF Save
<1>4. ops' = [ops EXCEPT ![n] = r]
  OBVIOUS
<1> HIDE DEF r
<1>5. /\ ops' \in Seq(Save) /\ Len(ops') = Len(ops) /\ DOMAIN ops' = DOMAIN ops
      /\ ops'[n] = r /\ \A m \in DOMAIN ops \ {n} : ops'[m] = ops[m]
  BY <1>2, <1>4, OpsExcept DEF JournalTyped
<1> QED
  BY <1>3, <1>5

LEMMA FileStep ==
  ASSUME JournalTyped, NEW w \in Writer, NEW p, Moves(w, p), p.op = proc[w].op,
         p.left = proc[w].left, UNCHANGED <<lock, stray, crashes>>,
         NEW f \in File, NEW c \in Content, files' = [files EXCEPT ![f] = c],
         NEW S \in SUBSET File, proc[w].op # 0, ops' = [ops EXCEPT ![proc[w].op].applied = S],
         proc[w].pc \in {"applying", "restoring", "copied"}
  PROVE  JournalTyped' /\ Touches(w)
<1>1. proc' \in [Writer -> Process] /\ proc'[w] = p /\ \A v \in Writer \ {w} : proc'[v] = proc[v]
  BY DEF Moves, JournalTyped
<1>2. proc[w].op \in DOMAIN ops
  BY JournalTyping
<1>3. /\ ops' \in Seq(Save) /\ Len(ops') = Len(ops) /\ DOMAIN ops' = DOMAIN ops
      /\ \A m \in DOMAIN ops \ {proc[w].op} : ops'[m] = ops[m]
  BY <1>2, AppliedOnly
<1>4. JournalTyped'
  BY <1>1, <1>3 DEF JournalTyped
<1>5. Touches(w)
  BY <1>1, <1>3 DEF Touches, Recording
<1> QED
  BY <1>4, <1>5

LEMMA ProposeStep ==
  ASSUME JournalTyped, NEW w \in Writer, Propose(w)
  PROVE  /\ JournalTyped' /\ Touches(w)
         /\ DOMAIN ops = 1..Len(ops) /\ DOMAIN ops' = 1..Len(ops) + 1
         /\ \A n \in DOMAIN ops : ops'[n] = ops[n]
         /\ LET new == ops'[Len(ops) + 1]
            IN  /\ new.old = files /\ ~new.dir /\ new.parts = {} /\ new.fate = "open"
                /\ new.applied = {} /\ ~new.late
<1> DEFINE n == Len(ops) + 1
           p == [proc[w] EXCEPT !.pc = "checked", !.op = n]
<1>1. Len(ops) \in Nat /\ DOMAIN ops = 1..Len(ops) /\ Len(ops) < MaxSaves
  BY JournalTyping DEF Propose
<1>2. PICK targets \in SUBSET File :
          \E plan \in [targets -> {Absent, Len(ops) + 2} \cup {files[f] : f \in targets}] :
        ops' = Append(ops, [plan |-> plan, old |-> files, dir |-> FALSE, parts |-> {}, fate |-> "open",
                            applied |-> {}, late |-> FALSE, kept |-> FALSE])
  BY DEF Propose
<1>3. PICK plan \in [targets -> {Absent, Len(ops) + 2} \cup {files[f] : f \in targets}] :
        ops' = Append(ops, [plan |-> plan, old |-> files, dir |-> FALSE, parts |-> {}, fate |-> "open",
                            applied |-> {}, late |-> FALSE, kept |-> FALSE])
  BY <1>2
<1> DEFINE r == [plan |-> plan, old |-> files, dir |-> FALSE, parts |-> {}, fate |-> "open",
                 applied |-> {}, late |-> FALSE, kept |-> FALSE]
<1>4. r \in Save
  <2>1. {Absent, Len(ops) + 2} \cup {files[f] : f \in targets} \subseteq Content
    BY <1>1, JournalBounds DEF Content, Absent, JournalTyped
  <2>2. plan \in [targets -> Content]
    BY <2>1
  <2>3. plan \in UNION {[T -> Content] : T \in SUBSET File}
    BY <2>2
  <2> QED
    BY <2>3 DEF Save, JournalTyped
<1>5. /\ ops' \in Seq(Save) /\ Len(ops') = n /\ DOMAIN ops' = 1..n
      /\ ops'[n] = r /\ \A m \in DOMAIN ops : ops'[m] = ops[m]
  <2> HIDE DEF r
  <2> QED
    BY <1>3, <1>4, OpsAppend DEF JournalTyped, r
<1>6. Moves(w, p)
  BY <1>1, JournalTyping DEF Propose, Moves, JournalTyped, Process, Working
<1>7. proc' \in [Writer -> Process] /\ proc'[w] = p /\ \A v \in Writer \ {w} : proc'[v] = proc[v]
  BY <1>6 DEF Moves, JournalTyped
<1>8. proc[w] \in Process
  BY JournalTyping
<1>9. \A v \in Writer : proc'[v].op \in 0..Len(ops') /\ proc'[v].left \subseteq DOMAIN ops'
  <2>1. proc'[w].op = n /\ proc'[w].left = proc[w].left
    BY <1>7, <1>8 DEF Process
  <2>2. DOMAIN ops \subseteq DOMAIN ops' /\ Len(ops') = Len(ops) + 1
    BY <1>1, <1>5
  <2>3. \A v \in Writer : proc[v].op \in 0..Len(ops) /\ proc[v].left \subseteq DOMAIN ops
    BY DEF JournalTyped
  <2> SUFFICES ASSUME NEW v \in Writer
               PROVE  proc'[v].op \in 0..Len(ops') /\ proc'[v].left \subseteq DOMAIN ops'
    OBVIOUS
  <2>4. CASE v = w
    BY <1>1, <2>1, <2>2, <2>3, <2>4
  <2>5. CASE v # w
    BY <1>1, <1>7, <2>2, <2>3, <2>5
  <2> QED
    BY <2>4, <2>5
<1>10. JournalTyped'
  BY <1>1, <1>5, <1>7, <1>9, JournalBounds DEF Propose, JournalTyped
<1>11. Touches(w)
  BY <1>1, <1>5, <1>7 DEF Propose, Touches
<1> QED
  BY <1>1, <1>5, <1>10, <1>11

LEMMA LoudSteps ==
  ASSUME JournalInv, NEW w \in Writer,
         \/ OpenOperation(w) \/ Stage(w) \/ Apply(w) \/ MarkCommitted(w)
         \/ RenameBackup(w) \/ RemoveCreated(w) \/ Sweep(w) \/ Swept(w)
  PROVE  JournalTyped' /\ Touches(w)
<1> DEFINE n == proc[w].op
<1>1. JournalTyped /\ proc[w] \in Process /\ WriterSound(w)
  BY JournalTyping DEF JournalInv
<1>2. n # 0 /\ n \in DOMAIN ops
  BY <1>1, JournalTyping DEF OpenOperation, Stage, Apply, MarkCommitted, RenameBackup, RemoveCreated,
     Sweep, Swept, At, WriterSound, OpSound, Early
<1>3. ops[n] \in Save /\ Targets(n) \subseteq File /\ Targets(n) = DOMAIN ops[n].plan
  BY <1>1, <1>2, JournalTyping DEF Targets
<1>4. files \in [File -> Content] /\ Absent \in Content /\ proc \in [Writer -> Process]
  BY <1>1, JournalBounds DEF JournalTyped, Absent, Content
<1>5. CASE OpenOperation(w)
  <2> DEFINE r == [ops[n] EXCEPT !.dir = TRUE, !.late = Journal # {}]
             p == [proc[w] EXCEPT !.pc = "staging"]
  <2>1. r \in Save /\ ops' = [ops EXCEPT ![n] = r]
    BY <1>3, <1>5 DEF OpenOperation, Save
  <2>2. Moves(w, p) /\ p.op = n /\ p.left = proc[w].left
    BY <1>1, <1>4, <1>5 DEF OpenOperation, Become, Moves, Process, Working
  <2> HIDE DEF r, p
  <2> QED
    BY <1>1, <1>2, <1>5, <2>1, <2>2, RecordStep DEF OpenOperation, At, Recording
<1>6. CASE Stage(w)
  <2> DEFINE r == [ops[n] EXCEPT !.old = files, !.parts = {Manifest} \cup {Backup(f) : f \in BackedUp(n)}]
             p == [proc[w] EXCEPT !.pc = "applying", !.todo = Targets(n)]
  <2>1. r \in Save
    BY <1>3, <1>4 DEF Save, Part, BackedUp
  <2>2. ops' = [ops EXCEPT ![n] = r]
    BY <1>6 DEF Stage
  <2>3. Moves(w, p) /\ p.op = n /\ p.left = proc[w].left
    BY <1>1, <1>3, <1>4, <1>6 DEF Stage, Moves, Process, Working
  <2> HIDE DEF r, p
  <2> QED
    BY <1>1, <1>2, <1>6, <2>1, <2>2, <2>3, RecordStep DEF Stage, At, Recording
<1>7. CASE Apply(w)
  <2> DEFINE f == First(proc[w].todo)
             p == [proc[w] EXCEPT !.todo = proc[w].todo \ {f}]
  <2>1. f \in proc[w].todo /\ f \in Targets(n) /\ f \in File
    BY <1>1, <1>3, <1>7, FirstIsMember DEF Apply, WriterSound, Process, Plan, Op
  <2>2. ops[n].plan[f] \in Content
    BY <1>1, <1>2, <1>3, <2>1, JournalTyping
  <2>3. files' = [files EXCEPT ![f] = ops[n].plan[f]]
    BY <1>7 DEF Apply, Op
  <2>4. Moves(w, p) /\ p.op = n /\ p.left = proc[w].left
    BY <1>1, <1>4, <1>7 DEF Apply, Moves, Process
  <2>5. ops[n].applied \cup {f} \in SUBSET File /\ ops' = [ops EXCEPT ![n].applied = ops[n].applied \cup {f}]
    BY <1>2, <1>3, <1>7, <2>1 DEF Apply, Save
  <2> HIDE DEF f, p
  <2> QED
    BY <1>1, <1>2, <1>7, <2>1, <2>2, <2>3, <2>4, <2>5, FileStep DEF Apply, At
<1>8. CASE MarkCommitted(w)
  <2> DEFINE r == [ops[n] EXCEPT !.parts = ops[n].parts \cup {Marker}, !.fate = "committed"]
             p == [proc[w] EXCEPT !.pc = "sweeping"]
  <2>1. r \in Save
    BY <1>3 DEF Save, Part
  <2>2. ops' = [ops EXCEPT ![n] = r]
    BY <1>8 DEF MarkCommitted
  <2>3. Moves(w, p) /\ p.op = n /\ p.left = proc[w].left
    BY <1>1, <1>4, <1>8 DEF MarkCommitted, Become, Moves, Process, Working
  <2> HIDE DEF r, p
  <2> QED
    BY <1>1, <1>2, <1>8, <2>1, <2>2, <2>3, RecordStep DEF MarkCommitted, At, Recording
<1>9. CASE RenameBackup(w)
  <2> DEFINE f == Last(proc[w].todo)
             p == [proc[w] EXCEPT !.pc = "restoring", !.todo = proc[w].todo \ {f}]
  <2>1. f \in proc[w].todo /\ f \in Targets(n) /\ f \in File
    BY <1>1, <1>3, <1>9, LastIsMember DEF RenameBackup, WriterSound, Process, Plan, Op
  <2>2. ops[n].old[f] \in Content
    BY <1>3, <2>1 DEF Save
  <2>3. files' = [files EXCEPT ![f] = ops[n].old[f]]
    BY <1>9 DEF RenameBackup, Op
  <2>4. Moves(w, p) /\ p.op = n /\ p.left = proc[w].left
    BY <1>1, <1>4, <1>9 DEF RenameBackup, Moves, Process, Working
  <2>5. ops[n].applied \ {f} \in SUBSET File /\ ops' = [ops EXCEPT ![n].applied = ops[n].applied \ {f}]
    BY <1>2, <1>3, <1>9, <2>1 DEF RenameBackup, Save
  <2> HIDE DEF f, p
  <2> QED
    BY <1>1, <1>2, <1>9, <2>1, <2>2, <2>3, <2>4, <2>5, FileStep DEF RenameBackup, At
<1>10. CASE RemoveCreated(w)
  <2> DEFINE f == Last(proc[w].todo)
             p == [proc[w] EXCEPT !.todo = proc[w].todo \ {f}]
  <2>1. f \in proc[w].todo /\ f \in Targets(n) /\ f \in File
    BY <1>1, <1>3, <1>10, LastIsMember DEF RemoveCreated, WriterSound, Process, Plan, Op
  <2>2. PICK c \in Content : files' = [files EXCEPT ![f] = c]
    BY <1>4, <1>10 DEF RemoveCreated
  <2>3. Moves(w, p) /\ p.op = n /\ p.left = proc[w].left
    BY <1>1, <1>4, <1>10 DEF RemoveCreated, Moves, Process
  <2>4. ops[n].applied \ {f} \in SUBSET File /\ ops' = [ops EXCEPT ![n].applied = ops[n].applied \ {f}]
    BY <1>2, <1>3, <1>10, <2>1 DEF RemoveCreated, Save
  <2>5. proc[w].pc = "restoring" /\ UNCHANGED <<lock, stray, crashes>>
    BY <1>10 DEF RemoveCreated, At
  <2> HIDE DEF f, p
  <2> QED
    BY <1>1, <1>2, <2>1, <2>2, <2>3, <2>4, <2>5, FileStep
<1>11. CASE Sweep(w)
  <2>1. PICK part \in ops[n].parts : ops' = [ops EXCEPT ![n].parts = @ \ {part}]
    BY <1>11 DEF Sweep, Op
  <2> DEFINE r == [ops[n] EXCEPT !.parts = ops[n].parts \ {part}]
  <2>2. r \in Save
    BY <1>3 DEF Save
  <2>3. ops' = [ops EXCEPT ![n] = r]
    BY <2>1
  <2>4. Moves(w, proc[w])
    BY <1>1, <1>4, <1>11 DEF Sweep, Moves
  <2> HIDE DEF r
  <2> QED
    BY <1>1, <1>2, <1>11, <2>2, <2>3, <2>4, RecordStep DEF Sweep, At, Recording
<1>12. CASE Swept(w)
  <2> DEFINE gone == ops[n].parts = {}
             told == ~Recovering(w) /\ ops[n].fate = "committed"
             r == [ops[n] EXCEPT !.dir = ~gone, !.fate = IF told THEN "told" ELSE ops[n].fate,
                                 !.kept = IF told THEN Complete(n) ELSE ops[n].kept]
             left == proc[w].left \ {n}
             p == [proc[w] EXCEPT !.pc = IF left = {} THEN "visited" ELSE "recovering",
                                  !.op = 0, !.todo = {}, !.left = left]
             q == [proc[w] EXCEPT !.pc = "idle", !.op = 0,
                                  !.seen = IF told THEN files ELSE proc[w].seen]
  <2>1. r \in Save
    <3>1. Complete(n) \in BOOLEAN
      BY <1>3 DEF Complete, Save
    <3> QED
      BY <1>3, <3>1 DEF Save
  <2>2. ops' = [ops EXCEPT ![n] = r]
    BY <1>12 DEF Swept
  <2> HIDE DEF r
  <2>3. CASE Recovering(w)
    <3>1. Moves(w, p) /\ p.op = 0 /\ p.left \subseteq proc[w].left /\ lock' = lock
      BY <1>1, <1>4, <1>12, <2>3 DEF Swept, Skip, Moves, Process, Working
    <3> HIDE DEF p
    <3> QED
      BY <1>1, <1>2, <1>12, <2>1, <2>2, <3>1, RecordStep DEF Swept, At, Recording
  <2>4. CASE ~Recovering(w)
    <3>1. Moves(w, q) /\ q.op = 0 /\ q.left \subseteq proc[w].left /\ lock' = {}
      BY <1>1, <1>4, <1>12, <2>4 DEF Swept, Moves, Process, Working
    <3> HIDE DEF q
    <3> QED
      BY <1>1, <1>2, <1>12, <2>1, <2>2, <3>1, RecordStep DEF Swept, At, Recording
  <2> QED
    BY <2>3, <2>4
<1> QED
  BY <1>5, <1>6, <1>7, <1>8, <1>9, <1>10, <1>11, <1>12

LEMMA StepTyped ==
  ASSUME JournalInv, NEW w \in Writer, WriterStep(w)
  PROVE  JournalTyped' /\ Touches(w)
BY QuietSteps, LoudSteps, ProposeStep DEF WriterStep, JournalInv
-----------------------------------------------------------------------------
(***************************************************************************)
(* The invariant: how far each process has come                            *)
(***************************************************************************)

\* While a process holds the lock, nobody else changes a record or a file.
LEMMA LockExcludes ==
  ASSUME JournalInv, NEW w \in Writer, NEW v \in Writer \ {w}, Touches(w), proc[v].pc \in Locked
  PROVE  /\ lock' = lock /\ files' = files /\ \A n \in DOMAIN ops : ops'[n] = ops[n]
         /\ proc[w].pc \notin Locked
<1>1. lock = {v} /\ lock # {w} /\ lock # {}
  BY DEF JournalInv, WriterSound, Holding
<1>2. proc[w].pc \notin Locked
  BY <1>1 DEF JournalInv, WriterSound, Holding
<1> QED
  BY <1>1, <1>2 DEF Touches, Locked, Recording

LEMMA OthersSound ==
  ASSUME JournalInv, NEW w \in Writer, WriterStep(w), NEW v \in Writer \ {w}
  PROVE  WriterSound(v)'
<1>1. Touches(w) /\ JournalTyped /\ WriterSound(v) /\ WriterSound(w) /\ Distinct
  BY StepTyped DEF JournalInv
<1>2. proc'[v] = proc[v] /\ DOMAIN ops \subseteq DOMAIN ops'
  BY <1>1 DEF Touches
<1>3. proc[v].left \subseteq DOMAIN ops /\ (proc[v].op # 0 => proc[v].op \in DOMAIN ops)
  BY <1>1, JournalTyping DEF JournalTyped
<1>4. CASE proc[v].pc \in Locked
  <2>1. lock' = lock /\ files' = files /\ \A n \in DOMAIN ops : ops'[n] = ops[n]
    BY <1>1, <1>4, LockExcludes
  <2>2. proc[v].op # 0 => Op(v)' = Op(v) /\ (Complete(proc[v].op) => Complete(proc[v].op)')
    BY <1>2, <1>3, <2>1 DEF Op, Complete, Backups, Existed, Targets
  <2>3. OpSound(v)'
    BY <1>1, <1>2, <2>1, <2>2 DEF WriterSound, OpSound, Plan, Old, At
  <2>4. \A n \in proc'[v].left : ops'[n].dir
    BY <1>1, <1>2, <1>3, <2>1 DEF WriterSound
  <2>5. proc[v].todo # {} => Plan(v)' = Plan(v)
    BY <1>1, <2>2 DEF WriterSound, OpSound, Plan, At
  <2> QED
    BY <1>1, <1>2, <2>1, <2>3, <2>4, <2>5 DEF WriterSound, Holding, At
<1>5. CASE proc[v].pc \notin Locked
  <2>1. proc[v].todo = {} /\ proc[v].left = {}
    BY <1>1, <1>5 DEF WriterSound, Locked
  <2>2. CASE proc[v].pc = "checked"
    <3>1. proc[v].op # 0 /\ ~Op(v).dir
      BY <1>1, <2>2 DEF WriterSound, OpSound, Early
    <3>2. Op(v)' = Op(v)
      <4>1. proc[w].pc \in Recording => proc[v].op # proc[w].op
        BY <1>1, <2>2, <3>1 DEF Distinct, Early, WriterSound, OpSound, At, Op, Complete, Recording
      <4> QED
        BY <1>1, <1>2, <1>3, <3>1, <4>1 DEF Touches, Op
    <3> QED
      BY <1>1, <1>2, <2>1, <2>2, <3>2 DEF WriterSound, OpSound, Holding, Locked, Early, At, Old
  <2>3. CASE proc[v].pc # "checked"
    BY <1>1, <1>2, <1>5, <2>1, <2>3 DEF WriterSound, OpSound, Holding, Locked, Early, At
  <2> QED
    BY <2>2, <2>3
<1> QED
  BY <1>4, <1>5

\* What each step makes of the process that takes it.
Now(w, pc, op, todo, left) ==
  /\ proc'[w].pc = pc /\ proc'[w].op = op /\ proc'[w].todo = todo /\ proc'[w].left = left

LEMMA SkipAfter ==
  ASSUME JournalTyped, NEW w \in Writer, NEW m, Skip(w, m)
  PROVE  LET left == proc[w].left \ {m}
         IN  Now(w, IF left = {} THEN "visited" ELSE "recovering", 0, {}, left)
BY JournalTyping DEF Skip, Now, JournalTyped, Process

LEMMA ProcAfter ==
  ASSUME JournalTyped, NEW w \in Writer
  PROVE
    /\ FindNoJournal(w) => Now(w, "clear", proc[w].op, proc[w].todo, proc[w].left)
    /\ Load(w) => Now(w, "idle", proc[w].op, proc[w].todo, proc[w].left)
    /\ Propose(w) => Now(w, "checked", Len(ops) + 1, proc[w].todo, proc[w].left)
    /\ AcquireLock(w) => Now(w, "locked", proc[w].op, proc[w].todo, proc[w].left)
    /\ FindLocked(w) => Now(w, "idle", 0, proc[w].todo, proc[w].left)
    /\ OpenOperation(w) => Now(w, "staging", proc[w].op, proc[w].todo, proc[w].left)
    /\ Conflict(w) => Now(w, "idle", 0, {}, proc[w].left)
    /\ Stage(w) => Now(w, "applying", proc[w].op, Targets(proc[w].op), proc[w].left)
    /\ Apply(w) =>
         Now(w, "applying", proc[w].op, proc[w].todo \ {First(proc[w].todo)}, proc[w].left)
    /\ MarkCommitted(w) => Now(w, "sweeping", proc[w].op, proc[w].todo, proc[w].left)
    /\ Fail(w) =>
         Now(w, "restoring", proc[w].op,
             IF At(w, "staging") THEN {} ELSE Targets(proc[w].op) \ proc[w].todo, proc[w].left)
    /\ CopyBackup(w) => Now(w, "copied", proc[w].op, proc[w].todo, proc[w].left)
    /\ RenameBackup(w) =>
         Now(w, "restoring", proc[w].op, proc[w].todo \ {Last(proc[w].todo)}, proc[w].left)
    /\ RemoveCreated(w) =>
         Now(w, "restoring", proc[w].op, proc[w].todo \ {Last(proc[w].todo)}, proc[w].left)
    /\ AllRestored(w) => Now(w, "sweeping", proc[w].op, proc[w].todo, proc[w].left)
    /\ Sweep(w) => Now(w, "sweeping", proc[w].op, proc[w].todo, proc[w].left)
    /\ StartRecovery(w) => Now(w, "recovering", proc[w].op, proc[w].todo, Journal)
    /\ EndRecovery(w) => Now(w, IF Journal = {} THEN "clear" ELSE "idle", 0, {}, proc[w].left)
    /\ Crash(w) => Now(w, "idle", 0, {}, {})
    /\ Propose(w) \/ AcquireLock(w) => proc'[w].seen = proc[w].seen
    /\ FailRestore(w) =>
            IF Recovering(w) THEN Skip(w, proc[w].op) ELSE Now(w, "idle", 0, {}, proc[w].left)
    /\ Swept(w) =>
            IF Recovering(w) THEN Skip(w, proc[w].op) ELSE Now(w, "idle", 0, proc[w].todo, proc[w].left)
    /\ Recover(w) => \E m \in proc[w].left :
         IF Manifest \in ops[m].parts /\ Marker \in ops[m].parts
         THEN Now(w, "sweeping", m, proc[w].todo, proc[w].left)
         ELSE IF Manifest \in ops[m].parts /\ Backups(m) \subseteq ops[m].parts
         THEN Now(w, "restoring", m, Targets(m), proc[w].left)
         ELSE Skip(w, m)
<1>1. proc \in [Writer -> Process] /\ proc[w] \in Process
  BY JournalTyping DEF JournalTyped
<1>2. FindNoJournal(w) => Now(w, "clear", proc[w].op, proc[w].todo, proc[w].left)
  BY <1>1 DEF FindNoJournal, Become, Now, Process
<1>3. Load(w) => Now(w, "idle", proc[w].op, proc[w].todo, proc[w].left)
  BY <1>1 DEF Load, Now, Process
<1>4. Propose(w) => Now(w, "checked", Len(ops) + 1, proc[w].todo, proc[w].left)
  BY <1>1 DEF Propose, Now, Process
<1>5. AcquireLock(w) => Now(w, "locked", proc[w].op, proc[w].todo, proc[w].left)
  BY <1>1 DEF AcquireLock, Become, At, Now, Process
<1>6. FindLocked(w) => Now(w, "idle", 0, proc[w].todo, proc[w].left)
  BY <1>1 DEF FindLocked, Now, Process
<1>7. OpenOperation(w) => Now(w, "staging", proc[w].op, proc[w].todo, proc[w].left)
  BY <1>1 DEF OpenOperation, Become, Now, Process
<1>8. Conflict(w) => Now(w, "idle", 0, {}, proc[w].left)
  BY <1>1 DEF Conflict, Release, Now, Process
<1>9. Stage(w) => Now(w, "applying", proc[w].op, Targets(proc[w].op), proc[w].left)
  BY <1>1 DEF Stage, Now, Process
<1>10. Apply(w) => Now(w, "applying", proc[w].op, proc[w].todo \ {First(proc[w].todo)}, proc[w].left)
  BY <1>1 DEF Apply, At, Now, Process
<1>11. MarkCommitted(w) => Now(w, "sweeping", proc[w].op, proc[w].todo, proc[w].left)
  BY <1>1 DEF MarkCommitted, Become, Now, Process
<1>12. Fail(w) =>
        Now(w, "restoring", proc[w].op,
            IF At(w, "staging") THEN {} ELSE Targets(proc[w].op) \ proc[w].todo, proc[w].left)
  BY <1>1 DEF Fail, Now, Process
<1>13. CopyBackup(w) => Now(w, "copied", proc[w].op, proc[w].todo, proc[w].left)
  BY <1>1 DEF CopyBackup, Become, Now, Process
<1>14. RenameBackup(w) =>
        Now(w, "restoring", proc[w].op, proc[w].todo \ {Last(proc[w].todo)}, proc[w].left)
  BY <1>1 DEF RenameBackup, Now, Process
<1>15. RemoveCreated(w) =>
        Now(w, "restoring", proc[w].op, proc[w].todo \ {Last(proc[w].todo)}, proc[w].left)
  BY <1>1 DEF RemoveCreated, At, Now, Process
<1>16. AllRestored(w) => Now(w, "sweeping", proc[w].op, proc[w].todo, proc[w].left)
  BY <1>1 DEF AllRestored, Become, Now, Process
<1>17. Sweep(w) => Now(w, "sweeping", proc[w].op, proc[w].todo, proc[w].left)
  BY <1>1 DEF Sweep, At, Now, Process
<1>18. StartRecovery(w) => Now(w, "recovering", proc[w].op, proc[w].todo, Journal)
  BY <1>1 DEF StartRecovery, Now, Process
<1>19. EndRecovery(w) => Now(w, IF Journal = {} THEN "clear" ELSE "idle", 0, {}, proc[w].left)
  <2> DEFINE phase == IF Journal = {} THEN "clear" ELSE "idle"
  <2>1. EndRecovery(w) => Release(w, phase)
    BY DEF EndRecovery
  <2> HIDE DEF phase
  <2>2. EndRecovery(w) => Now(w, phase, 0, {}, proc[w].left)
    BY <1>1, <2>1 DEF Release, Now, Process
  <2> QED
    BY <2>2 DEF phase
<1>20. Crash(w) => Now(w, "idle", 0, {}, {})
  BY <1>1 DEF Crash, Resting, Now, Process
<1>21. Propose(w) \/ AcquireLock(w) => proc'[w].seen = proc[w].seen
  BY <1>1 DEF Propose, AcquireLock, Become, Process
<1>22. FailRestore(w) =>
        IF Recovering(w) THEN Skip(w, proc[w].op) ELSE Now(w, "idle", 0, {}, proc[w].left)
  BY <1>1 DEF FailRestore, Release, Now, Process
<1>23. Swept(w) =>
        IF Recovering(w) THEN Skip(w, proc[w].op) ELSE Now(w, "idle", 0, proc[w].todo, proc[w].left)
  <2>1. ASSUME Swept(w), ~Recovering(w)
        PROVE  Now(w, "idle", 0, proc[w].todo, proc[w].left)
    <3>1. \E seen : proc' = [proc EXCEPT ![w].pc = "idle", ![w].op = 0, ![w].seen = seen]
      BY <2>1 DEF Swept
    <3> QED
      BY <1>1, <3>1 DEF Now, Process
  <2>2. Swept(w) /\ Recovering(w) => Skip(w, proc[w].op)
    BY DEF Swept
  <2> QED
    BY <2>1, <2>2
<1>24. ASSUME Recover(w)
      PROVE  \E m \in proc[w].left :
         IF Manifest \in ops[m].parts /\ Marker \in ops[m].parts
         THEN Now(w, "sweeping", m, proc[w].todo, proc[w].left)
         ELSE IF Manifest \in ops[m].parts /\ Backups(m) \subseteq ops[m].parts
         THEN Now(w, "restoring", m, Targets(m), proc[w].left)
         ELSE Skip(w, m)
  BY <1>1, <1>24 DEF Recover, Now, Process
<1> QED
  BY <1>2, <1>3, <1>4, <1>5, <1>6, <1>7, <1>8, <1>9, <1>10, <1>11, <1>12, <1>13, <1>14, <1>15,
     <1>16, <1>17, <1>18, <1>19, <1>20, <1>21, <1>22, <1>23, <1>24

LEMMA OthersDistinct ==
  ASSUME JournalInv, NEW w \in Writer, WriterStep(w)
  PROVE  Distinct'
<1>1. Touches(w) /\ JournalTyped /\ Distinct /\ proc[w] \in Process /\ proc \in [Writer -> Process]
  BY StepTyped, JournalTyping DEF JournalInv, JournalTyped
<1>2. \A u \in Writer : proc[u].op \in 0..Len(ops) /\ Len(ops) \in Nat
  BY <1>1, JournalTyping DEF JournalTyped
<1>3. \/ proc'[w].pc \notin Early
      \/ proc[w].pc \in Early /\ proc'[w].op = proc[w].op
      \/ proc'[w].op = Len(ops) + 1
  <2>1. CASE AcquireLock(w)
    BY <1>1, <2>1, ProcAfter DEF AcquireLock, At, Early, Now
  <2>2. CASE FailRestore(w) \/ Recover(w) \/ Swept(w)
    BY <1>1, <2>2, ProcAfter, SkipAfter DEF Now, Early
  <2> QED
    BY <1>1, <2>1, <2>2, ProcAfter DEF WriterStep, Now, Early
<1>4. \A v \in Writer \ {w} : proc'[v] = proc[v]
  BY <1>1 DEF Touches
<1> QED
  BY <1>1, <1>2, <1>3, <1>4 DEF Distinct

\* A process at rest, before or after an operation.
LEMMA RestingSound ==
  ASSUME NEW w \in Writer, proc'[w].pc \in {"idle", "clear"}, proc'[w].todo = {}, proc'[w].left = {}
  PROVE  WriterSound(w)'
BY DEF WriterSound, OpSound, Holding, Locked, Early, At

LEMMA SkipSound ==
  ASSUME JournalInv, NEW w \in Writer, NEW m, Skip(w, m), proc[w].pc \in Locked, lock' = lock,
         \A n \in DOMAIN ops \ {m} : ops'[n] = ops[n]
  PROVE  WriterSound(w)'
<1>1. JournalTyped /\ WriterSound(w)
  BY DEF JournalInv
<1>2. proc[w].left \subseteq DOMAIN ops
  BY <1>1 DEF JournalTyped
<1> DEFINE left == proc[w].left \ {m}
<1>3. Now(w, IF left = {} THEN "visited" ELSE "recovering", 0, {}, left)
  BY <1>1, SkipAfter
<1>4. \A n \in left : ops'[n].dir
  BY <1>1, <1>2 DEF WriterSound
<1>5. lock' = {w}
  BY <1>1 DEF WriterSound, Holding
<1>6. CASE left = {}
  BY <1>3, <1>4, <1>5, <1>6 DEF Now, WriterSound, OpSound, Holding, Locked, Early, At
<1>7. CASE left # {}
  BY <1>3, <1>4, <1>5, <1>7 DEF Now, WriterSound, OpSound, Holding, Locked, Early, At
<1> QED
  BY <1>6, <1>7

LEMMA CheckingSound ==
  ASSUME JournalInv, NEW w \in Writer,
         \/ FindNoJournal(w) \/ Load(w) \/ Propose(w) \/ AcquireLock(w) \/ FindLocked(w)
         \/ Conflict(w) \/ Crash(w)
  PROVE  WriterSound(w)'
<1>1. JournalTyped /\ WriterSound(w)
  BY DEF JournalInv
<1>2. CASE FindNoJournal(w) \/ Load(w) \/ FindLocked(w) \/ Conflict(w) \/ Crash(w)
  <2>1. proc[w].pc \in {"idle", "clear", "checked", "locked"} => proc[w].todo = {} /\ proc[w].left = {}
    BY <1>1 DEF WriterSound
  <2>2. Crash(w) \/ proc[w].pc \in {"idle", "clear", "checked", "locked"}
    BY <1>2 DEF FindNoJournal, Load, FindLocked, Conflict, At
  <2>3. proc'[w].pc \in {"idle", "clear"} /\ proc'[w].todo = {} /\ proc'[w].left = {}
    BY <1>1, <1>2, <2>1, <2>2, ProcAfter DEF Now
  <2> QED
    BY <2>3, RestingSound
<1>3. CASE Propose(w)
  <2> DEFINE n == Len(ops) + 1
  <2>1. Now(w, "checked", n, {}, {}) /\ proc'[w].seen = files /\ n # 0
    <3>1. proc[w].todo = {} /\ proc[w].left = {}
      BY <1>1, <1>3 DEF WriterSound, Propose, At
    <3>2. proc[w].seen = files
      BY <1>3 DEF Propose
    <3>3. n # 0
      BY <1>1, JournalTyping
    <3>4. Now(w, "checked", n, proc[w].todo, proc[w].left) /\ proc'[w].seen = proc[w].seen
      BY <1>1, <1>3, ProcAfter
    <3> QED
      BY <3>1, <3>2, <3>3, <3>4
  <2>2. LET new == ops'[n]
        IN  /\ new.old = files /\ ~new.dir /\ new.parts = {} /\ new.fate = "open"
            /\ new.applied = {} /\ ~new.late
    BY <1>1, <1>3, ProposeStep
  <2> HIDE DEF n
  <2> QED
    BY <2>1, <2>2 DEF Now, WriterSound, OpSound, Holding, Locked, Early, At, Op, Old
<1>4. CASE AcquireLock(w)
  <2>1. Now(w, "locked", proc[w].op, {}, {}) /\ proc'[w].seen = proc[w].seen /\ lock' = {w} /\ ops' = ops
    BY <1>1, <1>4, ProcAfter DEF AcquireLock, At, WriterSound
  <2>2. OpSound(w) /\ proc[w].pc = "checked"
    BY <1>1, <1>4 DEF WriterSound, AcquireLock, At
  <2> QED
    BY <2>1, <2>2 DEF Now, WriterSound, OpSound, Holding, Locked, Early, At, Op, Old
<1> QED
  BY <1>2, <1>3, <1>4

LEMMA OpenSound ==
  ASSUME JournalInv, NEW w \in Writer, OpenOperation(w)
  PROVE  WriterSound(w)'
<1> DEFINE n == proc[w].op
<1>1. JournalTyped /\ WriterSound(w) /\ proc[w].pc = "locked"
  BY DEF JournalInv, OpenOperation, At
<1>2. n \in DOMAIN ops /\ n # 0 /\ ops[n] \in Save
  BY <1>1, JournalTyping DEF WriterSound, OpSound, Early
<1>3. Now(w, "staging", n, {}, {}) /\ lock' = {w} /\ files' = files
  BY <1>1, ProcAfter DEF WriterSound, Holding, Locked, OpenOperation
<1>4. /\ ops'[n].dir /\ ops'[n].fate = ops[n].fate /\ ops'[n].parts = ops[n].parts
      /\ ops'[n].old = ops[n].old /\ ops'[n].applied = ops[n].applied
  BY <1>1, <1>2 DEF OpenOperation, Save, JournalTyped
<1>5. ops[n].fate = "open" /\ ops[n].parts = {} /\ ops[n].old = files /\ ops[n].applied = {}
  BY <1>1 DEF WriterSound, OpSound, Early, Op, Old, OpenOperation
<1> HIDE DEF n
<1> QED
  BY <1>2, <1>3, <1>4, <1>5 DEF Now, WriterSound, OpSound, Holding, Early, At, Op, Old

LEMMA StageSound ==
  ASSUME JournalInv, NEW w \in Writer, Stage(w), NEW n, n = proc[w].op
  PROVE  /\ WriterSound(w)'
         /\ Backups(n)' = {Backup(f) : f \in BackedUp(n)} /\ Manifest \in ops'[n].parts
         /\ Backups(n)' \subseteq ops'[n].parts /\ Marker \notin ops'[n].parts
<1> DEFINE backups == {Backup(f) : f \in BackedUp(n)}
<1>1. JournalTyped /\ WriterSound(w) /\ proc[w].pc = "staging"
  BY DEF JournalInv, Stage, At
<1>2. n \in DOMAIN ops /\ n # 0 /\ ops[n] \in Save
  BY <1>1, JournalTyping DEF WriterSound, OpSound, At
<1>3. Now(w, "applying", n, Targets(n), {}) /\ lock' = {w} /\ files' = files
  BY <1>1, ProcAfter DEF WriterSound, OpSound, Holding, Locked, Stage, At
<1>4. /\ ops'[n].dir = ops[n].dir /\ ops'[n].fate = ops[n].fate /\ ops'[n].plan = ops[n].plan
      /\ ops'[n].parts = {Manifest} \cup backups /\ ops'[n].old = files
      /\ ops'[n].applied = ops[n].applied
  BY <1>1, <1>2 DEF Stage, Save, JournalTyped
<1>5. ops[n].fate = "open" /\ ops[n].dir /\ ops[n].applied = {}
  BY <1>1 DEF WriterSound, OpSound, Op, At
<1>6. Targets(n) = DOMAIN ops[n].plan
  BY DEF Targets
<1>7. Backups(n)' = backups
  BY <1>4 DEF Backups, Existed, BackedUp, Targets
<1>8. Marker \notin ops'[n].parts
  BY <1>4 DEF Marker, Manifest, Backup
<1>9. Complete(n)'
  BY <1>4, <1>5, <1>7 DEF Complete
<1> HIDE DEF backups
<1> QED
  BY <1>2, <1>3, <1>4, <1>5, <1>6, <1>7, <1>8, <1>9
  DEF Now, WriterSound, OpSound, Holding, Early, At, Op, Old, Plan, backups

LEMMA ApplySound ==
  ASSUME JournalInv, NEW w \in Writer, Apply(w), NEW n, n = proc[w].op
  PROVE  /\ WriterSound(w)' /\ n \in DOMAIN ops /\ Complete(n) /\ Marker \notin ops[n].parts
         /\ \E S \in SUBSET File : ops' = [ops EXCEPT ![n].applied = S]
<1> DEFINE f == First(proc[w].todo)
           todo == proc[w].todo \ {f}
           S == ops[n].applied \cup {f}
<1>1. JournalTyped /\ WriterSound(w) /\ proc[w].pc = "applying" /\ UNCHANGED lock
  BY DEF JournalInv, Apply, At
<1>2. /\ n \in DOMAIN ops /\ n # 0 /\ Targets(n) \subseteq File /\ Targets(n) = DOMAIN ops[n].plan
      /\ ops[n] \in Save
  BY <1>1, JournalTyping DEF WriterSound, OpSound, At, Targets
<1>3. f \in proc[w].todo /\ f \in Targets(n) /\ proc[w].todo \subseteq Targets(n)
  BY <1>1, <1>2, FirstIsMember DEF Apply, WriterSound, Plan, Op
<1>4. Now(w, "applying", n, todo, {}) /\ lock' = {w}
  BY <1>1, ProcAfter DEF WriterSound, Holding, Locked
<1>5. files' = [files EXCEPT ![f] = ops[n].plan[f]] /\ files \in [File -> Content]
  BY <1>1 DEF Apply, Op, JournalTyped
<1>6. /\ ops[n].fate = "open" /\ Complete(n) /\ Marker \notin ops[n].parts
      /\ ops[n].applied = Targets(n) \ proc[w].todo
      /\ \A g \in File :
           files[g] = IF g \in Targets(n) \ proc[w].todo THEN ops[n].plan[g] ELSE ops[n].old[g]
  BY <1>1, <1>2 DEF WriterSound, OpSound, At, Op, Plan, Old
<1>7. S \in SUBSET File /\ ops' = [ops EXCEPT ![n].applied = S]
  BY <1>2, <1>3 DEF Apply, Save
<1> HIDE DEF f
<1>8. \A g \in File :
        files'[g] = IF g \in Targets(n) \ todo THEN ops[n].plan[g] ELSE ops[n].old[g]
  BY <1>2, <1>3, <1>5, <1>6
<1>9. S = Targets(n) \ todo
  BY <1>3, <1>6
<1> HIDE DEF todo, S
<1>10. /\ ops'[n].plan = ops[n].plan /\ ops'[n].old = ops[n].old /\ ops'[n].dir = ops[n].dir
       /\ ops'[n].parts = ops[n].parts /\ ops'[n].fate = ops[n].fate /\ ops'[n].applied = S
  <2>1. JournalTyped /\ n \in DOMAIN ops
    BY <1>1, <1>2
  <2> QED
    BY <1>7, <2>1, AppliedOnly
<1>11. Complete(n)'
  BY <1>6, <1>10 DEF Complete, Backups, Existed, Targets
<1>12. todo \subseteq DOMAIN ops[n].plan
  BY <1>2, <1>3 DEF todo
<1>13. WriterSound(w)'
  BY <1>2, <1>4, <1>6, <1>8, <1>9, <1>10, <1>11, <1>12
  DEF Now, WriterSound, OpSound, Holding, Early, At, Op, Old, Plan
<1> QED
  BY <1>2, <1>6, <1>7, <1>13

LEMMA CommitSound ==
  ASSUME JournalInv, NEW w \in Writer, MarkCommitted(w), NEW n, n = proc[w].op
  PROVE  /\ WriterSound(w)' /\ n \in DOMAIN ops
         /\ Complete(n) /\ Marker \notin ops[n].parts /\ ops[n].fate = "open"
         /\ ops'[n].applied = Targets(n)' /\ ops'[n].dir = ops[n].dir /\ ops'[n].old = ops[n].old
         /\ ops'[n].plan = ops[n].plan /\ ops'[n].late = ops[n].late
         /\ ops' = [ops EXCEPT ![n] = [ops[n] EXCEPT !.parts = ops[n].parts \cup {Marker},
                                                    !.fate = "committed"]]
         /\ ops'[n].parts = ops[n].parts \cup {Marker} /\ ops'[n].fate = "committed"
         /\ \A f \in File : files[f] = IF f \in Targets(n) THEN ops[n].plan[f] ELSE ops[n].old[f]
<1>1. JournalTyped /\ WriterSound(w) /\ proc[w].pc = "applying" /\ proc[w].todo = {}
  BY DEF JournalInv, MarkCommitted, At
<1>2. n \in DOMAIN ops /\ n # 0 /\ ops[n] \in Save /\ Targets(n) \subseteq File
  BY <1>1, JournalTyping DEF WriterSound, OpSound, At
<1>3. Now(w, "sweeping", n, {}, {}) /\ lock' = {w} /\ files' = files
  BY <1>1, ProcAfter DEF WriterSound, Holding, Locked, MarkCommitted
<1>4. ops' = [ops EXCEPT ![n] = [ops[n] EXCEPT !.parts = ops[n].parts \cup {Marker},
                                              !.fate = "committed"]]
  BY DEF MarkCommitted
<1>5. /\ ops'[n].dir = ops[n].dir /\ ops'[n].fate = "committed" /\ ops'[n].plan = ops[n].plan
      /\ ops'[n].parts = ops[n].parts \cup {Marker} /\ ops'[n].old = ops[n].old
      /\ ops'[n].applied = ops[n].applied /\ ops'[n].late = ops[n].late
  BY <1>1, <1>2, <1>4 DEF Save, JournalTyped
<1>6. /\ ops[n].fate = "open" /\ Complete(n) /\ Marker \notin ops[n].parts
      /\ ops[n].applied = Targets(n)
      /\ \A f \in File : files[f] = IF f \in Targets(n) THEN ops[n].plan[f] ELSE ops[n].old[f]
  BY <1>1, <1>2 DEF WriterSound, OpSound, At, Op, Plan, Old, Targets
<1>7. ops[n].dir
  BY <1>6 DEF Complete
<1>8. \A f \in DOMAIN ops'[n].plan : files'[f] = ops'[n].plan[f]
  BY <1>2, <1>3, <1>5, <1>6 DEF Targets
<1>9. ops'[n].applied = DOMAIN ops'[n].plan
  BY <1>5, <1>6 DEF Targets
<1>10. WriterSound(w)'
  BY <1>2, <1>3, <1>5, <1>7, <1>8, <1>9
  DEF Now, WriterSound, OpSound, Holding, Early, At, Op, Old, Plan
<1>11. Targets(n)' = Targets(n)
  BY <1>5 DEF Targets
<1> QED
  BY <1>2, <1>4, <1>5, <1>6, <1>10, <1>11

LEMMA FailSound ==
  ASSUME JournalInv, NEW w \in Writer, Fail(w), NEW n, n = proc[w].op
  PROVE  WriterSound(w)'
<1> DEFINE todo == IF At(w, "staging") THEN {} ELSE Targets(n) \ proc[w].todo
<1>1. JournalTyped /\ WriterSound(w) /\ UNCHANGED <<ops, lock, files>>
  BY DEF JournalInv, Fail
<1>2. proc[w].pc \in {"staging", "applying"}
  BY DEF Fail
<1>3. n # 0 /\ n \in DOMAIN ops /\ proc[w].left = {} /\ ops[n].fate = "open" /\ Marker \notin ops[n].parts
      /\ ops[n].dir
  BY <1>1, <1>2, JournalTyping DEF WriterSound, OpSound, At, Op, Complete
<1>4. Now(w, "restoring", n, todo, {}) /\ lock' = {w}
  BY <1>1, <1>2, <1>3, ProcAfter DEF WriterSound, Holding, Locked
<1>5. todo # {} => Complete(n)'
  <2>1. todo # {} => Complete(n)
    BY <1>1, <1>2 DEF WriterSound, OpSound, At
  <2> QED
    BY <1>1, <2>1 DEF Complete, Backups, Existed, Targets
<1>6. \A f \in Targets(n) \ todo : files[f] = ops[n].old[f]
  <2>1. CASE At(w, "staging")
    BY <1>1, <2>1 DEF WriterSound, OpSound, Op, Old
  <2>2. CASE At(w, "applying")
    <3>1. Targets(n) \subseteq File
      BY <1>1, <1>3, JournalTyping
    <3>2. Targets(n) \ todo \subseteq proc[w].todo
      BY <2>2 DEF At
    <3> QED
      BY <1>1, <2>2, <3>1, <3>2 DEF WriterSound, OpSound, Op, Old, Plan
  <2> QED
    BY <1>2, <2>1, <2>2 DEF At
<1>7. todo \subseteq DOMAIN ops[n].plan /\ Targets(n) = DOMAIN ops[n].plan
  BY DEF Targets
<1>8. ops[n].applied \subseteq todo
  BY <1>1, <1>2, <1>7 DEF WriterSound, OpSound, At, Op, Plan
<1> HIDE DEF todo
<1> QED
  BY <1>1, <1>3, <1>4, <1>5, <1>6, <1>7, <1>8
  DEF Now, WriterSound, OpSound, Holding, Early, At, Op, Old, Plan

\* What is known of a process that restores.
LEMMA Restoring ==
  ASSUME JournalInv, NEW w \in Writer, proc[w].pc \in {"restoring", "copied"}, NEW n, n = proc[w].op
  PROVE  /\ n # 0 /\ n \in DOMAIN ops /\ ops[n] \in Save /\ ops[n].dir /\ Marker \notin ops[n].parts
         /\ proc[w].todo # {} => Complete(n)
         /\ \A f \in Targets(n) \ proc[w].todo : files[f] = ops[n].old[f]
         /\ proc[w].left = {} => ops[n].fate = "open"
         /\ proc[w].left # {} => n \in proc[w].left
         /\ \A m \in proc[w].left : ops[m].dir
         /\ ops[n].applied \subseteq proc[w].todo
         /\ proc[w].todo \subseteq Targets(n) /\ Targets(n) \subseteq File
         /\ Targets(n) = DOMAIN ops[n].plan
         /\ lock = {w} /\ JournalTyped
<1>1. JournalTyped /\ WriterSound(w)
  BY DEF JournalInv
<1>2. /\ n # 0 /\ Op(w) = ops[n] /\ lock = {w} /\ Targets(n) = DOMAIN ops[n].plan
      /\ Plan(w) = ops[n].plan /\ Old(w) = ops[n].old
  BY <1>1 DEF WriterSound, OpSound, Holding, Locked, Op, Plan, Old, Targets
<1>3. n \in DOMAIN ops /\ ops[n] \in Save /\ Targets(n) \subseteq File
  BY <1>1, <1>2, JournalTyping
<1>4. proc[w].todo \subseteq Targets(n)
  BY <1>1, <1>2 DEF WriterSound
<1> QED
  BY <1>1, <1>2, <1>3, <1>4 DEF WriterSound, OpSound

LEMMA StillRestoring ==
  ASSUME NEW w \in Writer, NEW n, n # 0, NEW todo, NEW left, NEW phase \in {"restoring", "copied"},
         Now(w, phase, n, todo, left), lock' = {w},
         ops[n].dir, Marker \notin ops[n].parts,
         \A m \in left \cup {n} :
           /\ ops'[m].plan = ops[m].plan /\ ops'[m].old = ops[m].old /\ ops'[m].dir = ops[m].dir
           /\ ops'[m].parts = ops[m].parts /\ ops'[m].fate = ops[m].fate,
         ops'[n].applied \subseteq todo,
         todo # {} => Complete(n), todo \subseteq Targets(n),
         \A f \in Targets(n) \ todo : files'[f] = ops[n].old[f],
         left = {} => ops[n].fate = "open", left # {} => n \in left,
         \A m \in left : ops[m].dir, phase = "copied" => todo # {}
  PROVE  WriterSound(w)'
<1>1. /\ ops'[n].plan = ops[n].plan /\ ops'[n].old = ops[n].old /\ ops'[n].dir = ops[n].dir
      /\ ops'[n].parts = ops[n].parts /\ ops'[n].fate = ops[n].fate
  OBVIOUS
<1>2. todo # {} => Complete(n)'
  BY <1>1 DEF Complete, Backups, Existed, Targets
<1>3. \A m \in left : ops'[m].dir
  OBVIOUS
<1>4. /\ proc'[w].pc = phase /\ proc'[w].op = n /\ proc'[w].todo = todo /\ proc'[w].left = left
      /\ Op(w)' = ops'[n] /\ Plan(w)' = ops[n].plan /\ Old(w)' = ops[n].old
  BY <1>1 DEF Now, Op, Plan, Old
<1>5. OpSound(w)'
  BY <1>1, <1>2, <1>4 DEF OpSound, Early, At, Targets
<1> QED
  BY <1>3, <1>4, <1>5 DEF WriterSound, Holding, At, Targets

LEMMA RestoreSound ==
  ASSUME JournalInv, NEW w \in Writer, CopyBackup(w) \/ RenameBackup(w) \/ RemoveCreated(w),
         NEW n, n = proc[w].op
  PROVE  /\ WriterSound(w)' /\ n \in DOMAIN ops /\ Complete(n) /\ Marker \notin ops[n].parts
         /\ ops' = ops \/ \E S \in SUBSET File : ops' = [ops EXCEPT ![n].applied = S]
<1> DEFINE f == Last(proc[w].todo)
           S == ops[n].applied \ {f}
<1>1. PICK todo, left : todo = proc[w].todo /\ left = proc[w].left
  OBVIOUS
<1>2. /\ proc[w].pc \in {"restoring", "copied"} /\ proc[w].todo # {} /\ UNCHANGED lock
  BY DEF CopyBackup, RenameBackup, RemoveCreated, At, JournalInv, WriterSound
<1>3. /\ n \in DOMAIN ops /\ Complete(n) /\ Marker \notin ops[n].parts /\ ops[n] \in Save
      /\ JournalTyped /\ ops[n].applied \subseteq todo
  BY <1>1, <1>2, Restoring
<1>4. CASE CopyBackup(w)
  <2>1. Now(w, "copied", n, todo, left) /\ files' = files /\ ops' = ops
    BY <1>1, <1>2, <1>4, ProcAfter DEF CopyBackup, JournalInv
  <2> QED
    BY <1>1, <1>2, <1>3, <2>1, Restoring, StillRestoring
<1>5. CASE RenameBackup(w) \/ RemoveCreated(w)
  <2>1. Now(w, "restoring", n, todo \ {f}, left)
    BY <1>1, <1>5, ProcAfter DEF JournalInv
  <2>2. f \in todo /\ f \in Targets(n) /\ f \in File
    BY <1>1, <1>2, Restoring, LastIsMember
  <2>3. files' = [files EXCEPT ![f] = ops[n].old[f]] /\ files \in [File -> Content]
    <3>1. CASE RenameBackup(w)
      BY <1>1, <3>1 DEF RenameBackup, Op, JournalInv, JournalTyped
    <3>2. CASE RemoveCreated(w)
      <4>1. f \notin Existed(n) /\ files' = [files EXCEPT ![f] = Absent]
        BY <1>1, <3>2 DEF RemoveCreated
      <4> QED
        BY <2>2, <4>1 DEF Existed, JournalInv, JournalTyped
    <3> QED
      BY <1>5, <3>1, <3>2
  <2>4. S \in SUBSET File /\ ops' = [ops EXCEPT ![n].applied = S]
    BY <1>3, <1>5 DEF RenameBackup, RemoveCreated, Save
  <2>5. S \subseteq todo \ {f}
    BY <1>3
  <2> HIDE DEF f, S
  <2>6. \A g \in Targets(n) \ (todo \ {f}) : files'[g] = ops[n].old[g]
    BY <1>1, <1>2, <2>2, <2>3, Restoring
  <2>7. /\ \A m \in DOMAIN ops :
             /\ ops'[m].plan = ops[m].plan /\ ops'[m].old = ops[m].old /\ ops'[m].dir = ops[m].dir
             /\ ops'[m].parts = ops[m].parts /\ ops'[m].fate = ops[m].fate
        /\ ops'[n].applied = S
    BY <1>3, <2>4, AppliedOnly
  <2>8. left \cup {n} \subseteq DOMAIN ops
    BY <1>1, <1>3 DEF JournalTyped
  <2>9. WriterSound(w)'
    <3> DEFINE rest == todo \ {f}
    <3>1. Now(w, "restoring", n, rest, left) /\ S \subseteq rest
      BY <2>1, <2>5
    <3>2. /\ n # 0 /\ ops[n].dir /\ (left = {} => ops[n].fate = "open") /\ (left # {} => n \in left)
          /\ (\A m \in left : ops[m].dir) /\ lock' = {w} /\ rest \subseteq Targets(n)
      BY <1>1, <1>2, Restoring
    <3>3. \A g \in Targets(n) \ rest : files'[g] = ops[n].old[g]
      BY <2>6
    <3> HIDE DEF rest
    <3> QED
      BY <1>3, <2>7, <2>8, <3>1, <3>2, <3>3, StillRestoring
  <2> QED
    BY <1>3, <2>4, <2>9
<1> QED
  BY <1>4, <1>5

LEMMA RestoreEndSound ==
  ASSUME JournalInv, NEW w \in Writer, AllRestored(w) \/ FailRestore(w)
  PROVE  WriterSound(w)'
<1>1. PICK n, left : n = proc[w].op /\ left = proc[w].left
  OBVIOUS
<1>2. JournalTyped /\ proc[w].pc \in {"restoring", "copied"} /\ UNCHANGED <<ops, files>>
  BY DEF AllRestored, FailRestore, At, JournalInv
<1>3. CASE AllRestored(w)
  <2>1. Now(w, "sweeping", n, {}, left) /\ lock' = lock /\ proc[w].todo = {}
    BY <1>1, <1>2, <1>3, ProcAfter DEF AllRestored
  <2>2. /\ n # 0 /\ ops[n].dir /\ (left = {} => ops[n].fate = "open") /\ lock = {w}
        /\ (left # {} => n \in left) /\ (\A m \in left : ops[m].dir)
        /\ \A f \in DOMAIN ops[n].plan : files[f] = ops[n].old[f]
        /\ ops[n].applied = {}
    BY <1>1, <1>2, <2>1, Restoring
  <2> QED
    BY <1>2, <2>1, <2>2 DEF Now, WriterSound, OpSound, Holding, Early, At, Op, Old, Plan
<1>4. CASE FailRestore(w) /\ Recovering(w)
  BY <1>2, <1>4, SkipSound DEF FailRestore, Locked
<1>5. CASE FailRestore(w) /\ ~Recovering(w)
  <2>1. Now(w, "idle", 0, {}, {})
    BY <1>2, <1>5, ProcAfter DEF Recovering
  <2> QED
    BY <2>1, RestingSound DEF Now
<1> QED
  BY <1>3, <1>4, <1>5

LEMMA SweepSound ==
  ASSUME JournalInv, NEW w \in Writer, Sweep(w), NEW n, n = proc[w].op
  PROVE  /\ WriterSound(w)' /\ n \in DOMAIN ops /\ n # 0 /\ ops[n].dir
         /\ DOMAIN ops' = DOMAIN ops /\ \A m \in DOMAIN ops \ {n} : ops'[m] = ops[m]
         /\ ops'[n].parts \subseteq ops[n].parts /\ ops'[n].fate = ops[n].fate /\ ops'[n].dir
         /\ ops'[n].plan = ops[n].plan /\ ops'[n].old = ops[n].old
         /\ ops'[n].applied = ops[n].applied /\ ops'[n].kept = ops[n].kept
         /\ ops'[n].late = ops[n].late
         /\ ops[n].applied = {} \/ (ops[n].applied = Targets(n) /\ ops[n].fate # "open")
<1>1. JournalTyped /\ WriterSound(w) /\ proc[w].pc = "sweeping" /\ UNCHANGED <<files, lock>>
  BY DEF JournalInv, Sweep, At
<1>2. n \in DOMAIN ops /\ n # 0 /\ ops[n] \in Save
  BY <1>1, JournalTyping DEF WriterSound, OpSound, At
<1>3. PICK part \in ops[n].parts :
          ops' = [ops EXCEPT ![n] = [ops[n] EXCEPT !.parts = ops[n].parts \ {part}]]
  BY DEF Sweep, Op
<1>4. /\ ops'[n].parts = ops[n].parts \ {part} /\ ops'[n].fate = ops[n].fate /\ ops'[n].dir = ops[n].dir
      /\ ops'[n].plan = ops[n].plan /\ ops'[n].old = ops[n].old
      /\ ops'[n].applied = ops[n].applied /\ ops'[n].kept = ops[n].kept
      /\ ops'[n].late = ops[n].late
      /\ DOMAIN ops' = DOMAIN ops /\ \A m \in DOMAIN ops \ {n} : ops'[m] = ops[m]
  BY <1>1, <1>2, <1>3 DEF Save, JournalTyped
<1>5. \A m \in DOMAIN ops : ops'[m].dir = ops[m].dir
  BY <1>1, <1>2, <1>3, <1>4, JournalTyping DEF JournalTyped
<1>6. Now(w, "sweeping", n, proc[w].todo, proc[w].left)
  BY <1>1, ProcAfter
<1>7. proc[w].todo = {} /\ proc[w].left \subseteq DOMAIN ops /\ lock = {w} /\ Op(w) = ops[n] /\ ops[n].dir
  BY <1>1, <1>2 DEF WriterSound, OpSound, JournalTyped, Holding, Locked, Op, At
<1>8. OpSound(w)'
  <2>1. PICK left : left = proc[w].left
    OBVIOUS
  <2>2. /\ ops[n].applied = {} \/ (ops[n].applied = DOMAIN ops[n].plan /\ ops[n].fate # "open")
        /\ ops[n].fate = "open" => \A f \in DOMAIN ops[n].plan : files[f] = ops[n].old[f]
        /\ left = {} /\ ops[n].fate = "committed" =>
             \A f \in DOMAIN ops[n].plan : files[f] = ops[n].plan[f]
        /\ left # {} => n \in left
    BY <1>1, <1>7, <2>1 DEF WriterSound, OpSound, At, Old, Plan
  <2>3. proc'[w].pc = "sweeping" /\ proc'[w].op = n /\ proc'[w].left = left
    BY <1>6, <2>1 DEF Now
  <2>4. Op(w)' = ops'[n] /\ Plan(w)' = ops[n].plan /\ Old(w)' = ops[n].old
    BY <1>4, <2>3 DEF Op, Plan, Old
  <2>5. /\ ops'[n].dir /\ ops'[n].fate = ops[n].fate /\ ops'[n].applied = ops[n].applied
        /\ files' = files /\ n # 0
    BY <1>1, <1>2, <1>4, <1>7
  <2> QED
    BY <2>2, <2>3, <2>4, <2>5 DEF OpSound, Early, At
<1>9. WriterSound(w)'
  BY <1>1, <1>5, <1>6, <1>7, <1>8 DEF Now, WriterSound, Holding, At
<1>10. ops[n].applied = {} \/ (ops[n].applied = Targets(n) /\ ops[n].fate # "open")
  BY <1>1, <1>7 DEF WriterSound, OpSound, At, Plan, Targets
<1> QED
  BY <1>2, <1>4, <1>7, <1>9, <1>10

LEMMA SweptSound ==
  ASSUME JournalInv, NEW w \in Writer, Swept(w), NEW n, n = proc[w].op
  PROVE  /\ WriterSound(w)' /\ n \in DOMAIN ops /\ n # 0 /\ DOMAIN ops' = DOMAIN ops
         /\ \A m \in DOMAIN ops \ {n} : ops'[m] = ops[m]
         /\ ops'[n].plan = ops[n].plan /\ ops'[n].old = ops[n].old
         /\ ops'[n].applied = ops[n].applied /\ ops'[n].late = ops[n].late /\ ops[n].dir
         /\ ops[n].applied = {} \/ (ops[n].applied = Targets(n) /\ ops[n].fate # "open")
         /\ ops'[n].dir = (ops[n].parts # {}) /\ ops'[n].parts = ops[n].parts
         /\ IF proc[w].left = {} /\ ops[n].fate = "committed"
            THEN ops'[n].fate = "told" /\ ops'[n].kept = Complete(n)
            ELSE ops'[n].fate = ops[n].fate /\ ops'[n].kept = ops[n].kept
<1> DEFINE told == proc[w].left = {} /\ ops[n].fate = "committed"
<1>1. JournalTyped /\ WriterSound(w) /\ proc[w].pc = "sweeping" /\ UNCHANGED files
  BY DEF JournalInv, Swept, At
<1>2. n \in DOMAIN ops /\ n # 0 /\ ops[n] \in Save /\ proc[w].todo = {} /\ ops \in Seq(Save)
  BY <1>1, JournalTyping DEF WriterSound, OpSound, At, JournalTyped
<1>3. ops' = [ops EXCEPT ![n] = [ops[n] EXCEPT !.dir = ops[n].parts # {},
                                   !.fate = IF told THEN "told" ELSE ops[n].fate,
                                   !.kept = IF told THEN Complete(n) ELSE ops[n].kept]]
  <2>1. (~Recovering(w) /\ ops[n].fate = "committed") = told
    BY DEF Recovering
  <2>2. ops' = [ops EXCEPT ![n].dir = ~(ops[n].parts = {}),
                          ![n].fate = IF told THEN "told" ELSE @,
                          ![n].kept = IF told THEN Complete(n) ELSE @]
    BY <2>1 DEF Swept
  <2> HIDE DEF told
  <2> QED
    BY <1>2, <2>2 DEF Save
<1> HIDE DEF told
<1>4. /\ DOMAIN ops' = DOMAIN ops /\ \A m \in DOMAIN ops \ {n} : ops'[m] = ops[m]
      /\ ops'[n].dir = (ops[n].parts # {}) /\ ops'[n].parts = ops[n].parts
      /\ ops'[n].fate = IF told THEN "told" ELSE ops[n].fate
      /\ ops'[n].kept = IF told THEN Complete(n) ELSE ops[n].kept
      /\ ops'[n].plan = ops[n].plan /\ ops'[n].old = ops[n].old
      /\ ops'[n].applied = ops[n].applied /\ ops'[n].late = ops[n].late
  BY <1>2, <1>3 DEF Save
<1>7. ops[n].dir /\ (ops[n].applied = {} \/ (ops[n].applied = Targets(n) /\ ops[n].fate # "open"))
  BY <1>1 DEF WriterSound, OpSound, At, Op, Plan, Targets
<1>5. CASE Recovering(w)
  <2>1. Skip(w, n) /\ lock' = lock
    BY <1>5 DEF Swept
  <2>2. WriterSound(w)'
    BY <1>1, <1>4, <2>1, SkipSound DEF Locked
  <2> QED
    BY <1>2, <1>4, <1>7, <2>2 DEF told
<1>6. CASE ~Recovering(w)
  <2>1. Now(w, "idle", 0, {}, {})
    BY <1>1, <1>2, <1>6, ProcAfter DEF Recovering
  <2>2. WriterSound(w)'
    BY <2>1, RestingSound DEF Now
  <2> QED
    BY <1>2, <1>4, <1>7, <2>2 DEF told
<1> QED
  BY <1>5, <1>6

LEMMA RecoverySound ==
  ASSUME JournalInv, NEW w \in Writer, StartRecovery(w) \/ Recover(w) \/ EndRecovery(w)
  PROVE  WriterSound(w)'
<1>1. JournalTyped /\ WriterSound(w) /\ UNCHANGED <<ops, files>> /\ RecordsSound
  BY DEF JournalInv, StartRecovery, Recover, EndRecovery
<1>2. CASE StartRecovery(w)
  <2>1. Now(w, "recovering", proc[w].op, {}, Journal) /\ lock' = {w} /\ Journal # {}
    BY <1>1, <1>2, ProcAfter DEF StartRecovery, At, WriterSound
  <2>2. \A n \in Journal : ops'[n].dir
    BY <1>1 DEF Journal
  <2> QED
    BY <2>1, <2>2 DEF Now, WriterSound, OpSound, Holding, Early, At
<1>3. CASE Recover(w)
  <2>1. PICK m \in proc[w].left :
          IF Manifest \in ops[m].parts /\ Marker \in ops[m].parts
          THEN Now(w, "sweeping", m, proc[w].todo, proc[w].left)
          ELSE IF Manifest \in ops[m].parts /\ Backups(m) \subseteq ops[m].parts
          THEN Now(w, "restoring", m, Targets(m), proc[w].left)
          ELSE Skip(w, m)
    BY <1>1, <1>3, ProcAfter
  <2>2. PICK left : left = proc[w].left
    OBVIOUS
  <2>3. /\ m \in DOMAIN ops /\ m # 0 /\ ops[m].dir /\ proc[w].pc = "recovering" /\ lock' = {w}
        /\ lock' = lock /\ proc[w].todo = {} /\ \A k \in left : ops[k].dir
    <3>1. proc[w].pc = "recovering" /\ lock' = lock
      BY <1>3 DEF Recover, At
    <3>2. m \in DOMAIN ops /\ m # 0
      BY <1>1, JournalTyping DEF JournalTyped
    <3> QED
      BY <1>1, <2>2, <3>1, <3>2 DEF WriterSound, Holding, Locked
  <2>4. CASE Skip(w, m)
    BY <1>1, <2>3, <2>4, SkipSound DEF Locked
  <2>5. CASE Marker \in ops[m].parts /\ Now(w, "sweeping", m, proc[w].todo, proc[w].left)
    <3>1. ops[m].fate # "open" /\ ops[m].applied = DOMAIN ops[m].plan
      BY <1>1, <2>3, <2>5 DEF RecordsSound, RecordSound, Targets
    <3> QED
      BY <1>1, <2>1, <2>2, <2>3, <2>5, <3>1 DEF Now, WriterSound, OpSound, Holding, Early, At, Op, Plan
  <2>6. CASE /\ Manifest \in ops[m].parts /\ Marker \notin ops[m].parts /\ Backups(m) \subseteq ops[m].parts
             /\ Now(w, "restoring", m, Targets(m), proc[w].left)
    <3>1. ops[m].applied \subseteq Targets(m)
      BY <1>1, <2>3, <2>6 DEF RecordsSound, RecordSound
    <3> QED
      BY <1>1, <2>1, <2>2, <2>3, <2>6, <3>1, StillRestoring DEF Complete
  <2> QED
    BY <2>1, <2>4, <2>5, <2>6
<1>4. CASE EndRecovery(w)
  <2>1. proc[w].left = {}
    BY <1>1, <1>4 DEF WriterSound, EndRecovery, At
  <2> QED
    BY <1>1, <1>4, <2>1, ProcAfter, RestingSound DEF Now
<1> QED
  BY <1>2, <1>3, <1>4

LEMMA OwnSound ==
  ASSUME JournalInv, NEW w \in Writer, WriterStep(w)
  PROVE  WriterSound(w)'
BY CheckingSound, OpenSound, StageSound, ApplySound, CommitSound, FailSound, RestoreSound,
   RestoreEndSound, SweepSound, SweptSound, RecoverySound
DEF WriterStep

LEMMA OpenRecord ==
  ASSUME JournalInv, NEW w \in Writer, OpenOperation(w), NEW n, n = proc[w].op
  PROVE  /\ n \in DOMAIN ops /\ ops[n] \in Save /\ DOMAIN ops' = DOMAIN ops
         /\ ops[n].fate = "open" /\ ops[n].parts = {} /\ ~ops[n].dir /\ ~ops[n].late
         /\ ops'[n].dir /\ ops'[n].fate = "open" /\ ops'[n].parts = {}
         /\ ops'[n].plan = ops[n].plan /\ ops'[n].old = ops[n].old
         /\ ops'[n].applied = {} /\ ops'[n].late = (Journal # {})
         /\ \A m \in DOMAIN ops \ {n} : ops'[m] = ops[m]
<1>1. JournalTyped /\ OpSound(w) /\ proc[w].pc = "locked"
  BY DEF JournalInv, WriterSound, OpenOperation, At
<1>2. n \in DOMAIN ops /\ ops[n] \in Save
  BY <1>1, JournalTyping DEF OpSound, Early
<1>3. ops[n].fate = "open" /\ ops[n].parts = {} /\ ~ops[n].dir /\ ops[n].applied = {} /\ ~ops[n].late
  BY <1>1 DEF OpSound, Early, Op
<1> DEFINE found == Journal # {}
           r == [ops[n] EXCEPT !.dir = TRUE, !.late = found]
<1>4. ops' = [ops EXCEPT ![n] = r]
  BY DEF OpenOperation
<1> HIDE DEF found
<1>5. /\ r.dir /\ r.fate = ops[n].fate /\ r.parts = ops[n].parts /\ r.plan = ops[n].plan
      /\ r.old = ops[n].old /\ r.applied = ops[n].applied /\ r.late = found
  BY <1>2 DEF Save
<1> HIDE DEF r
<1>6. DOMAIN ops' = DOMAIN ops /\ ops'[n] = r /\ \A m \in DOMAIN ops \ {n} : ops'[m] = ops[m]
  BY <1>2, <1>4
<1> QED
  BY <1>2, <1>3, <1>5, <1>6 DEF found

LEMMA StageRecord ==
  ASSUME JournalInv, NEW w \in Writer, Stage(w), NEW n, n = proc[w].op
  PROVE  /\ n \in DOMAIN ops /\ DOMAIN ops' = DOMAIN ops
         /\ ops[n].fate = "open" /\ ops[n].parts = {} /\ ops[n].dir /\ ops[n].old = files
         /\ ops'[n].dir /\ ops'[n].fate = "open" /\ ops'[n].plan = ops[n].plan /\ ops'[n].old = files
         /\ ops'[n].applied = {} /\ ops'[n].late = ops[n].late
         /\ \A m \in DOMAIN ops \ {n} : ops'[m] = ops[m]
<1>1. JournalTyped /\ OpSound(w) /\ proc[w].pc = "staging"
  BY DEF JournalInv, WriterSound, Stage, At
<1>2. n \in DOMAIN ops /\ ops[n] \in Save
  BY <1>1, JournalTyping DEF OpSound, At
<1>3. ops[n].fate = "open" /\ ops[n].parts = {} /\ ops[n].dir /\ ops[n].old = files /\ ops[n].applied = {}
  BY <1>1 DEF OpSound, At, Op, Old
<1>4. ops' = [ops EXCEPT ![n] = [ops[n] EXCEPT !.old = files,
                             !.parts = {Manifest} \cup {Backup(f) : f \in BackedUp(n)}]]
  BY DEF Stage
<1> QED
  BY <1>2, <1>3, <1>4 DEF Save

\* Of a save, only files of its plan are applied or restored.
LEMMA AppliedWithin ==
  ASSUME JournalInv, NEW w \in Writer, Apply(w) \/ RenameBackup(w) \/ RemoveCreated(w)
  PROVE  ops'[proc[w].op].applied \subseteq Targets(proc[w].op)
<1> DEFINE n == proc[w].op
<1>1. n \in DOMAIN ops /\ JournalTyped
  BY ApplySound, RestoreSound DEF JournalInv
<1>2. ops[n].applied \subseteq Targets(n)
  BY <1>1 DEF JournalInv, RecordsSound, RecordSound
<1>3. CASE Apply(w)
  <2>1. /\ proc[w].todo # {} /\ proc[w].todo \subseteq Targets(n) /\ Targets(n) \subseteq File
        /\ ops[n] \in Save
    BY <1>1, <1>3, JournalTyping DEF Apply, JournalInv, WriterSound, Plan, Op, Targets
  <2>2. First(proc[w].todo) \in Targets(n)
    BY <2>1, FirstIsMember
  <2>3. ops' = [ops EXCEPT ![n].applied = ops[n].applied \cup {First(proc[w].todo)}]
    BY <1>3 DEF Apply
  <2>4. ops'[n].applied = ops[n].applied \cup {First(proc[w].todo)}
    BY <1>1, <2>1, <2>3 DEF Save
  <2> QED
    BY <1>2, <2>2, <2>4
<1>4. CASE RenameBackup(w) \/ RemoveCreated(w)
  <2>1. ops' = [ops EXCEPT ![n].applied = ops[n].applied \ {Last(proc[w].todo)}] /\ ops[n] \in Save
    BY <1>1, <1>4, JournalTyping DEF RenameBackup, RemoveCreated
  <2>2. ops'[n].applied = ops[n].applied \ {Last(proc[w].todo)}
    BY <1>1, <2>1 DEF Save
  <2> QED
    BY <1>2, <2>2
<1> QED
  BY <1>3, <1>4

\* A record nobody touches stays as sound as it was; a new one is sound.
LEMMA RecordCopied ==
  ASSUME NEW m \in DOMAIN ops, RecordSound(m), ops'[m] = ops[m]
  PROVE  RecordSound(m)'
BY DEF RecordSound, Complete, Backups, Existed, Targets

LEMMA OthersRecords ==
  ASSUME RecordsSound, NEW n, \A m \in DOMAIN ops \ {n} : ops'[m] = ops[m],
         DOMAIN ops' = DOMAIN ops, RecordSound(n)'
  PROVE  RecordsSound'
<1> SUFFICES ASSUME NEW m \in DOMAIN ops, m # n
             PROVE  RecordSound(m)'
  BY DEF RecordsSound
<1> QED
  BY RecordCopied DEF RecordsSound

LEMMA StepRecords ==
  ASSUME JournalInv, NEW w \in Writer, WriterStep(w)
  PROVE  RecordsSound'
<1>1. PICK n : n = proc[w].op
  OBVIOUS
<1>2. JournalTyped /\ RecordsSound
  BY DEF JournalInv
<1>3. CASE Propose(w)
  <2>1. PICK k : k = Len(ops) + 1 /\ Len(ops) \in Nat
    BY <1>2, JournalTyping
  <2>2. /\ DOMAIN ops = 1..Len(ops) /\ DOMAIN ops' = 1..k /\ \A m \in DOMAIN ops : ops'[m] = ops[m]
        /\ ops'[k].parts = {} /\ ops'[k].fate = "open" /\ ops'[k].applied = {}
    BY <1>2, <1>3, <2>1, ProposeStep
  <2>3. RecordSound(k)'
    BY <2>2 DEF RecordSound
  <2>4. \A m \in DOMAIN ops : RecordSound(m)'
    BY <1>2, <2>2, RecordCopied DEF RecordsSound
  <2>5. \A m \in DOMAIN ops' : m = k \/ m \in DOMAIN ops
    BY <2>1, <2>2
  <2> QED
    BY <2>3, <2>4, <2>5 DEF RecordsSound
<1>4. CASE OpenOperation(w)
  <2>1. /\ DOMAIN ops' = DOMAIN ops /\ ops'[n].fate = "open" /\ ops'[n].parts = {} /\ ops'[n].applied = {}
        /\ \A m \in DOMAIN ops \ {n} : ops'[m] = ops[m]
    BY <1>1, <1>4, OpenRecord
  <2>2. RecordSound(n)'
    BY <2>1 DEF RecordSound
  <2> QED
    BY <1>2, <2>1, <2>2, OthersRecords
<1>5. CASE Stage(w)
  <2>1. /\ DOMAIN ops' = DOMAIN ops /\ ops'[n].fate = "open" /\ ops'[n].applied = {}
        /\ \A m \in DOMAIN ops \ {n} : ops'[m] = ops[m]
    BY <1>1, <1>5, StageRecord
  <2>2. Marker \notin ops'[n].parts
    BY <1>1, <1>5, StageSound
  <2>3. RecordSound(n)'
    BY <2>1, <2>2 DEF RecordSound
  <2> QED
    BY <1>2, <2>1, <2>3, OthersRecords
<1>6. CASE MarkCommitted(w)
  <2>1. n \in DOMAIN ops /\ ops'[n].fate = "committed" /\ ops'[n].applied = Targets(n)'
    BY <1>1, <1>6, CommitSound
  <2>2. ops' = [ops EXCEPT ![n] = [ops[n] EXCEPT !.parts = ops[n].parts \cup {Marker},
                                                 !.fate = "committed"]]
    BY <1>1, <1>6, CommitSound
  <2>3. DOMAIN ops' = DOMAIN ops /\ \A m \in DOMAIN ops \ {n} : ops'[m] = ops[m]
    BY <2>2
  <2>4. RecordSound(n)'
    BY <2>1 DEF RecordSound
  <2> QED
    BY <1>2, <2>3, <2>4, OthersRecords
<1>7. CASE Apply(w) \/ RenameBackup(w) \/ RemoveCreated(w)
  <2>1. n \in DOMAIN ops /\ Complete(n) /\ Marker \notin ops[n].parts
    BY <1>1, <1>7, ApplySound, RestoreSound
  <2>2. ops' = ops \/ \E S \in SUBSET File : ops' = [ops EXCEPT ![n].applied = S]
    BY <1>1, <1>7, ApplySound, RestoreSound
  <2>3. CASE ops' = ops
    BY <1>2, <2>3, RecordCopied DEF RecordsSound
  <2>4. ASSUME NEW S \in SUBSET File, ops' = [ops EXCEPT ![n].applied = S]
        PROVE  RecordsSound'
    <3>1. /\ DOMAIN ops' = DOMAIN ops /\ \A m \in DOMAIN ops \ {n} : ops'[m] = ops[m]
          /\ ops'[n].plan = ops[n].plan /\ ops'[n].old = ops[n].old /\ ops'[n].dir = ops[n].dir
          /\ ops'[n].parts = ops[n].parts /\ ops'[n].fate = ops[n].fate /\ ops'[n].kept = ops[n].kept
          /\ ops'[n].applied = S
      BY <1>2, <2>1, <2>4, AppliedOnly
    <3>2. Complete(n)'
      BY <2>1, <3>1 DEF Complete, Backups, Existed, Targets
    <3>3. ops'[n].fate = "told" => ops'[n].kept
      BY <1>2, <2>1, <3>1 DEF RecordsSound, RecordSound
    <3>4. ops'[n].applied \subseteq Targets(n)'
      BY <1>1, <1>2, <1>7, <2>1, <3>1, AppliedWithin DEF Targets
    <3>5. RecordSound(n)'
      BY <2>1, <3>1, <3>2, <3>3, <3>4 DEF RecordSound
    <3> QED
      BY <1>2, <3>1, <3>5, OthersRecords
  <2> QED
    BY <2>2, <2>3, <2>4
<1>8. CASE Sweep(w)
  <2>1. /\ n \in DOMAIN ops /\ ops'[n].parts \subseteq ops[n].parts /\ ops'[n].fate = ops[n].fate
        /\ ops'[n].plan = ops[n].plan /\ ops'[n].old = ops[n].old /\ ops[n].dir
        /\ ops'[n].applied = ops[n].applied /\ ops'[n].kept = ops[n].kept
        /\ ops[n].applied = {} \/ (ops[n].applied = Targets(n) /\ ops[n].fate # "open")
    BY <1>1, <1>8, SweepSound
  <2>2. DOMAIN ops' = DOMAIN ops /\ \A m \in DOMAIN ops \ {n} : ops'[m] = ops[m]
    BY <1>1, <1>8, SweepSound
  <2>3. Targets(n)' = Targets(n) /\ Backups(n)' = Backups(n)
    BY <2>1 DEF Backups, Existed, Targets
  <2>4. Complete(n)' => Complete(n)
    BY <2>1, <2>3 DEF Complete
  <2>5. RecordSound(n)
    BY <1>2, <2>1 DEF RecordsSound
  <2>6. RecordSound(n)'
    BY <2>1, <2>3, <2>4, <2>5 DEF RecordSound
  <2> QED
    BY <1>2, <2>2, <2>6, OthersRecords
<1>9. CASE Swept(w)
  <2> DEFINE told == proc[w].left = {} /\ ops[n].fate = "committed"
  <2>1. /\ n \in DOMAIN ops /\ DOMAIN ops' = DOMAIN ops /\ (\A m \in DOMAIN ops \ {n} : ops'[m] = ops[m])
        /\ ops'[n].parts = ops[n].parts /\ ops'[n].plan = ops[n].plan /\ ops'[n].old = ops[n].old
        /\ ops'[n].applied = ops[n].applied /\ ops[n].dir
        /\ ops[n].applied = {} \/ (ops[n].applied = Targets(n) /\ ops[n].fate # "open")
    BY <1>1, <1>9, SweptSound
  <2>2. IF told THEN ops'[n].fate = "told" /\ ops'[n].kept = Complete(n)
        ELSE ops'[n].fate = ops[n].fate /\ ops'[n].kept = ops[n].kept
    BY <1>1, <1>9, SweptSound
  <2>3. Targets(n)' = Targets(n) /\ Backups(n)' = Backups(n)
    BY <2>1 DEF Backups, Existed, Targets
  <2>4. Complete(n)' => Complete(n)
    BY <2>1, <2>3 DEF Complete
  <2>5. RecordSound(n)
    BY <1>2, <2>1 DEF RecordsSound
  <2> HIDE DEF told
  <2>6. ops'[n].fate = "told" => ops'[n].kept \/ ~Complete(n)'
    BY <2>2, <2>4, <2>5 DEF RecordSound
  <2>7. ops[n].fate # "open" => ops'[n].fate # "open"
    BY <2>2
  <2>8. RecordSound(n)'
    BY <2>1, <2>3, <2>5, <2>6, <2>7 DEF RecordSound
  <2> QED
    BY <1>2, <2>1, <2>8, OthersRecords
<1>10. CASE UNCHANGED ops
  BY <1>2, <1>10, RecordCopied DEF RecordsSound
<1> QED
  BY <1>3, <1>4, <1>5, <1>6, <1>7, <1>8, <1>9, <1>10
  DEF WriterStep, FindNoJournal, Load, AcquireLock, FindLocked, Conflict, Fail, CopyBackup,
      AllRestored, FailRestore, StartRecovery, Recover, EndRecovery, Crash

LEMMA RemoveLockKeeps ==
  ASSUME JournalInv, RemoveLock
  PROVE  JournalInv'
<1>1. \A w \in Writer : proc[w].pc \notin Locked
  BY DEF JournalInv, JournalTyped, WriterSound, Holding, RemoveLock, At, Locked
<1>2. UNCHANGED <<files, stray, ops, proc, crashes>> /\ lock' = {}
  BY DEF RemoveLock
<1>3. JournalTyped'
  BY <1>2 DEF JournalInv, JournalTyped
<1>4. Distinct' /\ RecordsSound'
  BY <1>2, RecordCopied DEF JournalInv, Distinct, RecordsSound
<1>5. \A w \in Writer : WriterSound(w)'
  <2> TAKE w \in Writer
  <2>1. OpSound(w)'
    BY <1>2 DEF JournalInv, WriterSound, OpSound, At, Op, Old, Plan, Complete, Backups, Existed, Targets
  <2>2. Holding(w)'
    BY <1>1, <1>2 DEF Holding
  <2> QED
    BY <1>2, <2>1, <2>2 DEF JournalInv, WriterSound, At, Op, Plan
<1> QED
  BY <1>3, <1>4, <1>5 DEF JournalInv

LEMMA JournalNextInv ==
  ASSUME JournalInv, [JournalNext]_journalVars
  PROVE  JournalInv'
<1>1. CASE RemoveLock
  BY <1>1, RemoveLockKeeps
<1>2. ASSUME NEW w \in Writer, WriterStep(w)
      PROVE  JournalInv'
  <2>1. \A v \in Writer : WriterSound(v)'
    BY <1>2, OwnSound, OthersSound
  <2> QED
    BY <1>2, <2>1, StepTyped, OthersDistinct, StepRecords DEF JournalInv
<1>3. CASE UNCHANGED journalVars
  <2>1. UNCHANGED <<files, stray, lock, ops, proc, crashes>>
    BY <1>3 DEF journalVars
  <2>2. \A w \in Writer : WriterSound(w)'
    <3> TAKE w \in Writer
    <3>1. WriterSound(w)
      BY DEF JournalInv
    <3>2. OpSound(w)'
      BY <2>1, <3>1 DEF WriterSound, OpSound, At, Op, Old, Plan, Complete, Backups, Existed, Targets
    <3> QED
      BY <2>1, <3>1, <3>2 DEF WriterSound, Holding, At, Op, Plan
  <2> QED
    BY <2>1, <2>2, RecordCopied DEF JournalInv, JournalTyped, Distinct, RecordsSound
<1> QED
  BY <1>1, <1>2, <1>3 DEF JournalNext

LEMMA JournalInitInv == JournalInit => JournalInv
<1> SUFFICES ASSUME JournalInit
             PROVE  JournalInv
  OBVIOUS
<1>1. ops = <<>> /\ ops \in Seq(Save) /\ Len(ops) = 0 /\ DOMAIN ops = {}
  BY EmptySeq DEF JournalInit
<1>2. \A w \in Writer : proc[w] = Resting /\ Resting \in Process
  BY DEF JournalInit, Resting, Process
<1>3. JournalTyped
  <2>1. files \in [File -> Content]
    BY JournalBounds DEF JournalInit, Content, Absent
  <2>2. stray \in BOOLEAN /\ lock = {} /\ crashes \in 0..MaxCrashes /\ Len(ops) <= MaxSaves
    <3>1. crashes \in 0..MaxCrashes
      BY JournalBounds DEF JournalInit
    <3>2. Len(ops) <= MaxSaves
      BY <1>1, JournalBounds
    <3> QED
      BY <3>1, <3>2 DEF JournalInit
  <2>3. proc \in [Writer -> Process]
    BY <1>2 DEF JournalInit
  <2>4. \A w \in Writer : proc[w].op \in 0..Len(ops) /\ proc[w].left \subseteq DOMAIN ops
    BY <1>1, <1>2 DEF Resting
  <2> QED
    BY <1>1, <2>1, <2>2, <2>3, <2>4 DEF JournalTyped
<1>4. \A w \in Writer : WriterSound(w)
  BY <1>2 DEF Resting, WriterSound, OpSound, Holding, Locked, Early, At
<1>5. Distinct /\ RecordsSound
  BY <1>1, <1>2 DEF Resting, Distinct, RecordsSound, Early
<1> QED
  BY <1>3, <1>4, <1>5 DEF JournalInv

\* The invariant of every reachable state, whatever fails and whoever dies.
THEOREM JournalInductiveInvariant == JournalSpec => []JournalInv
BY JournalInitInv, JournalNextInv, PTL DEF JournalSpec

\* The files, the records and the processes keep their types.
THEOREM JournalTypeCorrect == JournalSpec => []JournalTypeOK
<1>1. JournalInv => JournalTypeOK
  <2> SUFFICES ASSUME JournalInv
               PROVE  JournalTypeOK
    OBVIOUS
  <2>1. JournalTyped
    BY DEF JournalInv
  <2>2. Cardinality(lock) <= 1
    <3>1. CASE lock = {}
      BY <3>1, FS_EmptySet
    <3>2. ASSUME NEW w \in Writer, lock = {w}
          PROVE  Cardinality(lock) <= 1
      <4>1. Cardinality({w}) = 1
        BY FS_Singleton
      <4> QED
        BY <3>2, <4>1
    <3> QED
      BY <2>1, <3>1, <3>2 DEF JournalTyped
  <2>3. \A n \in DOMAIN ops : ops[n] \in Save
    BY <2>1, JournalTyping
  <2> QED
    BY <2>1, <2>2, <2>3 DEF JournalTyped, JournalTypeOK, Save, Part, Process
<1> QED
  BY <1>1, JournalInductiveInvariant, PTL

\* Whatever fails, in a save, in its roll back, in a recovery or in a removal, and
\* for any number of processes, saves and crashes, files that were replaced and
\* may have to be restored are backed up in the journal.
THEOREM InterruptedSavesCanBeUndone == JournalSpec => []HalfAppliedCanBeUndone
<1>1. JournalInv => HalfAppliedCanBeUndone
  BY DEF JournalInv, RecordsSound, RecordSound, HalfAppliedCanBeUndone
<1> QED
  BY <1>1, JournalInductiveInvariant, PTL
-----------------------------------------------------------------------------
(***************************************************************************)
(* There is one operation in the journal, until a save comes late          *)
(***************************************************************************)

\* Steps that change no record, and steps that only change what is applied.
Silent(w) ==
  \/ FindNoJournal(w) \/ Load(w) \/ AcquireLock(w) \/ FindLocked(w) \/ Conflict(w)
  \/ Fail(w) \/ CopyBackup(w) \/ AllRestored(w) \/ FailRestore(w) \/ StartRecovery(w)
  \/ Recover(w) \/ EndRecovery(w) \/ Crash(w)
Moving(w) == Apply(w) \/ RenameBackup(w) \/ RemoveCreated(w)

LEMMA SilentStep ==
  ASSUME NEW w \in Writer, Silent(w)
  PROVE  UNCHANGED ops
BY DEF Silent, FindNoJournal, Load, AcquireLock, FindLocked, Conflict, Fail, CopyBackup,
       AllRestored, FailRestore, StartRecovery, Recover, EndRecovery, Crash

LEMMA WriterCases ==
  ASSUME NEW w \in Writer, WriterStep(w)
  PROVE  Silent(w) \/ Moving(w) \/ Propose(w) \/ OpenOperation(w) \/ Stage(w) \/ MarkCommitted(w)
         \/ Sweep(w) \/ Swept(w)
BY DEF WriterStep, Silent, Moving

LEMMA MovingRecord ==
  ASSUME JournalInv, NEW w \in Writer, Moving(w)
  PROVE  /\ DOMAIN ops' = DOMAIN ops
         /\ \A m \in DOMAIN ops :
              /\ ops'[m].plan = ops[m].plan /\ ops'[m].old = ops[m].old /\ ops'[m].dir = ops[m].dir
              /\ ops'[m].parts = ops[m].parts /\ ops'[m].fate = ops[m].fate
              /\ ops'[m].late = ops[m].late
<1>1. PICK n : n = proc[w].op
  OBVIOUS
<1>2. JournalTyped /\ n \in DOMAIN ops
  BY <1>1, ApplySound, RestoreSound DEF JournalInv, Moving
<1>3. ops' = ops \/ \E S \in SUBSET File : ops' = [ops EXCEPT ![n].applied = S]
  BY <1>1, ApplySound, RestoreSound DEF Moving
<1>4. ASSUME NEW S \in SUBSET File, ops' = [ops EXCEPT ![n].applied = S]
      PROVE  /\ DOMAIN ops' = DOMAIN ops
             /\ \A m \in DOMAIN ops :
                  /\ ops'[m].plan = ops[m].plan /\ ops'[m].old = ops[m].old /\ ops'[m].dir = ops[m].dir
                  /\ ops'[m].parts = ops[m].parts /\ ops'[m].fate = ops[m].fate
                  /\ ops'[m].late = ops[m].late
  BY <1>2, <1>4, AppliedOnly
<1> QED
  BY <1>3, <1>4

\* What a step does to the journal, and that a late save is never forgotten.
LEMMA RecordChange ==
  ASSUME JournalInv, NEW w \in Writer, WriterStep(w)
  PROVE  /\ \/ Journal' \subseteq Journal
            \/ Journal' \subseteq Journal \cup {proc[w].op} /\ (Journal = {} \/ SomeLate')
         /\ \A m \in DOMAIN ops : m \in DOMAIN ops' /\ (ops[m].late => ops'[m].late)
<1>1. PICK n : n = proc[w].op
  OBVIOUS
<1>2. CASE Silent(w)
  BY <1>2, SilentStep DEF Journal
<1>3. CASE Moving(w)
  BY <1>3, MovingRecord DEF Journal
<1>4. CASE Propose(w)
  <2>1. Len(ops) \in Nat /\ JournalTyped
    BY JournalTyping DEF JournalInv
  <2>2. /\ DOMAIN ops = 1..Len(ops) /\ DOMAIN ops' = 1..Len(ops) + 1
        /\ (\A m \in DOMAIN ops : ops'[m] = ops[m]) /\ ~ops'[Len(ops) + 1].dir
    BY <1>4, <2>1, ProposeStep
  <2>3. \A m \in DOMAIN ops' : m \in DOMAIN ops \/ m = Len(ops) + 1
    BY <2>1, <2>2
  <2>4. Journal' \subseteq Journal
    BY <2>2, <2>3 DEF Journal
  <2>5. DOMAIN ops \subseteq DOMAIN ops'
    BY <2>1, <2>2
  <2> QED
    BY <2>2, <2>4, <2>5
<1>5. CASE OpenOperation(w)
  <2>1. /\ n \in DOMAIN ops /\ DOMAIN ops' = DOMAIN ops /\ ~ops[n].late
        /\ ops'[n].late = (Journal # {}) /\ \A m \in DOMAIN ops \ {n} : ops'[m] = ops[m]
    BY <1>1, <1>5, OpenRecord
  <2>2. Journal' \subseteq Journal \cup {n}
    BY <2>1 DEF Journal
  <2>3. Journal = {} \/ SomeLate'
    BY <2>1 DEF SomeLate
  <2> QED
    BY <1>1, <2>1, <2>2, <2>3
<1>6. CASE Stage(w) \/ MarkCommitted(w) \/ Sweep(w) \/ Swept(w)
  <2>1. /\ n \in DOMAIN ops /\ DOMAIN ops' = DOMAIN ops /\ ops[n].dir /\ ops'[n].late = ops[n].late
        /\ \A m \in DOMAIN ops \ {n} : ops'[m] = ops[m]
    <3>1. CASE Stage(w)
      BY <1>1, <3>1, StageRecord
    <3>2. CASE MarkCommitted(w)
      <4>1. n \in DOMAIN ops /\ Complete(n) /\ ops'[n].late = ops[n].late
        BY <1>1, <3>2, CommitSound
      <4>2. ops' = [ops EXCEPT ![n] = [ops[n] EXCEPT !.parts = ops[n].parts \cup {Marker},
                                                     !.fate = "committed"]]
        BY <1>1, <3>2, CommitSound
      <4> QED
        BY <4>1, <4>2 DEF Complete
    <3>3. CASE Sweep(w)
      BY <1>1, <3>3, SweepSound
    <3>4. CASE Swept(w)
      BY <1>1, <3>4, SweptSound
    <3> QED
      BY <1>6, <3>1, <3>2, <3>3, <3>4
  <2>2. Journal' \subseteq Journal
    BY <2>1 DEF Journal
  <2> QED
    BY <2>1, <2>2
<1> QED
  BY <1>2, <1>3, <1>4, <1>5, <1>6, WriterCases

LEMMA LateStays ==
  ASSUME JournalInv, [JournalNext]_journalVars, SomeLate
  PROVE  SomeLate'
<1>1. CASE RemoveLock \/ UNCHANGED journalVars
  <2>1. UNCHANGED ops
    BY <1>1 DEF RemoveLock, journalVars
  <2> QED
    BY <2>1 DEF SomeLate
<1>2. ASSUME NEW w \in Writer, WriterStep(w)
      PROVE  SomeLate'
  BY <1>2, RecordChange DEF SomeLate
<1> QED
  BY <1>1, <1>2 DEF JournalNext

LEMMA StepAlone ==
  ASSUME JournalInv, Alone, [JournalNext]_journalVars
  PROVE  Alone'
<1>1. CASE SomeLate
  BY <1>1, LateStays DEF Alone
<1>2. CASE Single /\ (RemoveLock \/ UNCHANGED journalVars)
  <2>1. UNCHANGED ops
    BY <1>2 DEF RemoveLock, journalVars
  <2> QED
    BY <1>2, <2>1 DEF Alone, Single, Journal
<1>3. ASSUME Single, NEW w \in Writer, WriterStep(w)
      PROVE  Alone'
  <2>1. \/ Journal' \subseteq Journal
        \/ Journal' \subseteq Journal \cup {proc[w].op} /\ (Journal = {} \/ SomeLate')
    BY <1>3, RecordChange
  <2> QED
    BY <1>3, <2>1 DEF Alone, Single
<1> QED
  BY <1>1, <1>2, <1>3 DEF Alone, JournalNext
-----------------------------------------------------------------------------
(***************************************************************************)
(* Refinement: until it is disturbed, the journal implements               *)
(* AtomicWorkspace                                                         *)
(***************************************************************************)

\* With at most one operation in the journal, what a recovery would leave of the
\* files and what the last save may be undone to are easy to say.
Restored(n) == [f \in File |-> IF f \in Targets(n) THEN ops[n].old[f] ELSE files[f]]
Returnable(n) ==
  /\ Complete(n) /\ ops[n].fate = "committed"
  /\ Marker \in ops[n].parts \/ Removing(n)
  /\ \E f \in Targets(n) : files[f] # ops[n].old[f]
Shown == [plan : UNION {[T -> Content] : T \in SUBSET File}, expected : [File -> Content],
          fate : {"open", "committed", "told"}]
Viewed ==
  /\ Saves \in Seq(Shown) /\ Len(Saves) = Len(ops)
  /\ Journal = {} => Durable = files /\ Before = NoRevision
  /\ \A n \in Journal :
       /\ Durable = IF Undoable(n) THEN Restored(n) ELSE files
       /\ Before = IF Returnable(n) THEN Restored(n) ELSE NoRevision

LEMMA SingleViewed == JournalInv /\ Single => Viewed
<1> SUFFICES ASSUME JournalInv, Single
             PROVE  Viewed
  OBVIOUS
<1>1. files \in [File -> Content] /\ DOMAIN ops \subseteq Nat
  BY JournalTyping DEF JournalInv, JournalTyped
<1>2. ASSUME Journal = {}
      PROVE  Durable = files /\ Before = NoRevision
  BY <1>1, <1>2 DEF Durable, Undoing, Before, CanGoBack
<1>3. ASSUME NEW n \in Journal
      PROVE  /\ Durable = IF Undoable(n) THEN Restored(n) ELSE files
             /\ Before = IF Returnable(n) THEN Restored(n) ELSE NoRevision
  <2>1. Journal = {n} /\ First({n}) = n
    BY <1>1 DEF Single, Journal, First
  <2>2. Durable = IF Undoable(n) THEN Restored(n) ELSE files
    <3>1. \A f \in File : Undoing(f) = IF Undoable(n) /\ f \in Targets(n) THEN {n} ELSE {}
      BY <2>1 DEF Undoing
    <3>2. Durable = [f \in File |-> IF Undoable(n) /\ f \in Targets(n) THEN ops[n].old[f] ELSE files[f]]
      BY <2>1, <3>1 DEF Durable
    <3>3. CASE Undoable(n)
      BY <3>2, <3>3 DEF Restored
    <3>4. CASE ~Undoable(n)
      BY <1>1, <3>2, <3>4
    <3> QED
      BY <3>3, <3>4
  <2>3. Before = IF Returnable(n) THEN Restored(n) ELSE NoRevision
    <3>1. CanGoBack = IF Returnable(n) THEN {n} ELSE {}
      BY <2>1 DEF CanGoBack, Returnable
    <3>2. CASE Returnable(n)
      BY <2>1, <3>1, <3>2 DEF Before, Restored
    <3>3. CASE ~Returnable(n)
      BY <3>1, <3>3 DEF Before
    <3> QED
      BY <3>2, <3>3
  <2> QED
    BY <2>2, <2>3
<1>4. Saves \in Seq(Shown) /\ Len(Saves) = Len(ops)
  <2>1. Len(ops) \in Nat /\ DOMAIN ops = 1..Len(ops) /\ \A n \in DOMAIN ops : ops[n] \in Save
    BY JournalTyping DEF JournalInv
  <2>2. Saves \in [1..Len(ops) -> Shown]
    BY <2>1 DEF Saves, Save, Shown
  <2> QED
    BY <2>1, <2>2
<1> QED
  BY <1>2, <1>3, <1>4 DEF Viewed

Hidden == UNCHANGED <<Durable, Saves, Before>>

LEMMA RemovingOnly ==
  ASSUME JournalInv, NEW w \in Writer, proc[w].pc \in Locked \ {"sweeping"}, NEW n
  PROVE  ~Removing(n)
BY DEF JournalInv, WriterSound, Holding, Locked, Removing, At

LEMMA RemovingKept ==
  ASSUME NEW w \in Writer, Touches(w), NEW n,
         \/ proc[w].pc # "sweeping" /\ proc'[w].pc # "sweeping"
         \/ proc[w].pc = "sweeping" /\ proc'[w].pc = "sweeping" /\ proc'[w].op = proc[w].op
  PROVE  Removing(n)' <=> Removing(n)
BY DEF Touches, Removing, At

LEMMA NothingMoves ==
  ASSUME Viewed, Viewed', UNCHANGED <<ops, files>>, \A n \in Journal : Removing(n)' <=> Removing(n)
  PROVE  Hidden
<1>1. Journal' = Journal /\ Saves' = Saves
  BY DEF Journal, Saves
<1>2. CASE Journal = {}
  BY <1>1, <1>2 DEF Viewed, Hidden
<1>3. ASSUME NEW n \in Journal
      PROVE  Hidden
  <2>1. Undoable(n)' <=> Undoable(n)
    BY <1>3 DEF Undoable, Complete, Backups, Existed, Targets
  <2>2. Returnable(n)' <=> Returnable(n)
    BY <1>3 DEF Returnable, Complete, Backups, Existed, Targets
  <2>3. Restored(n)' = Restored(n)
    BY DEF Restored, Targets
  <2> QED
    BY <1>1, <1>3, <2>1, <2>2, <2>3 DEF Viewed, Hidden
<1> QED
  BY <1>2, <1>3

\* Checks, locks, copies and what a process only decides are not seen.
LEMMA DecisionsHidden ==
  ASSUME JournalInv, Viewed, Viewed', NEW w \in Writer, Touches(w),
         \/ FindNoJournal(w) \/ Load(w) \/ AcquireLock(w) \/ FindLocked(w) \/ Conflict(w)
         \/ Fail(w) \/ CopyBackup(w) \/ FailRestore(w) \/ StartRecovery(w) \/ EndRecovery(w)
         \/ Crash(w) /\ proc[w].pc # "sweeping"
  PROVE  Hidden
<1>1. UNCHANGED <<ops, files>> /\ JournalTyped
  BY DEF FindNoJournal, Load, AcquireLock, FindLocked, Conflict, Fail, CopyBackup, FailRestore,
         StartRecovery, EndRecovery, Crash, JournalInv
<1>2. proc[w].pc # "sweeping"
  BY DEF FindNoJournal, Load, AcquireLock, FindLocked, Conflict, Fail, CopyBackup, FailRestore,
         StartRecovery, EndRecovery, At
<1>3. proc'[w].pc # "sweeping"
  BY <1>1, ProcAfter, SkipAfter DEF Now
<1> QED
  BY <1>1, <1>2, <1>3, RemovingKept, NothingMoves

LEMMA RecoverHidden ==
  ASSUME JournalInv, Viewed, Viewed', NEW w \in Writer, Touches(w), Recover(w)
  PROVE  Hidden
<1>1. UNCHANGED <<ops, files, lock>> /\ JournalTyped /\ proc[w].pc = "recovering"
  BY DEF Recover, JournalInv, At
<1>2. CASE proc'[w].pc # "sweeping"
  BY <1>1, <1>2, RemovingKept, NothingMoves
<1>3. CASE proc'[w].pc = "sweeping"
  <2>1. PICK m \in proc[w].left : Marker \in ops[m].parts
    BY <1>1, <1>3, ProcAfter, SkipAfter DEF Now
  <2>2. m \in Journal /\ Journal' = Journal /\ Saves' = Saves
    BY <1>1, <2>1 DEF Journal, JournalInv, WriterSound, JournalTyped, Saves
  <2>3. ~Undoable(m) /\ ~Undoable(m)' /\ Restored(m)' = Restored(m)
    BY <1>1, <2>1 DEF Undoable, Restored, Targets
  <2>4. Returnable(m)' <=> Returnable(m)
    BY <1>1, <2>1 DEF Returnable, Complete, Backups, Existed, Targets
  <2> QED
    BY <1>1, <2>2, <2>3, <2>4 DEF Viewed, Hidden
<1> QED
  BY <1>2, <1>3

\* Nor is what a process replaces or restores, while all of it can be undone.
LEMMA FilesHidden ==
  ASSUME JournalInv, Viewed, Viewed', NEW w \in Writer, Touches(w),
         Apply(w) \/ RenameBackup(w) \/ RemoveCreated(w)
  PROVE  Hidden
<1>1. PICK n : n = proc[w].op
  OBVIOUS
<1>2. /\ Complete(n) /\ Marker \notin ops[n].parts /\ n \in DOMAIN ops
      /\ \A f \in File \ Targets(n) : files'[f] = files[f]
  <2>1. CASE Apply(w)
    <3>1. /\ Complete(n) /\ Marker \notin ops[n].parts /\ n \in DOMAIN ops
          /\ proc[w].todo \subseteq Targets(n)
          /\ Targets(n) \subseteq File
      BY <1>1, <2>1, JournalTyping DEF JournalInv, WriterSound, OpSound, Apply, At, Op, Plan, Targets
    <3>2. First(proc[w].todo) \in Targets(n)
      BY <2>1, <3>1, FirstIsMember DEF Apply
    <3> QED
      BY <2>1, <3>1, <3>2 DEF Apply, JournalInv, JournalTyped
  <2>2. CASE RenameBackup(w) \/ RemoveCreated(w)
    <3>1. proc[w].pc \in {"restoring", "copied"} /\ proc[w].todo # {}
      BY <2>2 DEF RenameBackup, RemoveCreated, At, JournalInv, WriterSound
    <3>2. /\ Complete(n) /\ Marker \notin ops[n].parts /\ n \in DOMAIN ops
          /\ proc[w].todo \subseteq Targets(n)
          /\ Targets(n) \subseteq File
      BY <1>1, <3>1, Restoring
    <3>3. Last(proc[w].todo) \in Targets(n)
      BY <3>1, <3>2, LastIsMember
    <3> QED
      BY <2>2, <3>2, <3>3 DEF RenameBackup, RemoveCreated, JournalInv, JournalTyped
  <2> QED
    BY <2>1, <2>2
<1>3. JournalTyped /\ proc[w].pc \in Locked \ {"sweeping"}
  BY DEF JournalInv, Apply, RenameBackup, RemoveCreated, At, Locked
<1>4. proc'[w].pc # "sweeping"
  BY <1>3, ProcAfter DEF Now
<1>5. ~Removing(n) /\ ~Removing(n)'
  BY <1>3, <1>4, RemovingOnly, RemovingKept
<1>6. /\ DOMAIN ops' = DOMAIN ops
      /\ \A m \in DOMAIN ops :
           /\ ops'[m].plan = ops[m].plan /\ ops'[m].old = ops[m].old /\ ops'[m].dir = ops[m].dir
           /\ ops'[m].parts = ops[m].parts /\ ops'[m].fate = ops[m].fate
  BY MovingRecord DEF Moving
<1>7. n \in Journal /\ n \in Journal' /\ Saves' = Saves
  BY <1>2, <1>6 DEF Journal, Complete, Saves
<1>8. Undoable(n) /\ Undoable(n)'
  BY <1>2, <1>5, <1>6 DEF Undoable, Complete, Backups, Existed, Targets
<1>9. ~Returnable(n) /\ ~Returnable(n)'
  BY <1>2, <1>5, <1>6 DEF Returnable
<1>10. Restored(n)' = Restored(n)
  BY <1>2, <1>6 DEF Restored, Targets
<1> QED
  BY <1>7, <1>8, <1>9, <1>10 DEF Viewed, Hidden

LEMMA ProposeBegins ==
  ASSUME JournalInv, Viewed, Viewed', NEW w \in Writer, Touches(w), Propose(w)
  PROVE  Workspace!Begin
<1>1. /\ JournalTyped /\ UNCHANGED files /\ proc[w].pc # "sweeping" /\ proc'[w].pc # "sweeping"
      /\ Len(ops) \in Nat
  BY JournalTyping, ProcAfter DEF JournalInv, Propose, At, Now
<1>2. /\ DOMAIN ops = 1..Len(ops) /\ DOMAIN ops' = 1..Len(ops) + 1
      /\ \A n \in DOMAIN ops : ops'[n] = ops[n]
      /\ ~ops'[Len(ops) + 1].dir /\ ops'[Len(ops) + 1].fate = "open"
  BY <1>1, ProposeStep
<1>3. Journal' = Journal
  BY <1>1, <1>2 DEF Journal
<1>4. Durable' = Durable /\ Before' = Before
  <2>1. CASE Journal = {}
    BY <1>1, <1>3, <2>1 DEF Viewed
  <2>2. ASSUME NEW n \in Journal
        PROVE  Durable' = Durable /\ Before' = Before
    <3>1. ops'[n] = ops[n] /\ (Removing(n)' <=> Removing(n))
      BY <1>1, <1>2, RemovingKept DEF Journal
    <3>2. Undoable(n)' <=> Undoable(n)
      BY <3>1 DEF Undoable, Complete, Backups, Existed, Targets
    <3>3. Returnable(n)' <=> Returnable(n)
      BY <1>1, <3>1 DEF Returnable, Complete, Backups, Existed, Targets
    <3>4. Restored(n)' = Restored(n)
      BY <1>1, <3>1 DEF Restored, Targets
    <3> QED
      BY <1>1, <1>3, <3>2, <3>3, <3>4 DEF Viewed
  <2> QED
    BY <2>1, <2>2
<1>5. Len(Saves) = Len(ops) /\ Len(Saves') = Len(ops) + 1 /\ Saves \in Seq(Shown) /\ Saves' \in Seq(Shown)
  <2>1. Len(Saves') = Len(ops') /\ Saves' \in Seq(Shown) /\ Len(Saves) = Len(ops) /\ Saves \in Seq(Shown)
    BY DEF Viewed
  <2>2. DOMAIN Saves' = 1..Len(Saves') /\ DOMAIN Saves' = DOMAIN ops' /\ Len(Saves') \in Nat
    BY <2>1, LenProperties DEF Saves
  <2> QED
    BY <1>1, <1>2, <2>1, <2>2
<1>6. \A n \in 1..Len(Saves) : Saves'[n] = Saves[n]
  <2>1. ASSUME NEW n \in DOMAIN ops
        PROVE  Saves'[n] = Saves[n]
    <3>1. n \in DOMAIN ops' /\ ops'[n] = ops[n]
      BY <1>1, <1>2, <2>1
    <3> QED
      BY <2>1, <3>1 DEF Saves
  <2> QED
    BY <1>1, <1>2, <1>5, <2>1
<1>7. Saves'[Len(Saves')].fate = "open"
  <2>1. Len(Saves') \in DOMAIN ops' /\ ops'[Len(Saves')].fate = "open"
    BY <1>1, <1>2, <1>5
  <2> QED
    BY <2>1 DEF Saves
<1>8. SubSeq(Saves', 1, Len(Saves)) = Saves
  <2> DEFINE k == Len(Saves)
             short == SubSeq(Saves', 1, k)
  <2>1. \A n \in 1..k : Saves'[n] \in Shown
    BY <1>1, <1>5, <1>6, ElementOfSeq
  <2>2. short \in Seq(Shown) /\ Len(short) = k /\ \A n \in 1..k : short[n] = Saves'[n]
    BY <1>1, <1>5, <2>1, SubSeqProperties
  <2> HIDE DEF short
  <2>3. short = Saves
    BY <1>5, <1>6, <2>2, SeqEqual
  <2> QED
    BY <2>3 DEF short
<1> QED
  BY <1>4, <1>5, <1>7, <1>8 DEF Workspace!Begin

LEMMA OpenHidden ==
  ASSUME JournalInv, ~SomeLate', Viewed, Viewed', NEW w \in Writer, Touches(w), OpenOperation(w)
  PROVE  Hidden
<1>1. PICK n : n = proc[w].op
  OBVIOUS
<1>2. UNCHANGED files /\ Journal = {}
  <2>1. n \in DOMAIN ops' /\ ops'[n].late = (Journal # {})
    BY <1>1, OpenRecord
  <2> QED
    BY <2>1 DEF OpenOperation, SomeLate
<1>3. n \in Journal' /\ ops'[n].parts = {} /\ Saves' = Saves
  <2>1. /\ n \in DOMAIN ops /\ DOMAIN ops' = DOMAIN ops /\ ops'[n].dir /\ ops'[n].parts = {}
        /\ ops'[n].fate = ops[n].fate /\ ops'[n].plan = ops[n].plan /\ ops'[n].old = ops[n].old
        /\ \A m \in DOMAIN ops \ {n} : ops'[m] = ops[m]
    BY <1>1, OpenRecord
  <2> QED
    BY <2>1 DEF Journal, Saves
<1>4. ~Complete(n)'
  BY <1>3 DEF Complete
<1>5. ~Undoable(n)' /\ ~Returnable(n)'
  BY <1>4 DEF Undoable, Returnable
<1> QED
  BY <1>2, <1>3, <1>5 DEF Viewed, Hidden

\* Once the backups are there, a recovery restores the files as they are.
LEMMA StageHidden ==
  ASSUME JournalInv, Viewed, Viewed', NEW w \in Writer, Touches(w), Stage(w)
  PROVE  Hidden
<1>1. PICK n : n = proc[w].op
  OBVIOUS
<1>2. UNCHANGED files /\ files \in [File -> Content]
  BY DEF Stage, JournalInv, JournalTyped
<1>3. /\ n \in DOMAIN ops /\ DOMAIN ops' = DOMAIN ops
      /\ ops[n].fate = "open" /\ ops[n].parts = {} /\ ops[n].dir /\ ops[n].old = files
      /\ ops'[n].dir /\ ops'[n].fate = "open" /\ ops'[n].plan = ops[n].plan /\ ops'[n].old = files
      /\ \A m \in DOMAIN ops \ {n} : ops'[m] = ops[m]
  BY <1>1, StageRecord
<1>4. n \in Journal /\ n \in Journal' /\ Saves' = Saves
  BY <1>3 DEF Journal, Saves
<1>5. ~Undoable(n) /\ ~Returnable(n) /\ ~Returnable(n)'
  BY <1>3 DEF Undoable, Returnable, Complete
<1>6. Restored(n)' = files
  BY <1>2, <1>3 DEF Restored
<1> QED
  BY <1>2, <1>4, <1>5, <1>6 DEF Viewed, Hidden

\* The marker makes the save visible, all of it, on what its caller expected.
LEMMA MarkCommits ==
  ASSUME JournalInv, Viewed, Viewed', NEW w \in Writer, Touches(w), MarkCommitted(w)
  PROVE  \E n \in DOMAIN Saves : Workspace!Commit(n)
<1>1. PICK n : n = proc[w].op
  OBVIOUS
<1>2. /\ n \in DOMAIN ops /\ Complete(n) /\ Marker \notin ops[n].parts /\ ops[n].fate = "open"
      /\ ops' = [ops EXCEPT ![n] = [ops[n] EXCEPT !.parts = ops[n].parts \cup {Marker},
                                                  !.fate = "committed"]]
      /\ ops'[n].parts = ops[n].parts \cup {Marker} /\ ops'[n].fate = "committed"
      /\ \A f \in File : files[f] = IF f \in Targets(n) THEN ops[n].plan[f] ELSE ops[n].old[f]
  <2>1. n \in DOMAIN ops /\ Complete(n)
    BY <1>1, CommitSound
  <2>4. Marker \notin ops[n].parts /\ ops[n].fate = "open"
    BY <1>1, CommitSound
  <2>5. ops'[n].parts = ops[n].parts \cup {Marker} /\ ops'[n].fate = "committed"
    BY <1>1, CommitSound
  <2>2. ops' = [ops EXCEPT ![n] = [ops[n] EXCEPT !.parts = ops[n].parts \cup {Marker},
                                                 !.fate = "committed"]]
    BY <1>1, CommitSound
  <2>3. \A f \in File : files[f] = IF f \in Targets(n) THEN ops[n].plan[f] ELSE ops[n].old[f]
    <3>1. /\ JournalTyped /\ OpSound(w) /\ proc[w].pc = "applying" /\ proc[w].todo = {}
          /\ Targets(n) \subseteq File
      BY <1>1, <2>1, JournalTyping DEF JournalInv, WriterSound, MarkCommitted, At
    <3> QED
      BY <1>1, <3>1 DEF OpSound, At, Op, Plan, Old, Targets
  <2> QED
    BY <2>1, <2>2, <2>3, <2>4, <2>5
<1>3. /\ JournalTyped /\ UNCHANGED files /\ files \in [File -> Content] /\ ops[n] \in Save
      /\ proc[w].pc \in Locked \ {"sweeping"}
  BY <1>2, JournalTyping DEF MarkCommitted, JournalInv, JournalTyped, At, Locked
<1>4. /\ DOMAIN ops' = DOMAIN ops /\ ops'[n].dir = ops[n].dir /\ ops'[n].plan = ops[n].plan
      /\ ops'[n].old = ops[n].old /\ \A m \in DOMAIN ops \ {n} : ops'[m] = ops[m]
  BY <1>2, <1>3 DEF Save
<1>5. n \in Journal /\ n \in Journal'
  BY <1>2, <1>4 DEF Journal, Complete
<1>6. Undoable(n)
  BY <1>2, <1>3, RemovingOnly DEF Undoable
<1>7. Durable = ops[n].old
  <2>1. ops[n].old \in [File -> Content]
    BY <1>3 DEF Save
  <2>2. Restored(n) = ops[n].old
    BY <1>2, <1>3, <2>1 DEF Restored
  <2> QED
    BY <1>5, <1>6, <2>2 DEF Viewed
<1>8. Durable' = files
  <2>1. ~Undoable(n)'
    BY <1>2 DEF Undoable
  <2> QED
    BY <1>3, <1>5, <2>1 DEF Viewed
<1>9. Durable' = Workspace!Overlay(ops[n].plan, Durable)
  <2>1. DOMAIN Durable = File /\ Targets(n) = DOMAIN ops[n].plan
    BY <1>3, <1>7 DEF Save, Targets
  <2> QED
    BY <1>2, <1>3, <1>7, <1>8, <2>1 DEF Workspace!Overlay
<1>10. Before' \in {Durable, NoRevision}
  <2>1. Restored(n)' = ops[n].old
    <3>1. Restored(n)' = Restored(n)
      BY <1>3, <1>4 DEF Restored, Targets
    <3> QED
      BY <1>5, <1>6, <1>7, <3>1 DEF Viewed
  <2> QED
    BY <1>5, <1>7, <2>1 DEF Viewed
<1>11. /\ Saves[n].fate = "open" /\ Saves[n].expected = Durable /\ Saves[n].plan = ops[n].plan
       /\ n \in DOMAIN Saves
  BY <1>2, <1>7 DEF Saves
<1>12. Saves' = [Saves EXCEPT ![n].fate = "committed"]
  BY <1>2, <1>4 DEF Saves
<1> QED
  BY <1>9, <1>10, <1>11, <1>12 DEF Workspace!Commit

LEMMA RestoredHidden ==
  ASSUME JournalInv, Viewed, Viewed', NEW w \in Writer, Touches(w), AllRestored(w)
  PROVE  Hidden
<1>1. PICK n : n = proc[w].op
  OBVIOUS
<1>2. /\ UNCHANGED <<ops, files>> /\ proc[w].pc = "restoring" /\ proc[w].todo = {} /\ JournalTyped
      /\ files \in [File -> Content]
  BY DEF AllRestored, At, JournalInv, JournalTyped
<1>3. /\ n \in DOMAIN ops /\ ops[n].dir /\ Marker \notin ops[n].parts
      /\ \A f \in Targets(n) : files[f] = ops[n].old[f]
  BY <1>1, <1>2, Restoring
<1>4. n \in Journal /\ n \in Journal' /\ Saves' = Saves
  BY <1>2, <1>3 DEF Journal, Saves
<1>5. Restored(n) = files
  BY <1>2, <1>3 DEF Restored
<1>6. Removing(n)'
  BY <1>1, <1>2, ProcAfter DEF Now, Removing, At
<1>7. ~Undoable(n)' /\ ~Returnable(n) /\ ~Returnable(n)'
  BY <1>2, <1>3, <1>6 DEF Undoable, Returnable, Targets
<1> QED
  BY <1>2, <1>4, <1>5, <1>7 DEF Viewed, Hidden

\* While a directory is removed nothing is seen, until nobody could go back.
LEMMA SweepSettles ==
  ASSUME JournalInv, Viewed, Viewed', NEW w \in Writer, Touches(w), Sweep(w)
  PROVE  Hidden \/ Workspace!Settle
<1>1. PICK n : n = proc[w].op
  OBVIOUS
<1>2. UNCHANGED files /\ proc[w].pc = "sweeping" /\ JournalTyped
  BY DEF Sweep, At, JournalInv
<1>3. /\ n \in DOMAIN ops /\ ops[n].dir
      /\ ops'[n].parts \subseteq ops[n].parts /\ ops'[n].fate = ops[n].fate /\ ops'[n].dir
      /\ ops'[n].plan = ops[n].plan /\ ops'[n].old = ops[n].old
  <2>1. n \in DOMAIN ops /\ ops[n].dir
    BY <1>1, SweepSound
  <2>2. ops'[n].parts \subseteq ops[n].parts /\ ops'[n].fate = ops[n].fate
    BY <1>1, SweepSound
  <2>3. ops'[n].dir /\ ops'[n].plan = ops[n].plan /\ ops'[n].old = ops[n].old
    BY <1>1, SweepSound
  <2> QED
    BY <2>1, <2>2, <2>3
<1>4. PICK part \in ops[n].parts :
          ops' = [ops EXCEPT ![n] = [ops[n] EXCEPT !.parts = ops[n].parts \ {part}]]
  BY <1>1 DEF Sweep, Op
<1>5. n \in Journal /\ n \in Journal' /\ Saves' = Saves
  BY <1>3, <1>4 DEF Journal, Saves
<1>6. Removing(n) /\ Removing(n)'
  BY <1>1, <1>2, ProcAfter DEF Now, Removing, At
<1>7. Durable' = Durable
  BY <1>2, <1>5, <1>6 DEF Viewed, Undoable
<1>8. Restored(n)' = Restored(n)
  BY <1>2, <1>3 DEF Restored, Targets
<1>9. CASE Returnable(n)'
  <2>1. Complete(n)
    BY <1>3, <1>9 DEF Returnable, Complete, Backups, Existed, Targets
  <2>2. Returnable(n)
    BY <1>2, <1>3, <1>6, <1>9, <2>1 DEF Returnable, Targets
  <2> QED
    BY <1>5, <1>7, <1>8, <1>9, <2>2 DEF Viewed, Hidden
<1>10. CASE ~Returnable(n)'
  <2>1. Before' = NoRevision
    BY <1>5, <1>10 DEF Viewed
  <2> QED
    BY <1>5, <1>7, <2>1 DEF Workspace!Settle
<1> QED
  BY <1>9, <1>10

\* A directory that is left behind without its marker, by a process that dies or
\* that fails to remove it, is of a save that is undone, if its caller was not
\* told of it.
LEMMA RemovalStops ==
  ASSUME JournalInv, Viewed, Viewed', NEW n \in Journal, n \in Journal', UNCHANGED <<files, Saves>>,
         Removing(n), ~Removing(n)',
         ops'[n].plan = ops[n].plan, ops'[n].old = ops[n].old, ops'[n].dir = ops[n].dir,
         ops'[n].parts = ops[n].parts, ops'[n].fate = ops[n].fate,
         ops[n].fate = "told" => ~Complete(n),
         ops[n].fate = "open" => \A f \in Targets(n) : files[f] = ops[n].old[f]
  PROVE  Hidden \/ Workspace!Undo
<1>1. JournalTyped /\ files \in [File -> Content] /\ n \in DOMAIN ops
  BY DEF JournalInv, JournalTyped, Journal
<1>2. ops[n].fate \in {"open", "committed", "told"}
  <2>1. ops[n] \in Save
    BY <1>1, JournalTyping
  <2> QED
    BY <2>1 DEF Save
<1>3. Restored(n)' = Restored(n) /\ (Complete(n)' <=> Complete(n)) /\ Targets(n)' = Targets(n)
  BY DEF Restored, Complete, Backups, Existed, Targets
<1>4. ~Undoable(n) /\ Durable = files
  BY DEF Undoable, Viewed
<1>5. CASE ~Complete(n) \/ Marker \in ops[n].parts
  <2>1. ~Undoable(n)' /\ (Returnable(n)' <=> Returnable(n))
    BY <1>3, <1>5 DEF Undoable, Returnable
  <2> QED
    BY <1>3, <1>4, <2>1 DEF Viewed, Hidden
<1>6. CASE Complete(n) /\ Marker \notin ops[n].parts
  <2>1. Undoable(n)' /\ ~Returnable(n)'
    BY <1>3, <1>6 DEF Undoable, Returnable
  <2>2. Durable' = Restored(n) /\ Before' = NoRevision
    BY <1>3, <2>1 DEF Viewed
  <2>3. CASE Returnable(n)
    <3>1. Before = Restored(n)
      BY <2>3 DEF Viewed
    <3>2. Restored(n) # NoRevision
      <4>1. PICK f \in Targets(n) : TRUE
        BY <2>3 DEF Returnable
      <4>2. f \in File
        BY <1>1, <4>1, JournalTyping
      <4>3. DOMAIN Restored(n) = File
        BY DEF Restored
      <4>4. DOMAIN NoRevision = {}
        BY DEF NoRevision
      <4> QED
        BY <4>2, <4>3, <4>4
    <3> QED
      BY <2>2, <3>1, <3>2 DEF Workspace!Undo
  <2>4. CASE ~Returnable(n)
    <3>1. \A f \in Targets(n) : files[f] = ops[n].old[f]
      BY <1>2, <1>6, <2>4 DEF Returnable
    <3>2. Restored(n) = files
      BY <1>1, <3>1 DEF Restored
    <3> QED
      BY <1>4, <2>2, <2>4, <3>2 DEF Viewed, Hidden
  <2> QED
    BY <2>3, <2>4
<1> QED
  BY <1>5, <1>6

LEMMA NoLongerRemoving ==
  ASSUME JournalInv, NEW w \in Writer, Touches(w), Crash(w) \/ Swept(w), proc[w].pc = "sweeping", NEW n
  PROVE  ~Removing(n)'
<1>1. proc'[w].pc # "sweeping"
  BY ProcAfter, SkipAfter DEF Now, JournalInv
<1>2. \A v \in Writer \ {w} : proc[v].pc # "sweeping"
  BY DEF JournalInv, WriterSound, Holding, Locked
<1> QED
  BY <1>1, <1>2 DEF Removing, Touches, At

\* What is known of the save whose directory a process removes.
LEMMA Sweeping ==
  ASSUME JournalInv, NEW w \in Writer, proc[w].pc = "sweeping", NEW n, n = proc[w].op
  PROVE  /\ n \in DOMAIN ops /\ n \in Journal /\ Removing(n)
         /\ ops[n].fate = "open" => \A f \in Targets(n) : files[f] = ops[n].old[f]
         /\ proc[w].left = {} /\ ops[n].fate = "committed" =>
              \A f \in Targets(n) : files[f] = ops[n].plan[f]
         /\ ops[n].fate = "told" /\ ~ops[n].kept => ~Complete(n)
<1>1. n # 0 /\ ops[n].dir /\ JournalTyped /\ OpSound(w)
  BY DEF JournalInv, WriterSound, OpSound, At, Op
<1>2. n \in DOMAIN ops
  BY <1>1, JournalTyping
<1>3. n \in Journal /\ Removing(n)
  BY <1>1, <1>2 DEF Journal, Removing, At
<1>4. /\ ops[n].fate = "open" => \A f \in Targets(n) : files[f] = ops[n].old[f]
      /\ proc[w].left = {} /\ ops[n].fate = "committed" =>
           \A f \in Targets(n) : files[f] = ops[n].plan[f]
  BY <1>1 DEF OpSound, At, Op, Old, Plan, Targets
<1>5. ops[n].fate = "told" /\ ~ops[n].kept => ~Complete(n)
  BY <1>2 DEF JournalInv, RecordsSound, RecordSound
<1> QED
  BY <1>2, <1>3, <1>4, <1>5

LEMMA CrashUndoes ==
  ASSUME JournalInv, ~Disturbed', Viewed, Viewed', NEW w \in Writer, Touches(w), Crash(w),
         proc[w].pc = "sweeping"
  PROVE  Hidden \/ Workspace!Undo
<1>1. PICK n : n = proc[w].op
  OBVIOUS
<1>2. UNCHANGED <<ops, files>>
  BY DEF Crash
<1>3. n \in DOMAIN ops /\ n \in Journal /\ Removing(n)
  BY <1>1, Sweeping
<1>4. /\ ops[n].fate = "open" => \A f \in Targets(n) : files[f] = ops[n].old[f]
      /\ ops[n].fate = "told" /\ ~ops[n].kept => ~Complete(n)
  BY <1>1, Sweeping
<1>5. ~ops[n].kept
  BY <1>2, <1>3 DEF Disturbed
<1>6. n \in Journal' /\ Saves' = Saves /\ ~Removing(n)'
  BY <1>2, <1>3, NoLongerRemoving DEF Journal, Saves
<1> QED
  BY <1>2, <1>3, <1>4, <1>5, <1>6, RemovalStops

\* A caller is told when the directory is gone or what is left of it cannot undo
\* the save; its save is what is there.
LEMMA SweptTells ==
  ASSUME JournalInv, ~Disturbed', Single, Viewed, Viewed', NEW w \in Writer, Touches(w), Swept(w)
  PROVE  Hidden \/ Workspace!Undo \/ \E n \in DOMAIN Saves : Workspace!Tell(n)
<1>1. PICK n : n = proc[w].op
  OBVIOUS
<1>2. UNCHANGED files /\ proc[w].pc = "sweeping" /\ files \in [File -> Content]
  BY DEF Swept, At, JournalInv, JournalTyped
<1>3. n \in DOMAIN ops /\ n \in Journal /\ Removing(n)
  BY <1>1, <1>2, Sweeping
<1>4. /\ ops[n].fate = "open" => \A f \in Targets(n) : files[f] = ops[n].old[f]
      /\ proc[w].left = {} /\ ops[n].fate = "committed" =>
           \A f \in Targets(n) : files[f] = ops[n].plan[f]
      /\ ops[n].fate = "told" /\ ~ops[n].kept => ~Complete(n)
  BY <1>1, <1>2, Sweeping
<1>5. /\ DOMAIN ops' = DOMAIN ops /\ (\A m \in DOMAIN ops \ {n} : ops'[m] = ops[m])
      /\ ops'[n].plan = ops[n].plan /\ ops'[n].old = ops[n].old /\ ops[n].dir
      /\ ops'[n].dir = (ops[n].parts # {}) /\ ops'[n].parts = ops[n].parts
  BY <1>1, SweptSound
<1>6. IF proc[w].left = {} /\ ops[n].fate = "committed"
      THEN ops'[n].fate = "told" /\ ops'[n].kept = Complete(n)
      ELSE ops'[n].fate = ops[n].fate /\ ops'[n].kept = ops[n].kept
  BY <1>1, SweptSound
<1>7. ~ops'[n].kept
  BY <1>3, <1>5 DEF Disturbed
<1>8. Durable = files
  BY <1>3 DEF Viewed, Undoable
<1>9. ASSUME ~Complete(n)
      PROVE  Durable' = files /\ Before = NoRevision /\ Before' = NoRevision
  <2>1. ~Complete(n)'
    BY <1>5, <1>9 DEF Complete, Backups, Existed, Targets
  <2>2. ~Undoable(n)' /\ ~Returnable(n) /\ ~Returnable(n)'
    BY <1>9, <2>1 DEF Undoable, Returnable
  <2>3. Journal' = {} \/ n \in Journal'
    BY <1>3, <1>5 DEF Single, Journal
  <2> QED
    BY <1>2, <1>3, <2>2, <2>3 DEF Viewed
<1>10. CASE proc[w].left = {} /\ ops[n].fate = "committed"
  <2>1. ~Complete(n) /\ ops'[n].fate = "told"
    BY <1>6, <1>7, <1>10
  <2>2. Durable' = files /\ Before' = NoRevision
    BY <1>9, <2>1
  <2>3. Durable = Workspace!Overlay(ops[n].plan, Durable)
    BY <1>2, <1>4, <1>8, <1>10 DEF Workspace!Overlay, Targets
  <2>4. Saves' = [Saves EXCEPT ![n].fate = "told"]
    BY <1>3, <1>5, <2>1 DEF Saves
  <2>5. n \in DOMAIN Saves /\ Saves[n].fate = "committed" /\ Saves[n].plan = ops[n].plan
    BY <1>3, <1>10 DEF Saves
  <2> QED
    BY <1>8, <2>2, <2>3, <2>4, <2>5 DEF Workspace!Tell
<1>11. CASE ~(proc[w].left = {} /\ ops[n].fate = "committed")
  <2>1. ops'[n].fate = ops[n].fate /\ ~ops[n].kept
    BY <1>6, <1>7, <1>11
  <2>2. Saves' = Saves
    BY <1>3, <1>5, <2>1 DEF Saves
  <2>3. CASE ops[n].parts = {}
    <3>1. ~Complete(n)
      BY <2>3 DEF Complete
    <3> QED
      BY <1>8, <1>9, <2>2, <3>1 DEF Hidden
  <2>4. CASE ops[n].parts # {}
    <3>1. n \in Journal' /\ ops'[n].dir = ops[n].dir /\ ~Removing(n)'
      BY <1>2, <1>3, <1>5, <2>4, NoLongerRemoving DEF Journal
    <3> QED
      BY <1>2, <1>3, <1>4, <1>5, <2>1, <2>2, <3>1, RemovalStops
  <2> QED
    BY <2>3, <2>4
<1> QED
  BY <1>10, <1>11

LEMMA StepShown ==
  ASSUME JournalInv, Single, ~Disturbed', Viewed, Viewed', [JournalNext]_journalVars
  PROVE  [Workspace!WorkspaceNext]_(Workspace!workspaceVars)
<1>1. CASE RemoveLock \/ UNCHANGED journalVars
  <2>1. UNCHANGED <<ops, files, proc>>
    BY <1>1 DEF RemoveLock, journalVars
  <2>2. \A n \in Journal : Removing(n)' <=> Removing(n)
    BY <2>1 DEF Removing, At
  <2> QED
    BY <2>1, <2>2, NothingMoves DEF Hidden, Workspace!workspaceVars
<1>2. ASSUME NEW w \in Writer, WriterStep(w)
      PROVE  \/ Hidden \/ Workspace!Begin \/ Workspace!Undo \/ Workspace!Settle
             \/ \E n \in DOMAIN Saves : Workspace!Commit(n) \/ Workspace!Tell(n)
  <2>1. Touches(w) /\ ~SomeLate'
    BY <1>2, StepTyped DEF Disturbed, SomeLate
  <2>2. CASE Propose(w)
    BY <2>1, <2>2, ProposeBegins
  <2>3. CASE OpenOperation(w) \/ Stage(w) \/ AllRestored(w) \/ Recover(w)
    BY <2>1, <2>3, OpenHidden, StageHidden, RestoredHidden, RecoverHidden
  <2>4. CASE Apply(w) \/ RenameBackup(w) \/ RemoveCreated(w)
    BY <2>1, <2>4, FilesHidden
  <2>5. CASE MarkCommitted(w)
    BY <2>1, <2>5, MarkCommits
  <2>6. CASE Sweep(w)
    BY <2>1, <2>6, SweepSettles
  <2>7. CASE Swept(w)
    BY <2>1, <2>7, SweptTells
  <2>8. CASE Crash(w) /\ proc[w].pc = "sweeping"
    BY <2>1, <2>8, CrashUndoes
  <2>9. CASE \/ FindNoJournal(w) \/ Load(w) \/ AcquireLock(w) \/ FindLocked(w) \/ Conflict(w)
             \/ Fail(w) \/ CopyBackup(w) \/ FailRestore(w) \/ StartRecovery(w) \/ EndRecovery(w)
             \/ Crash(w) /\ proc[w].pc # "sweeping"
    BY <2>1, <2>9, DecisionsHidden
  <2> QED
    BY <1>2, <2>2, <2>3, <2>4, <2>5, <2>6, <2>7, <2>8, <2>9 DEF WriterStep
<1> QED
  BY <1>1, <1>2 DEF JournalNext, Hidden, Workspace!WorkspaceNext, Workspace!workspaceVars

\* A step before anything disturbs the journal is taken with one operation in it.
LEMMA UndisturbedStep ==
  ASSUME JournalInv, JournalInv', Alone, Alone', [JournalNext]_journalVars
  PROVE  [Disturbed' \/ Workspace!WorkspaceNext]_(Workspace!workspaceVars)
<1>1. CASE Disturbed'
  BY <1>1
<1>2. CASE ~Disturbed'
  <2>1. ~SomeLate'
    BY <1>2 DEF Disturbed, SomeLate
  <2>2. ~SomeLate
    BY <2>1, LateStays
  <2>3. Single /\ Single'
    BY <2>1, <2>2 DEF Alone
  <2>4. Viewed
    BY <2>3, SingleViewed
  <2>5. Viewed'
    <3>1. JournalInv' /\ Single' => Viewed'
      BY SingleViewed, PTL
    <3> QED
      BY <2>3, <3>1
  <2>6. [Workspace!WorkspaceNext]_(Workspace!workspaceVars)
    BY <1>2, <2>3, <2>4, <2>5, StepShown
  <2> QED
    BY <2>6
<1> QED
  BY <1>1, <1>2

\* Over every crash, failure and recovery, and for any number of processes and
\* files, the journal implements the abstract workspace at every step before a
\* save comes late or is reported although it can be undone: it takes effect
\* whole, on the content its caller had loaded, and stays once it is reported.
\* Nothing is assumed of what fails or of who comes when.
THEOREM SavesAreAtomic == JournalSpec => AtomicUntilDisturbed
<1>1. JournalInit => Alone
  BY DEF JournalInit, Alone, Single, Journal
<1>2. JournalInit => Workspace!WorkspaceInit
  BY DEF JournalInit, Saves, Before, CanGoBack, Journal, Workspace!WorkspaceInit
<1>3. JournalInv /\ Alone /\ [JournalNext]_journalVars => JournalInv' /\ Alone'
  BY JournalNextInv, StepAlone
<1>4. JournalInv /\ JournalInv' /\ Alone /\ Alone' /\ [JournalNext]_journalVars
        => [Disturbed' \/ Workspace!WorkspaceNext]_(Workspace!workspaceVars)
  BY UndisturbedStep
<1> QED
  BY <1>1, <1>2, <1>3, <1>4, JournalInitInv, PTL DEF JournalSpec, AtomicUntilDisturbed
=============================================================================
