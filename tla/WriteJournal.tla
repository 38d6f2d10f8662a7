---------------------------- MODULE WriteJournal ----------------------------
(***************************************************************************)
(* Saving a workspace directory: commitWritePlan and                       *)
(* recoverPendingWriteJournal (packages/core/src/storage/writeJournal.ts), *)
(* run by processes that share nothing but the directory.  An action is    *)
(* one change of the directory, so a crash can fall between any two; plans *)
(* are applied in path order, which the numbering of the files stands for. *)
(***************************************************************************)
EXTENDS Naturals, Sequences, FiniteSets

CONSTANTS
  Writer,      \* processes that load and save the workspace
  NFiles,      \* its managed files
  Existing,    \* those that exist at first
  MaxSaves,    \* bound: saves that get past their checks
  MaxCrashes,  \* bound: processes that die
  Faults       \* operations that may fail: write, rollback, recovery, removal

ASSUME JournalBounds ==
  NFiles \in Nat /\ Existing \subseteq 1..NFiles /\ MaxSaves \in Nat /\ MaxCrashes \in Nat
  /\ Faults \subseteq {"write", "rollback", "recovery", "removal"}

VARIABLES
  files,   \* the managed files; 0 is an absent file
  stray,   \* a dead process left its temporary file in an asset directory
  lock,    \* .apicc/write-lock: the process that created it, if it exists
  ops,     \* per save: its plan and its directory in .apicc/write-journal
  proc,    \* what each process is doing
  crashes

journalVars == <<files, stray, lock, ops, proc, crashes>>

File == 1..NFiles
Absent == 0
Content == 0..MaxSaves + 1
NoRevision == <<>>
Manifest == <<"manifest", 0>>
Marker == <<"committed", 0>>
Backup(f) == <<"backup", f>>

\* Of a save, as history for the properties: applied are the files given its text
\* and not restored since; late, that the journal already held an operation when
\* it opened its own; kept, that its caller was told while its record was complete.
\* Of a process, left are the operations a recovery has yet to finish; todo, the
\* files of the operation op yet to be replaced, or to be restored.
Working == {"clear", "checked", "locked", "staging", "applying", "restoring",
            "copied", "sweeping", "recovering", "visited"}
Resting == [pc |-> "idle", op |-> 0, todo |-> {}, left |-> {}, seen |-> NoRevision]

JournalTypeOK ==
  /\ files \in [File -> Content] /\ stray \in BOOLEAN
  /\ lock \subseteq Writer /\ Cardinality(lock) <= 1
  /\ Len(ops) <= MaxSaves
  /\ \A n \in DOMAIN ops :
       /\ ops[n].dir \in BOOLEAN /\ ops[n].fate \in {"open", "committed", "told"}
       /\ ops[n].parts \subseteq {Manifest, Marker} \cup {Backup(f) : f \in File}
       /\ ops[n].old \in [File -> Content]
       /\ ops[n].applied \subseteq File /\ ops[n].late \in BOOLEAN /\ ops[n].kept \in BOOLEAN
  /\ \A w \in Writer :
       /\ proc[w].pc \in Working \cup {"idle"}
       /\ proc[w].todo \subseteq File /\ proc[w].left \subseteq DOMAIN ops
       /\ proc[w].op \in 0..Len(ops)
  /\ crashes \in 0..MaxCrashes

JournalInit ==
  /\ files = [f \in File |-> IF f \in Existing THEN 1 ELSE Absent] /\ stray = FALSE
  /\ lock = {} /\ ops = <<>>
  /\ proc = [w \in Writer |-> Resting]
  /\ crashes = 0
-----------------------------------------------------------------------------
At(w, pc) == proc[w].pc = pc
Op(w) == ops[proc[w].op]
Recovering(w) == proc[w].left # {}
Journal == {n \in DOMAIN ops : ops[n].dir}
Targets(n) == DOMAIN ops[n].plan
Existed(n) == {f \in Targets(n) : ops[n].old[f] # Absent}
Backups(n) == {Backup(f) : f \in Existed(n)}
Complete(n) == ops[n].dir /\ ({Manifest} \cup Backups(n)) \subseteq ops[n].parts
First(S) == CHOOSE f \in S : \A g \in S : f <= g
Last(S) == CHOOSE f \in S : \A g \in S : g <= f

Unexpected == stray \/ \E w \in Writer : At(w, "copied")

Become(w, pc) == proc' = [proc EXCEPT ![w].pc = pc]
Release(w, pc) ==
  /\ proc' = [proc EXCEPT ![w].pc = pc, ![w].op = 0, ![w].todo = {}]
  /\ lock' = {}

\* Recovery is done with operation n.
Skip(w, n) ==
  LET left == proc[w].left \ {n}
  IN proc' = [proc EXCEPT ![w].pc = IF left = {} THEN "visited" ELSE "recovering",
                          ![w].op = 0, ![w].todo = {}, ![w].left = left]

(***************************************************************************)
(* Loading, and the checks of a save before it takes the lock              *)
(***************************************************************************)

FindNoJournal(w) ==
  /\ At(w, "idle") /\ Journal = {}
  /\ Become(w, "clear")
  /\ UNCHANGED <<files, stray, lock, ops, crashes>>

\* The loaded revision.  An unexpected file makes the load read-only.
Load(w) ==
  /\ At(w, "clear")
  /\ proc' = [proc EXCEPT ![w].pc = "idle", ![w].seen = IF Unexpected THEN NoRevision ELSE files]
  /\ UNCHANGED <<files, stray, lock, ops, crashes>>

\* A plan gives a file new text, the text it has, or deletes it (callers delete
\* files they have loaded, and write those that did not change as well).
Propose(w) ==
  /\ At(w, "clear") /\ ~Unexpected /\ proc[w].seen = files /\ Len(ops) < MaxSaves
  /\ \E targets \in SUBSET File \ {{}} :
       \E plan \in [targets -> {Absent, Len(ops) + 2} \cup {files[f] : f \in targets}] :
         /\ \A f \in targets : /\ plan[f] \in {Absent, Len(ops) + 2, files[f]}
                              /\ plan[f] = Absent => files[f] # Absent
         /\ ops' = Append(ops, [plan |-> plan, old |-> files, dir |-> FALSE,
                                parts |-> {}, fate |-> "open",
                                applied |-> {}, late |-> FALSE, kept |-> FALSE])
  /\ proc' = [proc EXCEPT ![w].pc = "checked", ![w].op = Len(ops) + 1]
  /\ UNCHANGED <<files, stray, lock, crashes>>

AcquireLock(w) ==
  /\ At(w, "checked") /\ lock = {}
  /\ lock' = {w} /\ Become(w, "locked")
  /\ UNCHANGED <<files, stray, ops, crashes>>

FindLocked(w) ==
  /\ At(w, "checked") /\ lock # {}
  /\ proc' = [proc EXCEPT ![w].pc = "idle", ![w].op = 0]
  /\ UNCHANGED <<files, stray, lock, ops, crashes>>

(***************************************************************************)
(* A save under the lock                                                   *)
(***************************************************************************)

\* Mutant: the revision is not compared again once the lock is held.
StaleOpen(w) ==
  /\ At(w, "locked")
  /\ ops' = [ops EXCEPT ![proc[w].op].dir = TRUE, ![proc[w].op].late = Journal # {}]
  /\ Become(w, "staging")
  /\ UNCHANGED <<files, stray, lock, crashes>>

OpenOperation(w) ==
  /\ At(w, "locked") /\ ~Unexpected /\ proc[w].seen = files
  /\ ops' = [ops EXCEPT ![proc[w].op].dir = TRUE, ![proc[w].op].late = Journal # {}]
  /\ Become(w, "staging")
  /\ UNCHANGED <<files, stray, lock, crashes>>

Conflict(w) ==
  /\ At(w, "locked") /\ (Unexpected \/ proc[w].seen # files \/ "write" \in Faults)
  /\ Release(w, "idle")
  /\ UNCHANGED <<files, stray, ops, crashes>>

\* Mutant: no backup of the files a plan deletes.
BackUpReplaced(n) == {f \in Targets(n) : files[f] # Absent /\ ops[n].plan[f] # Absent}

BackedUp(n) == {f \in Targets(n) : files[f] # Absent}

\* The manifest is written once the backups and the new files are there.
Stage(w) ==
  /\ At(w, "staging")
  /\ LET n == proc[w].op IN
     /\ ops' = [ops EXCEPT ![n].old = files,
                              ![n].parts = {Manifest} \cup {Backup(f) : f \in BackedUp(n)}]
     /\ proc' = [proc EXCEPT ![w].pc = "applying", ![w].todo = Targets(n)]
  /\ UNCHANGED <<files, stray, lock, crashes>>

Apply(w) ==
  /\ At(w, "applying") /\ proc[w].todo # {}
  /\ LET f == First(proc[w].todo) IN
     /\ files' = [files EXCEPT ![f] = Op(w).plan[f]]
     /\ ops' = [ops EXCEPT ![proc[w].op].applied = @ \cup {f}]
     /\ proc' = [proc EXCEPT ![w].todo = @ \ {f}]
  /\ UNCHANGED <<stray, lock, crashes>>

MarkCommitted(w) ==
  /\ At(w, "applying") /\ proc[w].todo = {}
  /\ ops' = [ops EXCEPT ![proc[w].op].parts = @ \cup {Marker},
                        ![proc[w].op].fate = "committed"]
  /\ Become(w, "sweeping")
  /\ UNCHANGED <<files, stray, lock, crashes>>

\* Any of these operations may throw; what was replaced is restored.
Fail(w) ==
  /\ "write" \in Faults /\ proc[w].pc \in {"staging", "applying"}
  /\ proc' = [proc EXCEPT ![w].pc = "restoring",
       ![w].todo = IF At(w, "staging") THEN {} ELSE Targets(proc[w].op) \ @]
  /\ UNCHANGED <<files, stray, lock, ops, crashes>>

(***************************************************************************)
(* Restoring, for a roll back and for a recovery                           *)
(***************************************************************************)

\* A file that existed is copied beside its target first, then renamed.
CopyBackup(w) ==
  /\ At(w, "restoring") /\ proc[w].todo # {}
  /\ Last(proc[w].todo) \in Existed(proc[w].op)
  /\ Become(w, "copied")
  /\ UNCHANGED <<files, stray, lock, ops, crashes>>

RenameBackup(w) ==
  /\ At(w, "copied")
  /\ LET f == Last(proc[w].todo) IN
     /\ files' = [files EXCEPT ![f] = Op(w).old[f]]
     /\ ops' = [ops EXCEPT ![proc[w].op].applied = @ \ {f}]
     /\ proc' = [proc EXCEPT ![w].pc = "restoring", ![w].todo = @ \ {f}]
  /\ UNCHANGED <<stray, lock, crashes>>

RemoveCreated(w) ==
  /\ At(w, "restoring") /\ proc[w].todo # {}
  /\ LET f == Last(proc[w].todo) IN
     /\ f \notin Existed(proc[w].op)
     /\ files' = [files EXCEPT ![f] = Absent]
     /\ ops' = [ops EXCEPT ![proc[w].op].applied = @ \ {f}]
     /\ proc' = [proc EXCEPT ![w].todo = @ \ {f}]
  /\ UNCHANGED <<stray, lock, crashes>>

AllRestored(w) ==
  /\ At(w, "restoring") /\ proc[w].todo = {}
  /\ Become(w, "sweeping")
  /\ UNCHANGED <<files, stray, lock, ops, crashes>>

\* A roll back that fails keeps the journal; so does a recovery, which goes on
\* with the next operation.
FailRestore(w) ==
  /\ proc[w].pc \in {"restoring", "copied"} /\ proc[w].todo # {}
  /\ IF Recovering(w)
     THEN /\ "recovery" \in Faults /\ Skip(w, proc[w].op) /\ UNCHANGED lock
     ELSE "rollback" \in Faults /\ Release(w, "idle")
  /\ UNCHANGED <<files, stray, ops, crashes>>

(***************************************************************************)
(* Removing an operation directory; what caller or recovery do next        *)
(***************************************************************************)

\* The parts of a directory go in any order.
Sweep(w) ==
  /\ At(w, "sweeping")
  /\ \E part \in Op(w).parts : ops' = [ops EXCEPT ![proc[w].op].parts = @ \ {part}]
  /\ UNCHANGED <<files, stray, lock, proc, crashes>>

RemovalEnds(n) == ops[n].parts = {} \/ "removal" \in Faults

\* The directory is gone or, where removals may fail, what is left of it stays:
\* the failure is ignored.  A save whose marker was written reports success.
Swept(w) ==
  /\ At(w, "sweeping") /\ RemovalEnds(proc[w].op)
  /\ LET n == proc[w].op
         gone == ops[n].parts = {}
         told == ~Recovering(w) /\ ops[n].fate = "committed"
     IN /\ ops' = [ops EXCEPT ![n].dir = ~gone, ![n].fate = IF told THEN "told" ELSE @,
                               ![n].kept = IF told THEN Complete(n) ELSE @]
        /\ IF Recovering(w)
           THEN Skip(w, n) /\ UNCHANGED lock
           ELSE /\ lock' = {}
                /\ proc' = [proc EXCEPT ![w].pc = "idle", ![w].op = 0,
                                        ![w].seen = IF told THEN files ELSE @]
  /\ UNCHANGED <<files, stray, crashes>>

(***************************************************************************)
(* Recovery, at every load and before every save                           *)
(***************************************************************************)

StartRecovery(w) ==
  /\ At(w, "idle") /\ Journal # {} /\ lock = {}
  /\ lock' = {w}
  /\ proc' = [proc EXCEPT ![w].pc = "recovering", ![w].left = Journal]
  /\ UNCHANGED <<files, stray, ops, crashes>>

\* A committed operation is removed, an interrupted one undone; one without a
\* manifest, or without all its backups, is left to the user.
Recover(w) ==
  /\ At(w, "recovering")
  /\ \E n \in proc[w].left :
       IF Manifest \in ops[n].parts /\ Marker \in ops[n].parts
       THEN proc' = [proc EXCEPT ![w].pc = "sweeping", ![w].op = n]
       ELSE IF Manifest \in ops[n].parts /\ Backups(n) \subseteq ops[n].parts
       THEN proc' = [proc EXCEPT ![w].pc = "restoring", ![w].op = n, ![w].todo = Targets(n)]
       ELSE Skip(w, n)
  /\ UNCHANGED <<files, stray, lock, ops, crashes>>

\* Problems make the workspace read-only.
EndRecovery(w) ==
  /\ At(w, "visited")
  /\ Release(w, IF Journal = {} THEN "clear" ELSE "idle")
  /\ UNCHANGED <<files, stray, ops, crashes>>
-----------------------------------------------------------------------------
\* A dead process keeps the lock it holds.
Crash(w) ==
  /\ proc[w].pc # "idle" /\ crashes < MaxCrashes
  /\ crashes' = crashes + 1
  /\ stray' = (stray \/ At(w, "copied"))
  /\ proc' = [proc EXCEPT ![w] = Resting]
  /\ UNCHANGED <<files, lock, ops>>

\* Nothing in the code takes over a lock: the user removes that of a process
\* that is gone.
RemoveLock ==
  /\ lock # {} /\ \A w \in lock : At(w, "idle")
  /\ lock' = {}
  /\ UNCHANGED <<files, stray, ops, proc, crashes>>

WriterStep(w) ==
  \/ FindNoJournal(w) \/ Load(w) \/ Propose(w) \/ AcquireLock(w) \/ FindLocked(w)
  \/ OpenOperation(w) \/ Conflict(w) \/ Stage(w) \/ Apply(w) \/ MarkCommitted(w)
  \/ Fail(w) \/ CopyBackup(w) \/ RenameBackup(w) \/ RemoveCreated(w) \/ AllRestored(w)
  \/ FailRestore(w) \/ Sweep(w) \/ Swept(w) \/ StartRecovery(w) \/ Recover(w)
  \/ EndRecovery(w) \/ Crash(w)

JournalNext == RemoveLock \/ \E w \in Writer : WriterStep(w)

JournalSpec == JournalInit /\ [][JournalNext]_journalVars
-----------------------------------------------------------------------------
(***************************************************************************)
(* Properties                                                              *)
(***************************************************************************)

\* An operation that will be undone if nothing else happens: it has a manifest
\* and every backup, and no live process is removing its directory.
Removing(n) == \E w \in Writer : At(w, "sweeping") /\ proc[w].op = n
Undoable(n) == Complete(n) /\ Marker \notin ops[n].parts /\ ~Removing(n)

\* What a recovery now would leave of the files.
Undoing(f) == {n \in Journal : Undoable(n) /\ f \in Targets(n)}
Durable == [f \in File |-> IF Undoing(f) = {} THEN files[f] ELSE ops[First(Undoing(f))].old[f]]

\* The last save can still be undone: its caller was not told of success.
CanGoBack == {n \in Journal : Complete(n) /\ ops[n].fate = "committed"
                              /\ (Marker \in ops[n].parts \/ Removing(n))
                              /\ \E f \in Targets(n) : files[f] # ops[n].old[f]}
Before ==
  IF CanGoBack = {} THEN NoRevision
  ELSE LET n == First(CanGoBack)
       IN [f \in File |-> IF f \in Targets(n) THEN ops[n].old[f] ELSE files[f]]

Saves == [n \in DOMAIN ops |->
            [plan |-> ops[n].plan, expected |-> ops[n].old, fate |-> ops[n].fate]]

Workspace == INSTANCE AtomicWorkspace WITH
  NoContent <- NoRevision, content <- Durable, saves <- Saves, before <- Before

\* What a save promises: over every crash and failure, loads and saves behave as
\* the abstract workspace.  Saves take effect whole, on the content their caller
\* had loaded, and a save its caller was told of stays.
Atomic == Workspace!WorkspaceSpec

\* A save wrote although the journal was not empty (it is looked at before the
\* lock is taken, and not again under it), or reported success although all that
\* a recovery needs to undo it was still there (a removal that fails is ignored).
Disturbed == \E n \in DOMAIN ops : ops[n].late \/ ops[n].kept

\* Whatever fails and whoever dies, loads and saves behave as the abstract
\* workspace at every step before one of these two happens: nothing else in the
\* interplay of save, roll back, recovery and lock breaks a promise.
AtomicUntilDisturbed ==
  Workspace!WorkspaceInit /\ [][Disturbed' \/ Workspace!WorkspaceNext]_(Workspace!workspaceVars)

\* Whatever fails, in a save, its roll back, a recovery or a removal, and also
\* after a late save: the files of a save that stays in half (some replaced, or
\* some not restored) have all that is needed to restore them in the journal.
HalfAppliedCanBeUndone ==
  \A n \in DOMAIN ops :
    \/ ops[n].applied = {}
    \/ ops[n].applied = Targets(n) /\ ops[n].fate # "open"
    \/ Complete(n)

\* "Only clean up a completed record": once a save has been reported as done,
\* no recovery restores the files it replaced.
ReportedIsNotRestored ==
  \A w \in Writer : proc[w].pc \in {"restoring", "copied"} => Op(w).fate # "told"
=============================================================================
