--------------------------- MODULE MCWriteJournal ---------------------------
(* Instances of WriteJournal for TLC. *)
EXTENDS WriteJournal, TLC

CONSTANTS w1, w2

OneWriter == {w1}
TwoWriters == {w1, w2}
SaveFaults == {"write", "rollback"}
AnyFault == {"write", "rollback", "recovery", "removal"}

Writers == Permutations(Writer)

\* What the rest of a behaviour depends on: not the plan of a save that is over and
\* left no directory, nor, when no save can begin any more, what was loaded.
Over(n) == ~ops[n].dir /\ \A w \in Writer : proc[w].op # n
Relevant(n) ==
  IF Over(n) THEN <<ops[n].fate, ops[n].applied, ops[n].late, ops[n].kept>> ELSE ops[n]
Loaded(w) ==
  IF Len(ops) = MaxSaves /\ ~At(w, "checked") /\ ~At(w, "locked") THEN NoRevision
  ELSE proc[w].seen
WithoutPast ==
  <<files, stray, lock, crashes, [n \in DOMAIN ops |-> Relevant(n)],
    [w \in Writer |-> [proc[w] EXCEPT !.seen = Loaded(w)]]>>
=============================================================================
