--------------------------- MODULE AtomicWorkspace ---------------------------
(***************************************************************************)
(* What the write journal promises of a workspace directory: a save takes  *)
(* effect as a whole, only on top of exactly the content its caller had    *)
(* loaded, and once the caller was told so it is never undone.  A save the *)
(* caller was not told of (the process died) may still be undone, again as *)
(* a whole, until what undoes it is gone.                                  *)
(***************************************************************************)
EXTENDS Naturals, Sequences

CONSTANT NoContent  \* "nothing to go back to"

VARIABLES
  content,  \* the workspace: a function from files to contents
  saves,    \* every save so far: its plan, the content it expects, its fate
  before    \* what the last save may still be undone to

workspaceVars == <<content, saves, before>>

Overlay(plan, base) ==
  [f \in DOMAIN base |-> IF f \in DOMAIN plan THEN plan[f] ELSE base[f]]

\* A caller plans to replace or delete files of the content it has loaded.
Begin ==
  /\ Len(saves') = Len(saves) + 1 /\ SubSeq(saves', 1, Len(saves)) = saves
  /\ saves'[Len(saves')].fate = "open"
  /\ UNCHANGED <<content, before>>

Commit(n) ==
  /\ saves[n].fate = "open" /\ saves[n].expected = content
  /\ content' = Overlay(saves[n].plan, content)
  /\ before' \in {content, NoContent}
  /\ saves' = [saves EXCEPT ![n].fate = "committed"]

Undo ==
  /\ before # NoContent
  /\ content' = before /\ before' = NoContent
  /\ UNCHANGED saves

Settle ==
  /\ before' = NoContent
  /\ UNCHANGED <<content, saves>>

\* The caller is told of success while its save is what the workspace holds.
Tell(n) ==
  /\ saves[n].fate = "committed" /\ content = Overlay(saves[n].plan, content)
  /\ before' = NoContent
  /\ saves' = [saves EXCEPT ![n].fate = "told"]
  /\ UNCHANGED content

WorkspaceNext == Begin \/ Undo \/ Settle \/ \E n \in DOMAIN saves : Commit(n) \/ Tell(n)

WorkspaceInit == saves = <<>> /\ before = NoContent

WorkspaceSpec == WorkspaceInit /\ [][WorkspaceNext]_workspaceVars
=============================================================================
