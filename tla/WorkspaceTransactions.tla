----------------------- MODULE WorkspaceTransactions -----------------------
(***************************************************************************)
(* What the coding runtime promises about the workspace it patches: a task *)
(* is a transaction.  In one step it keeps one patch of its own or changes *)
(* nothing, with two exceptions.  A patch may spill, as a rollback does    *)
(* not reach all it has changed: then each file has its old text or one of *)
(* the task.  And a task may break off, as it is killed or cannot undo its *)
(* patch: then files may be torn as well.                                  *)
(***************************************************************************)
CONSTANTS
  Tasks, Files, Original, Torn,
  VersionsOf  \* the versions of a file each task may write

VARIABLES
  files,   \* the version each file of the workspace holds
  outcome  \* what became of each task

vars == <<files, outcome>>

Init ==
  /\ files = [f \in Files |-> Original]
  /\ outcome = [t \in Tasks |-> "open"]

End(t, o) == outcome[t] = "open" /\ outcome' = [outcome EXCEPT ![t] = o]

Keep(t) ==
  /\ End(t, "kept")
  /\ \E S \in (SUBSET Files) \ {{}}, v \in VersionsOf[t] :
       files' = [f \in Files |-> IF f \in S THEN v ELSE files[f]]

Undo(t) == End(t, "undone") /\ UNCHANGED files

\* Each file is left as it was, or with one of some other texts.
Leaves(texts) ==
  /\ files' = [f \in Files |-> files'[f]]
  /\ \A f \in Files : files'[f] \in {files[f]} \cup texts

Spill(t) == End(t, "spilled") /\ Leaves(VersionsOf[t])

BreakOff(t) == End(t, "broken") /\ Leaves(VersionsOf[t] \cup {Torn})

Next == \E t \in Tasks : Keep(t) \/ Undo(t) \/ Spill(t) \/ BreakOff(t)

Spec == Init /\ [][Next]_vars
=============================================================================
