------------------------------ MODULE PlanReplay ------------------------------
(***************************************************************************)
(* The prepared operations performed one after the other on an undisturbed *)
(* tree, and undone again from any point, as the committer does and as     *)
(* recovery does: the reference for what PreparedPlan::prepare must yield. *)
(***************************************************************************)
EXTENDS CommitPlan

VARIABLES before, after,  \* the tree the transaction saw and the one it wants
          operations,     \* the prepared plan
          tree,           \* the workspace
          performed       \* how many operations are in effect

replayVars == <<before, after, operations, tree, performed>>

SoundTrees == {t \in [Path -> Node \cup {None}] : WellFormed(t)}

ReplayInit ==
  /\ before \in SoundTrees /\ after \in SoundTrees
  /\ Acceptable(before, after)
  /\ operations = Prepare(before, after)
  /\ tree = before
  /\ performed = 0

(* apply_operation, in plan order.                                          *)
Perform ==
  /\ performed < Len(operations)
  /\ Applicable(tree, operations[performed + 1])
  /\ tree' = Applied(tree, operations[performed + 1], after)
  /\ performed' = performed + 1
  /\ UNCHANGED <<before, after, operations>>

(* rollback, in reverse.                                                    *)
TakeBack ==
  /\ performed > 0
  /\ Undoable(tree, operations[performed])
  /\ tree' = Undone(tree, operations[performed], before)
  /\ performed' = performed - 1
  /\ UNCHANGED <<before, after, operations>>

ReplayNext == Perform \/ TakeBack

ReplaySpec == ReplayInit /\ [][ReplayNext]_replayVars

-----------------------------------------------------------------------------
(* Each operation meets the tree it needs: the old node is out of the way,  *)
(* the parent is a directory by then, and writable (the comment "approved   *)
(* access grants must precede child installation").  So does each undo,     *)
(* from any point of the plan ("restrictions run afterward, so              *)
(* reverse-order rollback can still traverse parents").                     *)
OrderIsSound ==
  /\ performed < Len(operations) => Applicable(tree, operations[performed + 1])
  /\ performed > 0 => Undoable(tree, operations[performed])

(* All operations together make exactly the approved tree, and all undone,  *)
(* after whatever back and forth, exactly the original one.                 *)
ReachesBothEnds ==
  /\ performed = Len(operations) => tree = after
  /\ performed = 0 => tree = before
=============================================================================
