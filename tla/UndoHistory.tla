---------------------------- MODULE UndoHistory ----------------------------
(***************************************************************************)
(* What linear undo and redo promise to the user of the notation editor,   *)
(* independently of inverse records and stacks: the document always is one *)
(* snapshot of a list, Undo and Redo move a cursor over that list without  *)
(* changing any snapshot, and an edit cuts the list behind the cursor and  *)
(* appends a different valid document.                                     *)
(***************************************************************************)
EXTENDS Integers, Sequences

CONSTANTS
  Documents,      \* the valid documents
  Start           \* the empty document

VARIABLES
  visible,        \* the document the user sees
  snapshots,      \* the documents undo and redo can reach, oldest first
  cursor          \* position of the visible document

vars == <<visible, snapshots, cursor>>

Init ==
  /\ visible = Start
  /\ snapshots = <<Start>>
  /\ cursor = 1

Edit ==
  /\ visible' \in Documents \ {visible}
  /\ snapshots' = Append(SubSeq(snapshots, 1, cursor), visible')
  /\ cursor' = cursor + 1

MoveTo(c) ==
  /\ c \in 1 .. Len(snapshots)
  /\ cursor' = c
  /\ visible' = snapshots[c]
  /\ UNCHANGED snapshots

Next == Edit \/ MoveTo(cursor - 1) \/ MoveTo(cursor + 1)

Spec == Init /\ [][Next]_vars
=============================================================================
