-------------------------- MODULE NotationHistory --------------------------
(***************************************************************************)
(* The notation kernel with two history variables, and the refinement of   *)
(* UndoHistory.  The variables record what the code forgets; no action of  *)
(* the kernel reads them.                                                  *)
(***************************************************************************)
EXTENDS NotationKernel

VARIABLES
  timeline,       \* the documents reachable by undo and redo, oldest first
  origin          \* what each identifier named when it was created

hvars == <<document, usedObjects, usedCommands, undo, redo, revision, result,
           timeline, origin>>

\* What an identifier names in document d: nothing, one relation for good, or
\* a notation, whose content may change.
ANotation == [from |-> None, to |-> None]

Named(i, d) ==
  IF i \in RelationsOf(d) THEN d.relations[i]
  ELSE IF i \in NotationsOf(d) THEN ANotation ELSE None

HInit ==
  /\ Init
  /\ timeline = <<EmptyDocument>>
  /\ origin = [i \in Ids |-> None]

HEdit ==
  /\ \E k \in CommandIds : Edit(k)
  /\ timeline' = Append(SubSeq(timeline, 1, Len(undo) + 1), document')
  /\ origin' = [i \in Ids |-> IF i \in usedObjects THEN origin[i]
                              ELSE Named(i, document')]

HTravel ==
  /\ \E k \in CommandIds : Travel(k)
  /\ UNCHANGED <<timeline, origin>>

HEnd ==
  /\ End
  /\ UNCHANGED <<timeline, origin>>

HNext == HEdit \/ HTravel \/ HEnd

HSpec == HInit /\ [][HNext]_hvars

-----------------------------------------------------------------------------
ValidDocuments == { d \in Document : Valid(d) }

\* The kernel's document, inverse records and two stacks behave as a list of
\* snapshots with a cursor (accept, forward and backward in lib.rs).
History == INSTANCE UndoHistory
             WITH Documents <- ValidDocuments, Start <- EmptyDocument,
                  visible <- document, snapshots <- timeline,
                  cursor <- Len(undo) + 1

UndoHistorySpec == History!Spec

\* Reserved identities survive undo and discarded redo branches (lib.rs:201):
\* whatever edits, undos and redos come between, an identifier never names an
\* object of the other kind or a relation with other endpoints.
IdentityIsStable ==
  \A j \in 1 .. Len(timeline), i \in Ids :
    Named(i, timeline[j]) \in {None, origin[i]}

=============================================================================
