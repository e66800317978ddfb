--------------------------- MODULE NotationKernel ---------------------------
(***************************************************************************)
(* The Rust notation kernel: one call of replay() folds a batch of         *)
(* commands over an empty Replay value and returns either the final state  *)
(* or the first error (native/state-kernel/src/lib.rs).                    *)
(*                                                                         *)
(* A behaviour of this module is one such call.  Its commands are chosen   *)
(* freely, one at a time; the call ends with Finish (the batch is over) or *)
(* with the first refused command.  Ids and Contents stand for the values  *)
(* that pass validate_id and validate_text.  The label of a relation is    *)
(* left out: no command reads it or changes it.                            *)
(***************************************************************************)
EXTENDS Integers, Sequences, FiniteSets

CONSTANTS
  Ids,            \* object identifiers, one name space for both kinds
  CommandIds,     \* command identifiers
  Contents,       \* the title and body of a notation
  None,           \* no notation, relation or error
  MaxNotations,   \* MAX_NOTATIONS
  MaxRelations,   \* MAX_RELATIONS
  MaxCommands     \* MAX_COMMANDS

Relations == [from : Ids, to : Ids]

Errors == { "DUPLICATE_COMMAND_ID", "LIMIT_EXCEEDED", "ID_ALREADY_USED",
            "NOTATION_NOT_FOUND", "NO_CHANGE", "INVALID_RELATION",
            "NOTHING_TO_UNDO", "NOTHING_TO_REDO", "INTERNAL_STATE_ERROR" }

ASSUME KernelAssumption ==
  /\ IsFiniteSet(Ids)
  /\ None \notin Contents
  /\ None \notin Relations
  /\ None \notin Errors \cup {"STATE"}
  /\ MaxNotations \in Nat
  /\ MaxRelations \in Nat
  /\ MaxCommands \in Nat

VARIABLES
  document,       \* [notations, relations]: the two BTreeMaps
  usedObjects,    \* every object identifier the batch has created so far
  usedCommands,   \* every command identifier the batch has used so far
  undo,           \* changes that Undo takes back, latest last
  redo,           \* changes that Redo repeats, latest undone last
  revision,       \* number of accepted commands
  result          \* None while the batch runs, then "STATE" or an error

vars == <<document, usedObjects, usedCommands, undo, redo, revision, result>>

-----------------------------------------------------------------------------
(* Documents and changes.                                                  *)

Document == [ notations : [Ids -> Contents \cup {None}],
              relations : [Ids -> Relations \cup {None}] ]

EmptyDocument == [ notations |-> [i \in Ids |-> None],
                   relations |-> [i \in Ids |-> None] ]

NotationsOf(d) == { i \in Ids : d.notations[i] # None }
RelationsOf(d) == { i \in Ids : d.relations[i] # None }

\* A change is an inverse record: what the object was and what it becomes.
NotationChange == [ kind : {"notation"}, id : Ids,
                    before : Contents \cup {None}, after : Contents ]
RelationChange == [ kind : {"relation"}, id : Ids,
                    before : {None}, after : Relations ]
Change == NotationChange \cup RelationChange

Forward(c, d) ==
  IF c.kind = "notation" THEN [d EXCEPT !.notations = [@ EXCEPT ![c.id] = c.after]]
                         ELSE [d EXCEPT !.relations = [@ EXCEPT ![c.id] = c.after]]

Backward(c, d) ==
  IF c.kind = "notation" THEN [d EXCEPT !.notations = [@ EXCEPT ![c.id] = c.before]]
                         ELSE [d EXCEPT !.relations = [@ EXCEPT ![c.id] = c.before]]

\* Replay::validate, run after every command.
Valid(d) ==
  /\ Cardinality(NotationsOf(d)) <= MaxNotations
  /\ Cardinality(RelationsOf(d)) <= MaxRelations
  /\ \A i \in RelationsOf(d) :
       /\ d.relations[i].from # d.relations[i].to
       /\ d.relations[i].from \in NotationsOf(d)
       /\ d.relations[i].to \in NotationsOf(d)
       /\ i \notin NotationsOf(d)

-----------------------------------------------------------------------------
(* Accepted commands.                                                      *)

Running == result = None

\* The command's identifier is new and the batch is not longer than allowed.
Admit(k) ==
  /\ Running
  /\ Cardinality(usedCommands) < MaxCommands
  /\ k \notin usedCommands
  /\ usedCommands' = usedCommands \cup {k}

\* The last two statements of accept: self.validate()?; self.revision += 1.
Settle ==
  IF Valid(document')
  THEN /\ revision' = revision + 1
       /\ result' = result
  ELSE /\ revision' = revision
       /\ result' = "INTERNAL_STATE_ERROR"

\* Mutant: the redo branch is kept.
CommitKeepingRedo(c) ==
  /\ document' = Forward(c, document)
  /\ undo' = Append(undo, c)
  /\ UNCHANGED redo
  /\ Settle

\* A new change is applied, becomes the next to undo, and discards the redo
\* branch.
Commit(c) ==
  /\ document' = Forward(c, document)
  /\ undo' = Append(undo, c)
  /\ redo' = << >>
  /\ Settle

\* Mutant: the identifier is looked up in the document only.
CreateNotationReusing(k, i, t) ==
  /\ Admit(k)
  /\ Cardinality(NotationsOf(document)) < MaxNotations
  /\ i \notin NotationsOf(document) \cup RelationsOf(document)
  /\ usedObjects' = usedObjects \cup {i}
  /\ Commit([kind |-> "notation", id |-> i, before |-> None, after |-> t])

CreateNotation(k, i, t) ==
  /\ Admit(k)
  /\ Cardinality(NotationsOf(document)) < MaxNotations
  /\ i \notin usedObjects
  /\ usedObjects' = usedObjects \cup {i}
  /\ Commit([kind |-> "notation", id |-> i, before |-> None, after |-> t])

\* Mutant: the inverse record of an update is that of a creation.
UpdateNotationAsCreation(k, i, t) ==
  /\ Admit(k)
  /\ i \in NotationsOf(document)
  /\ document.notations[i] # t
  /\ UNCHANGED usedObjects
  /\ Commit([kind |-> "notation", id |-> i, before |-> None, after |-> t])

UpdateNotation(k, i, t) ==
  /\ Admit(k)
  /\ i \in NotationsOf(document)
  /\ document.notations[i] # t
  /\ UNCHANGED usedObjects
  /\ Commit([kind |-> "notation", id |-> i,
             before |-> document.notations[i], after |-> t])

CreateRelation(k, i, r) ==
  /\ Admit(k)
  /\ r.from # r.to
  /\ {r.from, r.to} \subseteq NotationsOf(document)
  /\ Cardinality(RelationsOf(document)) < MaxRelations
  /\ i \notin usedObjects
  /\ usedObjects' = usedObjects \cup {i}
  /\ Commit([kind |-> "relation", id |-> i, before |-> None, after |-> r])

Undo(k) ==
  /\ Admit(k)
  /\ undo # << >>
  /\ document' = Backward(undo[Len(undo)], document)
  /\ redo' = Append(redo, undo[Len(undo)])
  /\ undo' = SubSeq(undo, 1, Len(undo) - 1)
  /\ UNCHANGED usedObjects
  /\ Settle

Redo(k) ==
  /\ Admit(k)
  /\ redo # << >>
  /\ document' = Forward(redo[Len(redo)], document)
  /\ undo' = Append(undo, redo[Len(redo)])
  /\ redo' = SubSeq(redo, 1, Len(redo) - 1)
  /\ UNCHANGED usedObjects
  /\ Settle

-----------------------------------------------------------------------------
(* Refused commands.  replay() returns the first error and drops the       *)
(* Replay value, so a refusal ends the batch and nothing else matters.     *)

CreationRefusal(i, full) ==
  IF full THEN "LIMIT_EXCEEDED"
  ELSE IF i \in usedObjects THEN "ID_ALREADY_USED" ELSE None

CreateNotationRefusal(i) ==
  CreationRefusal(i, Cardinality(NotationsOf(document)) >= MaxNotations)

UpdateNotationRefusal(i, t) ==
  IF i \notin NotationsOf(document) THEN "NOTATION_NOT_FOUND"
  ELSE IF document.notations[i] = t THEN "NO_CHANGE" ELSE None

CreateRelationRefusal(i, r) ==
  IF r.from = r.to \/ ~ ({r.from, r.to} \subseteq NotationsOf(document))
  THEN "INVALID_RELATION"
  ELSE CreationRefusal(i, Cardinality(RelationsOf(document)) >= MaxRelations)

UndoRefusal == IF undo = << >> THEN "NOTHING_TO_UNDO" ELSE None
RedoRefusal == IF redo = << >> THEN "NOTHING_TO_REDO" ELSE None

\* Error e is what the next command of the batch meets, or a batch that is too
\* long before its first command.
Meets(e) ==
  \/ e = "LIMIT_EXCEEDED" /\ usedCommands = {}
  \/ e = "DUPLICATE_COMMAND_ID" /\ usedCommands # {}
  \/ \E i \in Ids : e = CreateNotationRefusal(i)
  \/ \E i \in Ids, t \in Contents : e = UpdateNotationRefusal(i, t)
  \/ \E i \in Ids, r \in Relations : e = CreateRelationRefusal(i, r)
  \/ e = UndoRefusal
  \/ e = RedoRefusal

Refuse(e) ==
  /\ Running
  /\ Cardinality(usedCommands) < MaxCommands
  /\ Meets(e)
  /\ result' = e
  /\ UNCHANGED <<document, usedObjects, usedCommands, undo, redo, revision>>

\* Replay::state: the batch is over and its final state is returned.
Finish ==
  /\ Running
  /\ result' = "STATE"
  /\ UNCHANGED <<document, usedObjects, usedCommands, undo, redo, revision>>

-----------------------------------------------------------------------------
Init ==
  /\ document = EmptyDocument
  /\ usedObjects = {}
  /\ usedCommands = {}
  /\ undo = << >>
  /\ redo = << >>
  /\ revision = 0
  /\ result = None

Edit(k) ==
  \/ \E i \in Ids, t \in Contents : CreateNotation(k, i, t)
  \/ \E i \in Ids, t \in Contents : UpdateNotation(k, i, t)
  \/ \E i \in Ids, r \in Relations : CreateRelation(k, i, r)

Travel(k) == Undo(k) \/ Redo(k)

End == Finish \/ \E e \in Errors : Refuse(e)

Next == (\E k \in CommandIds : Edit(k) \/ Travel(k)) \/ End

Spec == Init /\ [][Next]_vars

-----------------------------------------------------------------------------
(* Type invariant of the Replay value.                                     *)
TypeOK ==
  /\ document \in Document
  /\ usedObjects \subseteq Ids
  /\ usedCommands \subseteq CommandIds
  /\ undo \in Seq(Change)
  /\ redo \in Seq(Change)
  /\ revision \in Nat
  /\ result \in Errors \cup {"STATE", None}

\* validate() runs after every command, yet none of the checks made before a
\* command is applied looks at what Undo and Redo do to limits and endpoints:
\* the error it guards against must be unreachable.
NoInternalError == result # "INTERNAL_STATE_ERROR"

=============================================================================
