-------------------------- MODULE HistoriesProofs ---------------------------
(***************************************************************************)
(* Proofs about two systems that share no variables: the notation kernel,  *)
(* for every set of identifiers and contents and every limit; and the      *)
(* corpus and its feed, for every corpus, every release, every fixture,    *)
(* every set of questions whose instants are integers and any number of    *)
(* seeds.                                                                  *)
(***************************************************************************)
EXTENDS NotationHistory, CorpusFeed, FiniteSetTheorems, SequenceTheorems, TLAPS

-----------------------------------------------------------------------------
(* The notation kernel.  The inductive invariant HInv aligns the undo and  *)
(* redo stacks with the timeline of documents they lead to: each inverse   *)
(* record is exactly the step between two neighbours.                      *)

HTypeOK ==
  /\ TypeOK
  /\ timeline \in Seq(Document)
  /\ origin \in [Ids -> Relations \cup {ANotation, None}]

\* Change c is the step from document d to document e, in both directions.
Step(c, d, e) == Forward(c, d) = e /\ Backward(c, e) = d

\* Below the cursor the stack undo holds the steps, above it the stack redo,
\* whose top is the step next to the cursor.
Aligned ==
  /\ Len(timeline) = Len(undo) + Len(redo) + 1
  /\ document = timeline[Len(undo) + 1]
  /\ \A j \in 1 .. Len(undo) : Step(undo[j], timeline[j], timeline[j + 1])
  /\ \A j \in 1 .. Len(redo) :
       Step(redo[j], timeline[Len(timeline) - j], timeline[Len(timeline) - j + 1])

AllValid == \A j \in 1 .. Len(timeline) : Valid(timeline[j])

Occupied(d) == NotationsOf(d) \cup RelationsOf(d)

\* No identifier in use at any point of the timeline is free for creation.
AllReserved == \A j \in 1 .. Len(timeline) : Occupied(timeline[j]) \subseteq usedObjects

HInv == HTypeOK /\ Aligned /\ AllValid /\ AllReserved /\ NoInternalError

-----------------------------------------------------------------------------
(* Changes and documents.                                                  *)

\* The value a change replaces in d.
Replaced(c, d) == IF c.kind = "notation" THEN d.notations[c.id]
                                         ELSE d.relations[c.id]

LEMMA ChangeFields ==
  ASSUME NEW c \in Change
  PROVE  /\ c.id \in Ids
         /\ c.kind = "notation" => c.before \in Contents \cup {None} /\ c.after \in Contents
         /\ c.kind # "notation" => c.before = None /\ c.after \in Relations
BY DEF Change, NotationChange, RelationChange

\* A change whose inverse record is right leads to a document and back.
LEMMA ChangeIsStep ==
  ASSUME NEW d \in Document, NEW c \in Change, c.before = Replaced(c, d)
  PROVE  /\ Forward(c, d) \in Document
         /\ Step(c, d, Forward(c, d))
<1>1. /\ d.notations \in [Ids -> Contents \cup {None}]
      /\ d.relations \in [Ids -> Relations \cup {None}]
      /\ d = [notations |-> d.notations, relations |-> d.relations]
  BY DEF Document
<1>2. CASE c.kind = "notation"
  <2> DEFINE n == [d.notations EXCEPT ![c.id] = c.after]
  <2>1. Forward(c, d) = [notations |-> n, relations |-> d.relations]
    BY <1>1, <1>2 DEF Forward
  <2>2. n \in [Ids -> Contents \cup {None}]
    BY <1>1, <1>2, ChangeFields
  <2>3. [n EXCEPT ![c.id] = c.before] = d.notations
    BY <1>1, <1>2, ChangeFields DEF Replaced
  <2>4. Backward(c, Forward(c, d)) = d
    BY <1>1, <1>2, <2>1, <2>3 DEF Backward
  <2> QED BY <1>1, <2>1, <2>2, <2>4 DEF Document, Step
<1>3. CASE c.kind # "notation"
  <2> DEFINE r == [d.relations EXCEPT ![c.id] = c.after]
  <2>1. Forward(c, d) = [notations |-> d.notations, relations |-> r]
    BY <1>1, <1>3 DEF Forward
  <2>2. r \in [Ids -> Relations \cup {None}]
    BY <1>1, <1>3, ChangeFields
  <2>3. [r EXCEPT ![c.id] = c.before] = d.relations
    BY <1>1, <1>3, ChangeFields DEF Replaced
  <2>4. Backward(c, Forward(c, d)) = d
    BY <1>1, <1>3, <2>1, <2>3 DEF Backward
  <2> QED BY <1>1, <2>1, <2>2, <2>4 DEF Document, Step
<1> QED BY <1>2, <1>3

LEMMA FiniteParts ==
  ASSUME NEW d
  PROVE  /\ IsFiniteSet(NotationsOf(d)) /\ Cardinality(NotationsOf(d)) \in Nat
         /\ IsFiniteSet(RelationsOf(d)) /\ Cardinality(RelationsOf(d)) \in Nat
<1>1. NotationsOf(d) \subseteq Ids /\ RelationsOf(d) \subseteq Ids
  BY DEF NotationsOf, RelationsOf
<1> QED BY <1>1, KernelAssumption, FS_Subset, FS_CardinalityType

LEMMA EmptyIsValid == EmptyDocument \in Document /\ Valid(EmptyDocument)
<1>1. EmptyDocument \in Document
  BY DEF EmptyDocument, Document
<1>2. NotationsOf(EmptyDocument) = {} /\ RelationsOf(EmptyDocument) = {}
  BY DEF EmptyDocument, NotationsOf, RelationsOf
<1>3. Cardinality({}) = 0
  BY FS_EmptySet
<1> QED BY <1>1, <1>2, <1>3, KernelAssumption DEF Valid

-----------------------------------------------------------------------------
(* What each edit does to the two maps of a valid document.                *)

CreateNotationChange(i, t) == [kind |-> "notation", id |-> i, before |-> None, after |-> t]

UpdateNotationChange(i, t) ==
  [kind |-> "notation", id |-> i, before |-> document.notations[i], after |-> t]

CreateRelationChange(i, r) == [kind |-> "relation", id |-> i, before |-> None, after |-> r]

LEMMA ForwardNotation ==
  ASSUME NEW d \in Document, NEW c \in Change, c.kind = "notation"
  PROVE  /\ Forward(c, d).relations = d.relations
         /\ Forward(c, d).notations = [d.notations EXCEPT ![c.id] = c.after]
         /\ NotationsOf(Forward(c, d)) = NotationsOf(d) \cup {c.id}
         /\ RelationsOf(Forward(c, d)) = RelationsOf(d)
<1>1. d.notations \in [Ids -> Contents \cup {None}]
  BY DEF Document
<1>2. Forward(c, d) = [d EXCEPT !.notations = [@ EXCEPT ![c.id] = c.after]]
  BY DEF Forward
<1>3. /\ Forward(c, d).relations = d.relations
      /\ Forward(c, d).notations = [d.notations EXCEPT ![c.id] = c.after]
  BY <1>2 DEF Document
<1>4. c.after # None
  BY ChangeFields, KernelAssumption
<1> QED BY <1>1, <1>3, <1>4, ChangeFields DEF NotationsOf, RelationsOf

LEMMA ForwardRelation ==
  ASSUME NEW d \in Document, NEW c \in Change, c.kind # "notation"
  PROVE  /\ Forward(c, d).notations = d.notations
         /\ Forward(c, d).relations = [d.relations EXCEPT ![c.id] = c.after]
         /\ NotationsOf(Forward(c, d)) = NotationsOf(d)
         /\ RelationsOf(Forward(c, d)) = RelationsOf(d) \cup {c.id}
<1>1. d.relations \in [Ids -> Relations \cup {None}]
  BY DEF Document
<1>2. Forward(c, d) = [d EXCEPT !.relations = [@ EXCEPT ![c.id] = c.after]]
  BY DEF Forward
<1>3. /\ Forward(c, d).notations = d.notations
      /\ Forward(c, d).relations = [d.relations EXCEPT ![c.id] = c.after]
  BY <1>2 DEF Document
<1>4. c.after # None
  BY ChangeFields, KernelAssumption
<1> QED BY <1>1, <1>3, <1>4, ChangeFields DEF NotationsOf, RelationsOf

\* Creating a notation under a fresh identifier below the limit.
LEMMA NewNotationIsValid ==
  ASSUME NEW d \in Document, Valid(d), NEW c \in NotationChange,
         c.id \notin Occupied(d), Cardinality(NotationsOf(d)) < MaxNotations
  PROVE  Valid(Forward(c, d))
<1>1. c \in Change /\ c.kind = "notation"
  BY DEF Change, NotationChange
<1>2. Cardinality(NotationsOf(d) \cup {c.id}) = Cardinality(NotationsOf(d)) + 1
  BY FiniteParts, FS_AddElement DEF Occupied
<1>3. Cardinality(NotationsOf(d) \cup {c.id}) <= MaxNotations
  BY <1>2, FiniteParts, KernelAssumption
<1>4. /\ Forward(c, d).relations = d.relations
      /\ NotationsOf(Forward(c, d)) = NotationsOf(d) \cup {c.id}
      /\ RelationsOf(Forward(c, d)) = RelationsOf(d)
  BY <1>1, ForwardNotation
<1>5. \A i \in RelationsOf(d) : i # c.id
  BY DEF Occupied
<1> QED BY <1>3, <1>4, <1>5 DEF Valid

\* Updating a notation keeps the two sets of identifiers.
LEMMA UpdateIsValid ==
  ASSUME NEW d \in Document, Valid(d), NEW c \in NotationChange,
         c.id \in NotationsOf(d)
  PROVE  Valid(Forward(c, d))
<1>1. c \in Change /\ c.kind = "notation"
  BY DEF Change, NotationChange
<1>2. NotationsOf(d) \cup {c.id} = NotationsOf(d)
  OBVIOUS
<1> QED BY <1>1, <1>2, ForwardNotation DEF Valid

\* Creating a relation under a fresh identifier between two notations.
LEMMA NewRelationIsValid ==
  ASSUME NEW d \in Document, Valid(d), NEW c \in RelationChange,
         c.id \notin Occupied(d), Cardinality(RelationsOf(d)) < MaxRelations,
         c.after.from # c.after.to,
         {c.after.from, c.after.to} \subseteq NotationsOf(d)
  PROVE  Valid(Forward(c, d))
<1>1. c \in Change /\ c.kind # "notation"
  BY DEF Change, RelationChange
<1>2. Cardinality(RelationsOf(d) \cup {c.id}) = Cardinality(RelationsOf(d)) + 1
  BY FiniteParts, FS_AddElement DEF Occupied
<1>3. Cardinality(RelationsOf(d) \cup {c.id}) <= MaxRelations
  BY <1>2, FiniteParts, KernelAssumption
<1>4. ASSUME NEW i \in RelationsOf(d) \cup {c.id}
      PROVE  LET r == Forward(c, d).relations[i]
             IN  r.from # r.to /\ r.from \in NotationsOf(d)
                   /\ r.to \in NotationsOf(d) /\ i \notin NotationsOf(d)
  <2>1. d.relations \in [Ids -> Relations \cup {None}]
    BY DEF Document
  <2>2. Forward(c, d).relations = [d.relations EXCEPT ![c.id] = c.after]
    BY <1>1, ForwardRelation
  <2>3. CASE i = c.id
    BY <1>1, <2>1, <2>2, <2>3, ChangeFields DEF Occupied
  <2>4. CASE i # c.id
    <3>1. i \in RelationsOf(d)
      BY <2>4
    <3>2. Forward(c, d).relations[i] = d.relations[i]
      BY <1>1, <2>1, <2>2, <2>4, <3>1, ChangeFields DEF RelationsOf
    <3> QED BY <3>1, <3>2 DEF Valid
  <2> QED BY <2>3, <2>4
<1> QED BY <1>1, <1>3, <1>4, ForwardRelation DEF Valid

-----------------------------------------------------------------------------
(* Steps.                                                                  *)

LEMMA StacksAreSequences ==
  ASSUME HInv
  PROVE  /\ undo \in Seq(Change) /\ Len(undo) \in Nat
         /\ redo \in Seq(Change) /\ Len(redo) \in Nat
         /\ timeline \in Seq(Document)
         /\ Len(timeline) = Len(undo) + Len(redo) + 1
         /\ document = timeline[Len(undo) + 1]
         /\ document \in Document
         /\ Valid(document)
         /\ Occupied(document) \subseteq usedObjects
<1>1. /\ undo \in Seq(Change) /\ redo \in Seq(Change) /\ timeline \in Seq(Document)
      /\ document \in Document
  BY DEF HInv, HTypeOK, TypeOK
<1>2. Len(undo) \in Nat /\ Len(redo) \in Nat
  BY <1>1, LenProperties
<1>3. Len(timeline) = Len(undo) + Len(redo) + 1 /\ document = timeline[Len(undo) + 1]
  BY DEF HInv, Aligned
<1>4. Len(undo) + 1 \in 1 .. Len(timeline)
  BY <1>2, <1>3
<1> QED BY <1>1, <1>2, <1>3, <1>4 DEF HInv, AllValid, AllReserved

\* The timeline an edit leaves behind.
LEMMA TimelineAfterEdit ==
  ASSUME HInv, document' \in Document,
         timeline' = Append(SubSeq(timeline, 1, Len(undo) + 1), document')
  PROVE  /\ timeline' \in Seq(Document)
         /\ Len(timeline') = Len(undo) + 2
         /\ \A j \in 1 .. Len(undo) + 1 : timeline'[j] = timeline[j]
         /\ timeline'[Len(undo) + 2] = document'
<1> DEFINE kept == SubSeq(timeline, 1, Len(undo) + 1)
<1>1. \A j \in 1 .. Len(undo) + 1 : timeline[j] \in Document
  BY StacksAreSequences, ElementOfSeq
<1>2. /\ kept \in Seq(Document)
      /\ Len(kept) = Len(undo) + 1
      /\ \A j \in 1 .. Len(undo) + 1 : kept[j] = timeline[j]
  <2>1. Len(undo) + 1 \in Int /\ 1 \in Int /\ 1 <= Len(undo) + 1
    BY StacksAreSequences
  <2>2. /\ kept \in Seq(Document)
        /\ Len(kept) = IF 1 <= Len(undo) + 1 THEN (Len(undo) + 1) - 1 + 1 ELSE 0
        /\ \A j \in 1 .. (Len(undo) + 1) - 1 + 1 : kept[j] = timeline[1 + j - 1]
    BY <1>1, <2>1, SubSeqProperties
  <2> QED BY <2>1, <2>2, StacksAreSequences
<1>3. timeline' = Append(kept, document')
  OBVIOUS
<1> HIDE DEF kept
<1>4. /\ Append(kept, document') \in Seq(Document)
      /\ Len(Append(kept, document')) = Len(kept) + 1
      /\ \A j \in 1 .. Len(kept) : Append(kept, document')[j] = kept[j]
      /\ Append(kept, document')[Len(kept) + 1] = document'
  BY <1>2, AppendProperties
<1> QED BY <1>2, <1>3, <1>4, StacksAreSequences

\* An edit whose inverse record is right and whose result is valid.
LEMMA CommitKeepsHInv ==
  ASSUME HInv, Running, NEW c \in Change, c.before = Replaced(c, document),
         Valid(Forward(c, document)), Commit(c),
         usedObjects \subseteq usedObjects', usedObjects' \subseteq Ids,
         Occupied(Forward(c, document)) \subseteq usedObjects',
         usedCommands' \subseteq CommandIds,
         timeline' = Append(SubSeq(timeline, 1, Len(undo) + 1), document'),
         origin' \in [Ids -> Relations \cup {ANotation, None}]
  PROVE  HInv'
<1>1. /\ document' = Forward(c, document)
      /\ undo' = Append(undo, c)
      /\ redo' = << >>
  BY DEF Commit
<1>2. document' \in Document /\ Step(c, document, document')
  BY <1>1, StacksAreSequences, ChangeIsStep
<1>3. revision' = revision + 1 /\ result' = result
  BY <1>1 DEF Commit, Settle
<1>4. /\ undo' \in Seq(Change)
      /\ Len(undo') = Len(undo) + 1
      /\ \A j \in 1 .. Len(undo) : undo'[j] = undo[j]
      /\ undo'[Len(undo) + 1] = c
  BY <1>1, StacksAreSequences, AppendProperties
<1>5. redo' \in Seq(Change) /\ Len(redo') = 0
  BY <1>1, EmptySeq
<1>6. HTypeOK'
  BY <1>2, <1>3, <1>4, <1>5, TimelineAfterEdit DEF HInv, HTypeOK, TypeOK
<1>7. Aligned'
  <2>1. Len(timeline') = Len(undo') + Len(redo') + 1
    BY <1>2, <1>4, <1>5, TimelineAfterEdit, StacksAreSequences
  <2>2. document' = timeline'[Len(undo') + 1]
    BY <1>2, <1>4, TimelineAfterEdit, StacksAreSequences
  <2>3. ASSUME NEW j \in 1 .. Len(undo')
        PROVE  Step(undo'[j], timeline'[j], timeline'[j + 1])
    <3>1. CASE j \in 1 .. Len(undo)
      <4>1. Step(undo[j], timeline[j], timeline[j + 1])
        BY <3>1 DEF HInv, Aligned
      <4>2. j \in 1 .. Len(undo) + 1 /\ j + 1 \in 1 .. Len(undo) + 1
        BY <3>1, StacksAreSequences
      <4> QED BY <1>2, <1>4, <3>1, <4>1, <4>2, TimelineAfterEdit
    <3>2. CASE j = Len(undo) + 1
      <4>1. Len(undo) + 1 \in 1 .. Len(undo) + 1 /\ j + 1 = Len(undo) + 2
        BY <3>2, StacksAreSequences
      <4>2. timeline'[j] = document /\ timeline'[j + 1] = document'
        BY <1>2, <3>2, <4>1, TimelineAfterEdit, StacksAreSequences
      <4> QED BY <1>2, <1>4, <3>2, <4>2
    <3> QED BY <1>4, <3>1, <3>2, StacksAreSequences
  <2>4. 1 .. Len(redo') = {}
    BY <1>5
  <2> QED BY <2>1, <2>2, <2>3, <2>4 DEF Aligned
<1>8. \A j \in 1 .. Len(timeline') :
        \/ j \in 1 .. Len(timeline) /\ timeline'[j] = timeline[j]
        \/ timeline'[j] = Forward(c, document)
  <2> TAKE j \in 1 .. Len(timeline')
  <2>1. j \in 1 .. Len(undo) + 1 \/ j = Len(undo) + 2
    BY <1>2, TimelineAfterEdit, StacksAreSequences
  <2>2. 1 .. Len(undo) + 1 \subseteq 1 .. Len(timeline)
    BY StacksAreSequences
  <2> QED BY <1>1, <1>2, <2>1, <2>2, TimelineAfterEdit
<1>9. AllValid'
  BY <1>8 DEF AllValid, HInv
<1>10. AllReserved'
  BY <1>8 DEF AllReserved, HInv
<1>11. NoInternalError'
  BY <1>3 DEF NoInternalError, HInv
<1> QED BY <1>6, <1>7, <1>9, <1>10, <1>11 DEF HInv

LEMMA EditKeepsHInv == HInv /\ HEdit => HInv'
<1> SUFFICES ASSUME HInv, HEdit PROVE HInv'
  OBVIOUS
<1>1. timeline' = Append(SubSeq(timeline, 1, Len(undo) + 1), document')
  BY DEF HEdit
<1>2. PICK k \in CommandIds : Edit(k)
  BY DEF HEdit
<1>3. TypeOK
  BY DEF HInv, HTypeOK
<1>4. ASSUME NEW c \in Change, c.before = Replaced(c, document), Commit(c)
      PROVE  origin' \in [Ids -> Relations \cup {ANotation, None}]
  <2>1. document' \in Document
    BY <1>4, StacksAreSequences, ChangeIsStep DEF Commit
  <2>2. \A i \in Ids : Named(i, document') \in Relations \cup {ANotation, None}
    BY <2>1 DEF Named, Document, RelationsOf
  <2> QED BY <2>2 DEF HEdit, HInv, HTypeOK
<1>5. ASSUME NEW i \in Ids, NEW t \in Contents, CreateNotation(k, i, t)
      PROVE  HInv'
  <2> DEFINE c == CreateNotationChange(i, t)
  <2>1. c \in NotationChange /\ c \in Change /\ c.kind = "notation" /\ c.id = i
    BY DEF CreateNotationChange, NotationChange, Change
  <2>2. Running /\ Commit(c) /\ i \notin usedObjects
    BY <1>5 DEF CreateNotation, Admit, CreateNotationChange
  <2>3. i \notin Occupied(document)
    BY <2>2, StacksAreSequences
  <2>4. c.before = Replaced(c, document)
    BY <2>3 DEF CreateNotationChange, Replaced, Occupied, NotationsOf
  <2>5. Valid(Forward(c, document))
    BY <1>5, <2>1, <2>3, StacksAreSequences, NewNotationIsValid DEF CreateNotation
  <2>6. /\ usedObjects \subseteq usedObjects' /\ usedObjects' \subseteq Ids
        /\ usedCommands' \subseteq CommandIds /\ i \in usedObjects'
    BY <1>3, <1>5 DEF CreateNotation, Admit, TypeOK
  <2>7. Occupied(Forward(c, document)) \subseteq usedObjects'
    <3>1. /\ NotationsOf(Forward(c, document)) = NotationsOf(document) \cup {i}
          /\ RelationsOf(Forward(c, document)) = RelationsOf(document)
      BY <2>1, StacksAreSequences, ForwardNotation
    <3> HIDE DEF c
    <3> QED BY <2>6, <3>1, StacksAreSequences DEF Occupied
  <2> HIDE DEF c
  <2> QED BY <1>1, <1>4, <2>1, <2>2, <2>4, <2>5, <2>6, <2>7, CommitKeepsHInv
<1>6. ASSUME NEW i \in Ids, NEW t \in Contents, UpdateNotation(k, i, t)
      PROVE  HInv'
  <2> DEFINE c == UpdateNotationChange(i, t)
  <2>0. document.notations \in [Ids -> Contents \cup {None}]
    BY StacksAreSequences DEF Document
  <2>1. c \in NotationChange /\ c \in Change /\ c.kind = "notation" /\ c.id = i
    BY <2>0 DEF UpdateNotationChange, NotationChange, Change
  <2>2. Running /\ Commit(c) /\ i \in NotationsOf(document)
    BY <1>6 DEF UpdateNotation, Admit, UpdateNotationChange
  <2>4. c.before = Replaced(c, document)
    BY DEF UpdateNotationChange, Replaced
  <2>5. Valid(Forward(c, document))
    BY <2>1, <2>2, StacksAreSequences, UpdateIsValid
  <2>6. /\ usedObjects \subseteq usedObjects' /\ usedObjects' \subseteq Ids
        /\ usedCommands' \subseteq CommandIds
    BY <1>3, <1>6 DEF UpdateNotation, Admit, TypeOK
  <2>7. Occupied(Forward(c, document)) \subseteq usedObjects'
    <3>1. /\ NotationsOf(Forward(c, document)) = NotationsOf(document) \cup {i}
          /\ RelationsOf(Forward(c, document)) = RelationsOf(document)
      BY <2>1, StacksAreSequences, ForwardNotation
    <3> HIDE DEF c
    <3> QED BY <2>2, <2>6, <3>1, StacksAreSequences DEF Occupied
  <2> HIDE DEF c
  <2> QED BY <1>1, <1>4, <2>1, <2>2, <2>4, <2>5, <2>6, <2>7, CommitKeepsHInv
<1>7. ASSUME NEW i \in Ids, NEW r \in Relations, CreateRelation(k, i, r)
      PROVE  HInv'
  <2> DEFINE c == CreateRelationChange(i, r)
  <2>1. /\ c \in RelationChange /\ c \in Change /\ c.kind # "notation" /\ c.id = i
        /\ c.after = r
    BY DEF CreateRelationChange, RelationChange, Change
  <2>2. Running /\ Commit(c) /\ i \notin usedObjects
    BY <1>7 DEF CreateRelation, Admit, CreateRelationChange
  <2>3. i \notin Occupied(document)
    BY <2>2, StacksAreSequences
  <2>4. c.before = Replaced(c, document)
    BY <2>3 DEF CreateRelationChange, Replaced, Occupied, RelationsOf
  <2>5. Valid(Forward(c, document))
    BY <1>7, <2>1, <2>3, StacksAreSequences, NewRelationIsValid DEF CreateRelation
  <2>6. /\ usedObjects \subseteq usedObjects' /\ usedObjects' \subseteq Ids
        /\ usedCommands' \subseteq CommandIds /\ i \in usedObjects'
    BY <1>3, <1>7 DEF CreateRelation, Admit, TypeOK
  <2>7. Occupied(Forward(c, document)) \subseteq usedObjects'
    <3>1. /\ NotationsOf(Forward(c, document)) = NotationsOf(document)
          /\ RelationsOf(Forward(c, document)) = RelationsOf(document) \cup {i}
      BY <2>1, StacksAreSequences, ForwardRelation
    <3> HIDE DEF c
    <3> QED BY <2>6, <3>1, StacksAreSequences DEF Occupied
  <2> HIDE DEF c
  <2> QED BY <1>1, <1>4, <2>1, <2>2, <2>4, <2>5, <2>6, <2>7, CommitKeepsHInv
<1> QED BY <1>2, <1>5, <1>6, <1>7 DEF Edit

\* What popping a stack leaves.
LEMMA PopProperties ==
  ASSUME NEW s \in Seq(Change), s # << >>
  PROVE  /\ Len(s) \in Nat \ {0}
         /\ s[Len(s)] \in Change
         /\ SubSeq(s, 1, Len(s) - 1) \in Seq(Change)
         /\ Len(SubSeq(s, 1, Len(s) - 1)) = Len(s) - 1
         /\ \A j \in 1 .. Len(s) - 1 : SubSeq(s, 1, Len(s) - 1)[j] = s[j]
<1>1. Len(s) \in Nat \ {0}
  BY EmptySeq
<1>2. \A j \in 1 .. Len(s) : s[j] \in Change
  BY ElementOfSeq
<1>3. /\ Len(s) - 1 \in Int /\ 1 \in Int
      /\ \A j \in 1 .. Len(s) - 1 : s[j] \in Change
      /\ Len(s) \in 1 .. Len(s)
  BY <1>1, <1>2
<1>4. /\ SubSeq(s, 1, Len(s) - 1) \in Seq(Change)
      /\ Len(SubSeq(s, 1, Len(s) - 1)) = IF 1 <= Len(s) - 1 THEN (Len(s) - 1) - 1 + 1 ELSE 0
      /\ \A j \in 1 .. (Len(s) - 1) - 1 + 1 : SubSeq(s, 1, Len(s) - 1)[j] = s[1 + j - 1]
  BY <1>3, SubSeqProperties
<1> DEFINE rest == SubSeq(s, 1, Len(s) - 1)
<1>5. /\ rest \in Seq(Change)
      /\ Len(rest) = IF 1 <= Len(s) - 1 THEN (Len(s) - 1) - 1 + 1 ELSE 0
      /\ \A j \in 1 .. (Len(s) - 1) - 1 + 1 : rest[j] = s[1 + j - 1]
  BY <1>4
<1> HIDE DEF rest
<1>6. /\ Len(rest) = Len(s) - 1
      /\ \A j \in 1 .. Len(s) - 1 : rest[j] = s[j]
  <2> DEFINE n == Len(s)
  <2>1. n \in Nat \ {0} /\ Len(rest) = IF 1 <= n - 1 THEN (n - 1) - 1 + 1 ELSE 0
    BY <1>1, <1>5
  <2>2. \A j \in 1 .. (n - 1) - 1 + 1 : rest[j] = s[1 + j - 1]
    BY <1>5
  <2> HIDE DEF n
  <2>3. Len(rest) = n - 1
    BY <2>1
  <2>4. ASSUME NEW j \in 1 .. n - 1
        PROVE  rest[j] = s[j]
    <3>1. j \in 1 .. (n - 1) - 1 + 1 /\ 1 + j - 1 = j
      BY <2>1
    <3> QED BY <2>2, <3>1
  <2> QED BY <2>3, <2>4 DEF n
<1>7. s[Len(s)] \in Change
  BY <1>2, <1>3
<1> QED BY <1>1, <1>5, <1>6, <1>7 DEF rest

LEMMA UndoStep ==
  ASSUME HInv, NEW k \in CommandIds, Undo(k), UNCHANGED <<timeline, origin>>
  PROVE  /\ HInv'
         /\ Len(undo') = Len(undo) - 1
         /\ Len(undo) \in 1 .. Len(timeline)
         /\ document' = timeline[Len(undo)]
<1> DEFINE top == undo[Len(undo)]
<1>1. /\ Running /\ undo # << >>
      /\ document' = Backward(top, document)
      /\ redo' = Append(redo, top)
      /\ undo' = SubSeq(undo, 1, Len(undo) - 1)
      /\ usedObjects' = usedObjects
      /\ usedCommands' = usedCommands \cup {k}
  BY DEF Undo, Admit
<1>2. /\ Len(undo) \in Nat \ {0} /\ top \in Change
      /\ undo' \in Seq(Change) /\ Len(undo') = Len(undo) - 1
      /\ \A j \in 1 .. Len(undo) - 1 : undo'[j] = undo[j]
  BY <1>1, StacksAreSequences, PopProperties
<1> HIDE DEF top
<1>3. /\ redo' \in Seq(Change) /\ Len(redo') = Len(redo) + 1
      /\ \A j \in 1 .. Len(redo) : redo'[j] = redo[j]
      /\ redo'[Len(redo) + 1] = top
  BY <1>1, <1>2, StacksAreSequences, AppendProperties
<1>4. /\ Len(undo) \in 1 .. Len(timeline) /\ Len(undo) \in 1 .. Len(undo)
      /\ timeline[Len(undo)] \in Document
  BY <1>2, StacksAreSequences, ElementOfSeq
<1>5. Step(top, timeline[Len(undo)], document)
  BY <1>4, StacksAreSequences DEF HInv, Aligned, top
<1>6. document' = timeline[Len(undo)]
  BY <1>1, <1>5 DEF Step
<1>7. Valid(document')
  BY <1>4, <1>6 DEF HInv, AllValid
<1>8. revision' = revision + 1 /\ result' = result
  BY <1>7 DEF Undo, Settle
<1>9. HTypeOK'
  BY <1>1, <1>2, <1>3, <1>4, <1>6, <1>8 DEF HInv, HTypeOK, TypeOK
<1>10. Aligned'
  <2>1. Len(timeline') = Len(undo') + Len(redo') + 1 /\ Len(undo') + 1 = Len(undo)
    BY <1>2, <1>3, StacksAreSequences
  <2>2. \A j \in 1 .. Len(undo') : Step(undo'[j], timeline[j], timeline[j + 1])
    BY SMTT(30), <1>2 DEF HInv, Aligned
  <2>3. ASSUME NEW j \in 1 .. Len(redo')
        PROVE  Step(redo'[j], timeline[Len(timeline) - j], timeline[Len(timeline) - j + 1])
    <3>1. CASE j \in 1 .. Len(redo)
      BY <1>3, <3>1 DEF HInv, Aligned
    <3>2. CASE j = Len(redo) + 1
      <4>1. Len(timeline) - j = Len(undo) /\ Len(timeline) - j + 1 = Len(undo) + 1
        BY <1>2, <3>2, StacksAreSequences
      <4> QED BY <1>3, <1>5, <3>2, <4>1, StacksAreSequences
    <3> QED BY <1>3, <3>1, <3>2, StacksAreSequences
  <2> QED BY <1>6, <2>1, <2>2, <2>3 DEF Aligned
<1>11. AllValid' /\ AllReserved' /\ NoInternalError'
  BY <1>1, <1>8 DEF AllValid, AllReserved, NoInternalError, HInv
<1> QED BY <1>2, <1>4, <1>6, <1>9, <1>10, <1>11 DEF HInv

LEMMA RedoStep ==
  ASSUME HInv, NEW k \in CommandIds, Redo(k), UNCHANGED <<timeline, origin>>
  PROVE  /\ HInv'
         /\ Len(undo') = Len(undo) + 1
         /\ Len(undo) + 2 \in 1 .. Len(timeline)
         /\ document' = timeline[Len(undo) + 2]
<1> DEFINE top == redo[Len(redo)]
<1>1. /\ Running /\ redo # << >>
      /\ document' = Forward(top, document)
      /\ undo' = Append(undo, top)
      /\ redo' = SubSeq(redo, 1, Len(redo) - 1)
      /\ usedObjects' = usedObjects
      /\ usedCommands' = usedCommands \cup {k}
  BY DEF Redo, Admit
<1>2. /\ Len(redo) \in Nat \ {0} /\ top \in Change
      /\ redo' \in Seq(Change) /\ Len(redo') = Len(redo) - 1
      /\ \A j \in 1 .. Len(redo) - 1 : redo'[j] = redo[j]
  BY <1>1, StacksAreSequences, PopProperties
<1> HIDE DEF top
<1>3. /\ undo' \in Seq(Change) /\ Len(undo') = Len(undo) + 1
      /\ \A j \in 1 .. Len(undo) : undo'[j] = undo[j]
      /\ undo'[Len(undo) + 1] = top
  BY <1>1, <1>2, StacksAreSequences, AppendProperties
<1>4. /\ Len(undo) + 2 \in 1 .. Len(timeline) /\ Len(redo) \in 1 .. Len(redo)
      /\ Len(timeline) - Len(redo) = Len(undo) + 1
      /\ Len(timeline) - Len(redo) + 1 = Len(undo) + 2
  <2> DEFINE u == Len(undo)
             r == Len(redo)
  <2>1. u \in Nat /\ r \in Nat \ {0} /\ Len(timeline) = u + r + 1
    BY <1>2, StacksAreSequences
  <2> HIDE DEF u, r
  <2>2. /\ u + 2 \in 1 .. Len(timeline) /\ r \in 1 .. r
        /\ Len(timeline) - r = u + 1 /\ Len(timeline) - r + 1 = u + 2
    BY <2>1
  <2> QED BY <2>2 DEF u, r
<1>5. Step(top, document, timeline[Len(undo) + 2]) /\ timeline[Len(undo) + 2] \in Document
  BY <1>4, StacksAreSequences, ElementOfSeq DEF HInv, Aligned, top
<1>6. document' = timeline[Len(undo) + 2]
  BY <1>1, <1>5 DEF Step
<1>7. Valid(document')
  BY <1>4, <1>6 DEF HInv, AllValid
<1>8. revision' = revision + 1 /\ result' = result
  BY <1>7 DEF Redo, Settle
<1>9. HTypeOK'
  BY <1>1, <1>2, <1>3, <1>5, <1>6, <1>8 DEF HInv, HTypeOK, TypeOK
<1>10. Aligned'
  <2>1. Len(timeline') = Len(undo') + Len(redo') + 1 /\ Len(undo') + 1 = Len(undo) + 2
    BY <1>2, <1>3, StacksAreSequences
  <2>2. \A j \in 1 .. Len(redo') :
          Step(redo'[j], timeline[Len(timeline) - j], timeline[Len(timeline) - j + 1])
    BY <1>2 DEF HInv, Aligned
  <2>3. ASSUME NEW j \in 1 .. Len(undo')
        PROVE  Step(undo'[j], timeline[j], timeline[j + 1])
    <3>1. CASE j \in 1 .. Len(undo)
      BY <1>3, <3>1 DEF HInv, Aligned
    <3>2. CASE j = Len(undo) + 1
      <4>1. j + 1 = Len(undo) + 2
        BY <3>2, StacksAreSequences
      <4> QED BY <1>3, <1>5, <3>2, <4>1, StacksAreSequences
    <3> QED BY <1>3, <3>1, <3>2, StacksAreSequences
  <2> QED BY <1>6, <2>1, <2>2, <2>3 DEF Aligned
<1>11. AllValid' /\ AllReserved' /\ NoInternalError'
  BY <1>1, <1>8 DEF AllValid, AllReserved, NoInternalError, HInv
<1> QED BY <1>3, <1>4, <1>6, <1>9, <1>10, <1>11 DEF HInv

-----------------------------------------------------------------------------
(* The inductive invariant.                                                *)

LEMMA InitHInv == HInit => HInv
<1> SUFFICES ASSUME HInit PROVE HInv
  OBVIOUS
<1> USE EmptyIsValid DEF HInit, Init
<1>1. HTypeOK
  BY EmptySeq DEF HTypeOK, TypeOK
<1>2. Len(undo) = 0 /\ Len(redo) = 0 /\ Len(timeline) = 1 /\ timeline[1] = document
  BY EmptySeq
<1>3. Occupied(EmptyDocument) = {}
  BY DEF Occupied, NotationsOf, RelationsOf, EmptyDocument
<1>4. Aligned
  BY <1>2 DEF Aligned
<1>5. AllValid /\ AllReserved
  BY <1>2, <1>3 DEF AllValid, AllReserved
<1>6. NoInternalError
  BY KernelAssumption DEF NoInternalError, Errors
<1> QED BY <1>1, <1>4, <1>5, <1>6 DEF HInv

LEMMA EndKeepsHInv == HInv /\ HEnd => HInv'
<1> SUFFICES ASSUME HInv, HEnd PROVE HInv'
  OBVIOUS
<1>1. /\ UNCHANGED <<document, usedObjects, usedCommands, undo, redo, revision>>
      /\ UNCHANGED <<timeline, origin>>
  BY DEF HEnd, End, Finish, Refuse
<1>2. ~ Meets("INTERNAL_STATE_ERROR")
  <2>1. None # "INTERNAL_STATE_ERROR"
    BY KernelAssumption DEF Errors
  <2> QED BY <2>1 DEF Meets, CreateNotationRefusal, CreationRefusal, UpdateNotationRefusal,
                      CreateRelationRefusal, UndoRefusal, RedoRefusal
<1>3. \/ result' = "STATE"
      \/ result' \in Errors /\ Meets(result')
  BY DEF HEnd, End, Finish, Refuse
<1>4. result' \in Errors \cup {"STATE"} /\ result' # "INTERNAL_STATE_ERROR"
  BY <1>2, <1>3
<1> QED BY <1>1, <1>4 DEF HInv, HTypeOK, TypeOK, Aligned, AllValid, AllReserved,
                          NoInternalError

LEMMA InductiveInvariant == HSpec => []HInv
<1>1. HInv /\ [HNext]_hvars => HInv'
  <2> SUFFICES ASSUME HInv, [HNext]_hvars PROVE HInv'
    OBVIOUS
  <2>1. CASE HEdit
    BY <2>1, EditKeepsHInv
  <2>2. CASE HTravel
    BY <2>2, UndoStep, RedoStep DEF HTravel, Travel
  <2>3. CASE HEnd
    BY <2>3, EndKeepsHInv
  <2>4. CASE UNCHANGED hvars
    BY <2>4 DEF hvars, HInv, HTypeOK, TypeOK, Aligned, AllValid, AllReserved,
                NoInternalError
  <2> QED BY <2>1, <2>2, <2>3, <2>4 DEF HNext
<1> QED BY <1>1, InitHInv, PTL DEF HSpec

\* The Replay value keeps its shape whatever batch is replayed.
THEOREM KernelTypeCorrect == HSpec => []TypeOK
<1>1. HInv => TypeOK
  BY DEF HInv, HTypeOK
<1> QED BY <1>1, InductiveInvariant, PTL

\* validate() never fails: for all limits and identifiers INTERNAL_STATE_ERROR
\* is unreachable, although Undo and Redo check neither limits nor endpoints.
THEOREM InternalErrorUnreachable == HSpec => []NoInternalError
<1>1. HInv => NoInternalError
  BY DEF HInv
<1> QED BY <1>1, InductiveInvariant, PTL

-----------------------------------------------------------------------------
(* Identity and refinement.                                                *)

\* An edit changes the document, and an identifier that was used before names
\* the same object after it.
LEMMA EditEffect ==
  ASSUME HInv, HEdit
  PROVE  /\ document' # document
         /\ \A i \in usedObjects : Named(i, document') = Named(i, document)
<1>1. PICK k \in CommandIds : Edit(k)
  BY DEF HEdit
<1>2. /\ document \in Document /\ Occupied(document) \subseteq usedObjects
      /\ usedObjects \subseteq Ids
  BY StacksAreSequences DEF HInv, HTypeOK, TypeOK
<1>3. /\ document.notations \in [Ids -> Contents \cup {None}]
      /\ document.relations \in [Ids -> Relations \cup {None}]
  BY <1>2 DEF Document
<1>4. ASSUME NEW i \in Ids, NEW t \in Contents, CreateNotation(k, i, t)
      PROVE  /\ document' # document
             /\ \A j \in usedObjects : Named(j, document') = Named(j, document)
  <2> DEFINE c == CreateNotationChange(i, t)
  <2>1. c \in Change /\ c.kind = "notation" /\ c.id = i
    BY DEF CreateNotationChange, NotationChange, Change
  <2>2. document' = Forward(c, document) /\ i \notin usedObjects
    BY <1>4 DEF CreateNotation, Commit, CreateNotationChange
  <2> HIDE DEF c
  <2>3. /\ document'.relations = document.relations
        /\ NotationsOf(document') = NotationsOf(document) \cup {i}
        /\ RelationsOf(document') = RelationsOf(document)
    BY <1>2, <2>1, <2>2, ForwardNotation
  <2>4. i \notin NotationsOf(document)
    BY <1>2, <2>2 DEF Occupied
  <2> QED BY <2>2, <2>3, <2>4 DEF Named
<1>5. ASSUME NEW i \in Ids, NEW t \in Contents, UpdateNotation(k, i, t)
      PROVE  /\ document' # document
             /\ \A j \in usedObjects : Named(j, document') = Named(j, document)
  <2> DEFINE c == UpdateNotationChange(i, t)
  <2>1. c \in Change /\ c.kind = "notation" /\ c.id = i /\ c.after = t
    BY <1>3 DEF UpdateNotationChange, NotationChange, Change
  <2>2. /\ document' = Forward(c, document)
        /\ i \in NotationsOf(document) /\ document.notations[i] # t
    BY <1>5 DEF UpdateNotation, Commit, UpdateNotationChange
  <2> HIDE DEF c
  <2>3. /\ document'.relations = document.relations
        /\ document'.notations = [document.notations EXCEPT ![i] = t]
        /\ NotationsOf(document') = NotationsOf(document) \cup {i}
        /\ RelationsOf(document') = RelationsOf(document)
    BY <1>2, <2>1, <2>2, ForwardNotation
  <2>4. document'.notations[i] = t
    BY <1>3, <2>3
  <2> QED BY <2>2, <2>3, <2>4 DEF Named
<1>6. ASSUME NEW i \in Ids, NEW r \in Relations, CreateRelation(k, i, r)
      PROVE  /\ document' # document
             /\ \A j \in usedObjects : Named(j, document') = Named(j, document)
  <2> DEFINE c == CreateRelationChange(i, r)
  <2>1. c \in Change /\ c.kind # "notation" /\ c.id = i /\ c.after = r
    BY DEF CreateRelationChange, RelationChange, Change
  <2>2. document' = Forward(c, document) /\ i \notin usedObjects
    BY <1>6 DEF CreateRelation, Commit, CreateRelationChange
  <2> HIDE DEF c
  <2>3. /\ document'.relations = [document.relations EXCEPT ![i] = r]
        /\ NotationsOf(document') = NotationsOf(document)
        /\ RelationsOf(document') = RelationsOf(document) \cup {i}
    BY <1>2, <2>1, <2>2, ForwardRelation
  <2>4. i \notin RelationsOf(document)
    BY <1>2, <2>2 DEF Occupied
  <2>5. \A j \in usedObjects : j # i /\ document'.relations[j] = document.relations[j]
    BY <1>2, <1>3, <2>2, <2>3
  <2> QED BY <2>3, <2>4, <2>5 DEF Named
<1> QED BY <1>1, <1>4, <1>5, <1>6 DEF Edit

LEMMA EditKeepsIdentity ==
  ASSUME HInv, HInv', HEdit, IdentityIsStable
  PROVE  IdentityIsStable'
<1> SUFFICES ASSUME NEW j \in 1 .. Len(timeline'), NEW i \in Ids
             PROVE  Named(i, timeline'[j]) \in {None, origin'[i]}
  BY DEF IdentityIsStable
<1>1. /\ timeline' = Append(SubSeq(timeline, 1, Len(undo) + 1), document')
      /\ origin'[i] = IF i \in usedObjects THEN origin[i] ELSE Named(i, document')
  BY DEF HEdit
<1>2. document' \in Document
  BY DEF HInv, HTypeOK, TypeOK
<1>3. /\ Len(timeline') = Len(undo) + 2
      /\ \A n \in 1 .. Len(undo) + 1 : timeline'[n] = timeline[n]
      /\ timeline'[Len(undo) + 2] = document'
  BY <1>1, <1>2, TimelineAfterEdit
<1>4. /\ Len(undo) \in Nat /\ Len(undo) + 1 \in 1 .. Len(timeline)
      /\ document = timeline[Len(undo) + 1]
      /\ \A n \in 1 .. Len(undo) + 1 : n \in 1 .. Len(timeline)
  BY StacksAreSequences
<1>5. CASE j = Len(undo) + 2
  <2>1. CASE i \in usedObjects
    <3>1. Named(i, document) \in {None, origin[i]}
      BY <1>4 DEF IdentityIsStable
    <3> QED BY <1>1, <1>3, <1>5, <2>1, <3>1, EditEffect
  <2>2. CASE i \notin usedObjects
    BY <1>1, <1>3, <1>5, <2>2
  <2> QED BY <2>1, <2>2
<1>6. CASE j \in 1 .. Len(undo) + 1
  <2>1. timeline'[j] = timeline[j] /\ j \in 1 .. Len(timeline)
    BY <1>3, <1>4, <1>6
  <2>2. CASE i \in usedObjects
    BY <1>1, <2>1, <2>2 DEF IdentityIsStable
  <2>3. CASE i \notin usedObjects
    <3>1. i \notin Occupied(timeline[j])
      BY <2>1, <2>3 DEF HInv, AllReserved
    <3> QED BY <2>1, <3>1 DEF Named, Occupied
  <2> QED BY <2>2, <2>3
<1> QED BY <1>3, <1>4, <1>5, <1>6

\* An identifier keeps its meaning for good: after any edits, undos, redos and
\* discarded branches it never names an object of the other kind or a relation
\* with other endpoints.
THEOREM IdentifiersKeepTheirMeaning == HSpec => []IdentityIsStable
<1>1. HInit => IdentityIsStable
  <2> SUFFICES ASSUME HInit PROVE IdentityIsStable
    OBVIOUS
  <2>1. Len(timeline) = 1 /\ timeline[1] = EmptyDocument
    BY EmptySeq DEF HInit
  <2>2. \A i \in Ids : Named(i, EmptyDocument) = None
    BY DEF Named, EmptyDocument, NotationsOf, RelationsOf
  <2> QED BY <2>1, <2>2 DEF IdentityIsStable
<1>2. HInv /\ HInv' /\ IdentityIsStable /\ [HNext]_hvars => IdentityIsStable'
  <2> SUFFICES ASSUME HInv, HInv', IdentityIsStable, [HNext]_hvars
               PROVE  IdentityIsStable'
    OBVIOUS
  <2>1. CASE HEdit
    BY <2>1, EditKeepsIdentity
  <2>2. CASE HTravel \/ HEnd \/ UNCHANGED hvars
    <3>1. UNCHANGED <<timeline, origin>>
      BY <2>2 DEF HTravel, HEnd, hvars
    <3> QED BY <3>1 DEF IdentityIsStable
  <2> QED BY <2>1, <2>2 DEF HNext
<1> QED BY <1>1, <1>2, InductiveInvariant, PTL DEF HSpec

\* Every step of the kernel is an edit or a cursor movement of UndoHistory, or
\* changes nothing the user sees.
THEOREM KernelImplementsUndoHistory == HSpec => UndoHistorySpec
<1>1. HInit => History!Init
  BY EmptySeq DEF HInit, Init, History!Init
<1>2. HInv /\ HInv' /\ [HNext]_hvars => [History!Next]_(History!vars)
  <2> SUFFICES ASSUME HInv, HInv', [HNext]_hvars
               PROVE  History!Next \/ UNCHANGED History!vars
    OBVIOUS
  <2>1. CASE HEdit
    <3>1. document' \in ValidDocuments \ {document}
      BY <2>1, EditEffect, StacksAreSequences DEF ValidDocuments, HInv, HTypeOK, TypeOK,
                                                  Aligned, AllValid
    <3>2. Len(undo') = Len(undo) + 1
      <4>1. document' \in Document
        BY DEF HInv, HTypeOK, TypeOK
      <4>2. Len(timeline') = Len(undo) + 2
        BY <2>1, <4>1, TimelineAfterEdit DEF HEdit
      <4>3. Len(timeline') = Len(undo') + Len(redo') + 1 /\ Len(undo') \in Nat
        BY LenProperties DEF HInv, HTypeOK, TypeOK, Aligned
      <4>4. redo' = << >>
        BY <2>1 DEF HEdit, Edit, CreateNotation, UpdateNotation, CreateRelation, Commit
      <4> QED BY <4>2, <4>3, <4>4, EmptySeq, StacksAreSequences
    <3>3. timeline' = Append(SubSeq(timeline, 1, Len(undo) + 1), document')
      BY <2>1 DEF HEdit
    <3>4. Len(undo') + 1 = (Len(undo) + 1) + 1
      BY <3>2
    <3> QED BY <3>1, <3>3, <3>4 DEF History!Next, History!Edit
  <2>2. CASE HTravel
    <3>1. PICK k \in CommandIds : Travel(k)
      BY <2>2 DEF HTravel
    <3>2. UNCHANGED <<timeline, origin>>
      BY <2>2 DEF HTravel
    <3>3. CASE Undo(k)
      <4>1. /\ Len(undo) \in 1 .. Len(timeline) /\ document' = timeline[Len(undo)]
            /\ Len(undo') = Len(undo) - 1
        BY <3>2, <3>3, UndoStep
      <4>2. Len(undo') + 1 = (Len(undo) + 1) - 1 /\ (Len(undo) + 1) - 1 = Len(undo)
        BY <4>1
      <4>3. History!MoveTo((Len(undo) + 1) - 1)
        BY <3>2, <4>1, <4>2 DEF History!MoveTo
      <4> QED BY <4>3 DEF History!Next
    <3>4. CASE Redo(k)
      <4>1. /\ Len(undo) + 2 \in 1 .. Len(timeline)
            /\ document' = timeline[Len(undo) + 2]
            /\ Len(undo') = Len(undo) + 1
        BY <3>2, <3>4, RedoStep
      <4>2. /\ Len(undo') + 1 = (Len(undo) + 1) + 1
            /\ (Len(undo) + 1) + 1 = Len(undo) + 2
        BY <4>1, StacksAreSequences
      <4>3. History!MoveTo((Len(undo) + 1) + 1)
        BY <3>2, <4>1, <4>2 DEF History!MoveTo
      <4> QED BY <4>3 DEF History!Next
    <3> QED BY <3>1, <3>3, <3>4 DEF Travel
  <2>3. CASE HEnd \/ UNCHANGED hvars
    BY <2>3 DEF HEnd, End, Finish, Refuse, hvars, History!vars
  <2> QED BY <2>1, <2>2, <2>3 DEF HNext
<1> QED BY <1>1, <1>2, InductiveInvariant, PTL DEF HSpec, UndoHistorySpec, History!Spec

-----------------------------------------------------------------------------
(* An answer as of a knowledge time is decided without looking further     *)
(* than that time, and a later release does not change it.                 *)

\* The instants of a corpus, of a release and of a query can be compared.
DatedCorpus(c) ==
  /\ \A r \in c.records : r.known \in Int
  /\ \A x \in c.retractions : x.issued \in Int

Dated(rel, q) == rel.known \in Int /\ q.known \in Int

-----------------------------------------------------------------------------
\* KnowledgeTime clamps: never beyond the cutoff of the release, nor beyond
\* what was asked.
LEMMA ClampedTime ==
  ASSUME NEW rel, NEW q, Dated(rel, q)
  PROVE  /\ KnowledgeTime(rel, q) \in Int
         /\ KnowledgeTime(rel, q) <= rel.known
         /\ KnowledgeTime(rel, q) <= q.known
BY DEF Dated, KnowledgeTime

\* Evaluate depends on a corpus and a release only through the candidates, the
\* status of records at the knowledge time and what the release delivers.
LEMMA EvaluateAlike ==
  ASSUME NEW c, NEW d, NEW rel1, NEW rel2, NEW q, NEW s, NEW res, NEW l,
         Candidates(c, rel1, s, q) = Candidates(d, rel2, s, q),
         \A r : StatusAt(c, r, KnowledgeTime(rel1, q))
                  = StatusAt(d, r, KnowledgeTime(rel2, q)),
         rel1.delivers = rel2.delivers
  PROVE  Evaluate(c, rel1, q, s, res, l) = Evaluate(d, rel2, q, s, res, l)
<1>1. \A r : Deliverable(rel1, r, q.viewer) = Deliverable(rel2, r, q.viewer)
  BY DEF Deliverable
<1>2. \A r : SetAside(c, rel1, q, r) = SetAside(d, rel2, q, r)
  BY <1>1 DEF SetAside
<1>3. \A R : RefusalOf(c, rel1, q, R) = RefusalOf(d, rel2, q, R)
  BY <1>1 DEF RefusalOf
<1> QED
  BY <1>2, <1>3 DEF Evaluate

\* So does a whole query, which also reads the links in effect and the samples
\* that none of them connects.
LEMMA QueryAlike ==
  ASSUME NEW c, NEW d, NEW rel1, NEW rel2, NEW q,
         \A s : Candidates(c, rel1, s, q) = Candidates(d, rel2, s, q),
         \A r : StatusAt(c, r, KnowledgeTime(rel1, q))
                  = StatusAt(d, r, KnowledgeTime(rel2, q)),
         LinksInEffect(c, rel1, q) = LinksInEffect(d, rel2, q),
         UnlinkedSamples(c, rel1, q) = UnlinkedSamples(d, rel2, q),
         rel1.delivers = rel2.delivers
  PROVE  QueryAsOf(c, rel1, q) = QueryAsOf(d, rel2, q)
<1>1. \A s, res, l : Evaluate(c, rel1, q, s, res, l) = Evaluate(d, rel2, q, s, res, l)
  BY EvaluateAlike
<1>2. LinksTo(c, rel1, q) = LinksTo(d, rel2, q)
  BY DEF LinksTo
<1>3. Leading(c, rel1, q) = Leading(d, rel2, q)
  BY <1>2 DEF Leading
<1> QED
  BY <1>1, <1>2, <1>3 DEF QueryAsOf

-----------------------------------------------------------------------------
\* queryAsOf decides by what was knowable at the knowledge time: over the whole
\* corpus it gives the answer it gives over the records known and the retractions
\* issued by then, with the same record, candidates, refusal and everything it
\* considered.  Records keep the ids of their superseder and retraction in both,
\* and are delivered with them.
THEOREM NoLookAhead ==
  ASSUME NEW c, NEW rel, NEW q, DatedCorpus(c), Dated(rel, q)
  PROVE  LooksNoFurther(c, rel, q)
<1> DEFINE t == KnowledgeTime(rel, q)
           then == UpTo(c, t)
<1>1. t \in Int /\ t <= rel.known
  BY ClampedTime
<1>2. \A r : r \in ReleaseRecords(then, rel) /\ r.known <= t
               <=> r \in ReleaseRecords(c, rel) /\ r.known <= t
  BY <1>1 DEF DatedCorpus, Dated, ReleaseRecords, UpTo
<1>3. \A s : Candidates(then, rel, s, q) = Candidates(c, rel, s, q)
  BY <1>2 DEF Candidates
<1>4. \A r : StatusAt(then, r, t) = StatusAt(c, r, t)
  <2>1. \A r : Withdrawn(then, r, t) <=> Withdrawn(c, r, t)
    BY DEF Withdrawn, UpTo
  <2>2. \A r : Corrected(then, r, t) <=> Corrected(c, r, t)
    BY DEF Corrected, UpTo
  <2> QED
    BY <2>1, <2>2 DEF StatusAt
<1>5. LinksInEffect(then, rel, q) = LinksInEffect(c, rel, q)
  BY <1>2, <1>4 DEF LinksInEffect
<1>6. UnlinkedSamples(then, rel, q) = UnlinkedSamples(c, rel, q)
  BY <1>2, <1>5 DEF UnlinkedSamples
<1>7. QueryAsOf(then, rel, q) = QueryAsOf(c, rel, q)
  BY <1>3, <1>4, <1>5, <1>6, QueryAlike
<1> QED
  BY <1>7 DEF LooksNoFurther

\* A new release of the same corpus does not change what an older one answers
\* about a time before both cutoffs, as long as it delivers the same sources.
THEOREM ReleasesKeepThePast ==
  ASSUME NEW c, NEW rel1, NEW rel2, NEW q,
         DatedCorpus(c), Dated(rel1, q), Dated(rel2, q)
  PROVE  ReleasesAgree(c, rel1, rel2, q)
<1> SUFFICES ASSUME q.known <= rel1.known, q.known <= rel2.known,
                    rel1.delivers = rel2.delivers
             PROVE  QueryAsOf(c, rel1, q) = QueryAsOf(c, rel2, q)
  BY DEF ReleasesAgree
<1>1. KnowledgeTime(rel1, q) = q.known /\ KnowledgeTime(rel2, q) = q.known
  BY DEF KnowledgeTime
<1>2. \A r : r \in ReleaseRecords(c, rel1) /\ r.known <= q.known
               <=> r \in ReleaseRecords(c, rel2) /\ r.known <= q.known
  BY DEF DatedCorpus, Dated, ReleaseRecords
<1>3. \A s : Candidates(c, rel1, s, q) = Candidates(c, rel2, s, q)
  BY <1>1, <1>2 DEF Candidates
<1>4. \A r : StatusAt(c, r, KnowledgeTime(rel1, q)) = StatusAt(c, r, KnowledgeTime(rel2, q))
  BY <1>1
<1>5. LinksInEffect(c, rel1, q) = LinksInEffect(c, rel2, q)
  BY <1>1, <1>2 DEF LinksInEffect
<1>6. UnlinkedSamples(c, rel1, q) = UnlinkedSamples(c, rel2, q)
  BY <1>1, <1>2, <1>5 DEF UnlinkedSamples
<1> QED
  BY <1>3, <1>4, <1>5, <1>6, QueryAlike

-----------------------------------------------------------------------------
(* The feed over a database that is being seeded.                          *)

\* A fixture whose instants can be compared, with a corpus in it.
WellFormed ==
  /\ Len(Rows) \in Nat
  /\ \A r \in TableIn(1 .. Len(Rows), "records") : r.known \in Int
  /\ \A x \in TableIn(1 .. Len(Rows), "retractions") : x.issued \in Int
  /\ \A r \in TableIn(1 .. Len(Rows), "releases") : r.known \in Int /\ r # Nil
  /\ TableIn(1 .. Len(Rows), "corpora") # {}
  /\ \A question \in Questions : question.kind = "asOf" => question.query.known \in Int

-----------------------------------------------------------------------------
(***************************************************************************)
(* The inductive invariant: what a seed has passed is stored, and nothing  *)
(* stored is lost; what a request has read is of the fixture, and all of   *)
(* it when a seed had ended before.                                        *)
(***************************************************************************)
Whole(table) == TableIn(1 .. Len(Rows), table)

Corpora == [records : SUBSET Whole("records"), retractions : SUBSET Whole("retractions")]

Readings ==
  [ question : Questions, round : {1, 2}, release : Whole("releases") \cup {Nil},
    step : {"list", "release", "corpus", "releases", "records", "retractions"},
    corpus : Corpora, settled : BOOLEAN ]

Seeded ==
  /\ stored \subseteq 1 .. Len(Rows)
  /\ seeding \in [Seeders -> 0 .. Len(Rows) + 1]
  /\ \A s \in Seeders, i \in 1 .. Len(Rows) : i < seeding[s] => i \in stored
  /\ completed \in BOOLEAN
  /\ completed => stored = 1 .. Len(Rows)

\* A release that a request has found stays found, and is the one it reads on.
Found ==
  LET id == reading.question.release
      past == reading.round = 2 \/ reading.step # "release"
  IN /\ reading.question.kind # "retractions" /\ past => ReleasesNamed(stored, id) # {}
     /\ reading.question.kind # "retractions" /\ reading.settled
          /\ reading.step \in {"records", "retractions"}
          => reading.release = CHOOSE r \in ReleasesNamed(1 .. Len(Rows), id) : TRUE

ReadingOK ==
  /\ reading \in Readings
  /\ reading.settled => completed
  /\ reading.question.kind = "retractions" => reading.round = 1 /\ reading.step # "release"
  /\ reading.step = "list" => reading.question.kind = "retractions"
  /\ reading.settled /\ reading.step = "retractions"
       => reading.corpus.records = Whole("records")
  /\ Found

ReplyOK ==
  /\ reply.question \in Questions
  /\ reply.body # Nil /\ reply.question.kind = "asOf"
       => reply.corpus \in Corpora /\ reply.release \in Whole("releases")
  /\ reply.settled => reply.body = FixtureBody(reply.question)

IInv == Seeded /\ (reading # Nil => ReadingOK) /\ (reply # Nil => ReplyOK)

-----------------------------------------------------------------------------
\* A table only grows with the rows, and is whole when every row is stored.
LEMMA TablesGrow ==
  ASSUME NEW rows, NEW more, rows \subseteq more, NEW table
  PROVE  TableIn(rows, table) \subseteq TableIn(more, table)
BY DEF TableIn

LEMMA NamedGrow ==
  ASSUME NEW rows, NEW more, rows \subseteq more, NEW id
  PROVE  ReleasesNamed(rows, id) \subseteq ReleasesNamed(more, id)
BY TablesGrow DEF ReleasesNamed

\* Steps of a seed leave the request alone and take no row away.
LEMMA SeedKeepsReading ==
  ASSUME IInv, stored \subseteq stored', completed => completed',
         UNCHANGED <<reading, reply>>
  PROVE  (reading # Nil => ReadingOK)' /\ (reply # Nil => ReplyOK)'
<1>1. ASSUME reading # Nil PROVE ReadingOK'
  <2>1. ReadingOK
    BY <1>1 DEF IInv
  <2>2. Found'
    BY <2>1, NamedGrow DEF ReadingOK, Found
  <2> QED
    BY <2>1, <2>2 DEF ReadingOK
<1>2. ASSUME reply # Nil PROVE ReplyOK'
  BY <1>2 DEF IInv, ReplyOK
<1> QED
  BY <1>1, <1>2

\* A seed stores rows of the fixture and never passes one that is not stored.
LEMMA SeedKeeps ==
  ASSUME WellFormed, IInv, NEW s \in Seeders,
         StartSeed(s) \/ InsertRow(s) \/ EndSeed(s) \/ StopSeed(s)
  PROVE  IInv'
<1> USE DEF WellFormed
<1>1. Seeded
  BY DEF IInv
<1>2. CASE StartSeed(s)
  BY <1>1, <1>2, SeedKeepsReading DEF StartSeed, IInv, Seeded
<1>3. CASE InsertRow(s)
  <2>2. /\ stored' \subseteq 1 .. Len(Rows)
        /\ completed' \in BOOLEAN
        /\ completed' => stored' = 1 .. Len(Rows)
    BY <1>1, <1>3 DEF InsertRow, Seeded
  <2>3. seeding' \in [Seeders -> 0 .. Len(Rows) + 1]
    <3>1. seeding[s] + 1 \in 0 .. Len(Rows) + 1
      BY <1>1, <1>3 DEF InsertRow, Seeded
    <3> QED
      BY <1>1, <1>3, <3>1 DEF InsertRow, Seeded
  <2>4. ASSUME NEW p \in Seeders, NEW i \in 1 .. Len(Rows), i < seeding'[p]
        PROVE  i \in stored'
    <3>1. CASE p = s
      <4>1. i < seeding[s] + 1 /\ seeding[s] \in 1 .. Len(Rows)
        BY <1>1, <1>3, <2>4, <3>1 DEF InsertRow, Seeded
      <4>2. i < seeding[s] \/ i = seeding[s]
        BY <4>1
      <4> QED
        BY <1>1, <1>3, <4>2 DEF InsertRow, Seeded
    <3>2. CASE p # s
      BY <1>1, <1>3, <2>4, <3>2 DEF InsertRow, Seeded
    <3> QED
      BY <3>1, <3>2
  <2>1. Seeded'
    BY <2>2, <2>3, <2>4 DEF Seeded
  <2> QED
    BY <2>1, <1>3, SeedKeepsReading DEF InsertRow, IInv
<1>4. CASE EndSeed(s)
  <2>2. \A i \in 1 .. Len(Rows) : i \in stored
    BY <1>1, <1>4 DEF EndSeed, Seeded
  <2>3. stored = 1 .. Len(Rows)
    BY <1>1, <2>2 DEF Seeded
  <2>4. seeding' \in [Seeders -> 0 .. Len(Rows) + 1]
    BY <1>1, <1>4 DEF EndSeed, Seeded
  <2>1. Seeded'
    BY <1>1, <1>4, <2>3, <2>4 DEF EndSeed, Seeded
  <2> QED
    BY <2>1, <1>4, SeedKeepsReading DEF EndSeed, IInv
<1>5. CASE StopSeed(s)
  BY <1>1, <1>5, SeedKeepsReading DEF StopSeed, IInv, Seeded
<1> QED
  BY <1>2, <1>3, <1>4, <1>5

-----------------------------------------------------------------------------
\* A request begins with nothing read.
LEMMA AskKeeps ==
  ASSUME WellFormed, IInv, NEW question \in Questions, Ask(question)
  PROVE  IInv'
<1>1. Seeded'
  BY DEF IInv, Seeded, Ask
<1>2. reading' \in Readings
  BY DEF IInv, Seeded, Ask, Readings, Corpora, NothingRead
<1>3. ReadingOK'
  BY <1>2 DEF Ask, ReadingOK, Found
<1>4. reply' = Nil
  BY DEF Ask
<1> QED
  BY <1>1, <1>3, <1>4 DEF IInv

\* What a request has read so far stays of the fixture; its answer, if a seed
\* had ended before it began, is that of the fixture.
LEMMA ReadKeeps ==
  ASSUME WellFormed, IInv, Read
  PROVE  IInv'
<1> DEFINE id == reading.question.release
<1>1. Seeded /\ ReadingOK /\ reading \in Readings
  BY DEF IInv, Read, ReadingOK
<1>2. Seeded' /\ UNCHANGED <<stored, completed>>
  BY <1>1 DEF Read, Seeded
<1>3. /\ Table("records") \subseteq Whole("records")
      /\ Table("retractions") \subseteq Whole("retractions")
      /\ ReleasesNamed(stored, id) \subseteq Whole("releases")
  BY <1>1, TablesGrow DEF Seeded, Table, Whole, ReleasesNamed
<1>4. reading.settled => \A table : Table(table) = Whole(table)
  BY <1>1 DEF ReadingOK, Seeded, Table, Whole
<1>5. reading.settled => ReleasesNamed(stored, id) = ReleasesNamed(1 .. Len(Rows), id)
  BY <1>1 DEF ReadingOK, Seeded
<1>6. ASSUME NEW step, UNCHANGED reply, reading' = [reading EXCEPT !.step = step],
             step \in {"corpus", "releases"},
             reading.question.kind = "retractions" \/ ReleasesNamed(stored, id) # {}
      PROVE  IInv'
  <2>1. reading' \in Readings
    BY <1>1, <1>6 DEF Readings
  <2>2. ReadingOK'
    BY <1>1, <1>2, <1>6, <2>1 DEF ReadingOK, Readings, Found
  <2>3. reply # Nil => ReplyOK'
    BY <1>6 DEF IInv, ReplyOK
  <2> QED
    BY <1>2, <1>6, <2>2, <2>3 DEF IInv
<1>7. ASSUME NEW body, NEW corpus, NEW release, Answer(body, corpus, release),
             body # Nil /\ reading.question.kind = "asOf"
               => corpus \in Corpora /\ release \in Whole("releases"),
             reading.settled => body = FixtureBody(reading.question)
      PROVE  IInv'
  BY <1>1, <1>2, <1>7 DEF Answer, IInv, ReplyOK, Readings
<1>8. CASE ReadRelease
  <2>1. reading.question.kind # "retractions"
    BY <1>1, <1>8 DEF ReadRelease, ReadingOK
  <2>2. CASE ReleasesNamed(stored, id) = {}
    <3>1. reading.settled => FixtureBody(reading.question) = Nil
      BY <1>5, <2>1, <2>2 DEF FixtureBody
    <3>2. Answer(Nil, NothingRead, Nil)
      BY <1>8, <2>2 DEF ReadRelease
    <3> QED
      BY <1>7, <3>1, <3>2
  <2>3. CASE ReleasesNamed(stored, id) # {}
    BY <1>6, <1>8, <2>3 DEF ReadRelease, GoTo
  <2> QED
    BY <2>2, <2>3
<1>9. CASE ListCorpora
  <2>0. reading.question.kind = "retractions" \/ ReleasesNamed(stored, id) # {}
    BY <1>1, <1>9 DEF ListCorpora, ReadingOK, Found
  <2>1. CASE Table("corpora") = {}
    <3>1. ~reading.settled
      BY <1>4, <2>1 DEF WellFormed, Whole
    <3>2. Answer({}, NothingRead, Nil)
      BY <1>9, <2>1 DEF ListCorpora
    <3>3. reading.question.kind # "asOf"
      BY <1>1, <1>9 DEF ListCorpora, ReadingOK
    <3> QED
      BY <1>7, <3>1, <3>2, <3>3
  <2>2. CASE Table("corpora") # {}
    BY <1>6, <1>9, <2>0, <2>2 DEF ListCorpora, GoTo
  <2> QED
    BY <2>1, <2>2
<1>10. CASE ReadCorpus
  <2>0. reading.question.kind = "retractions" \/ ReleasesNamed(stored, id) # {}
    BY <1>1, <1>10 DEF ReadCorpus, ReadingOK, Found
  <2>1. CASE Table("corpora") = {}
    <3>1. ~reading.settled
      BY <1>4, <2>1 DEF WellFormed, Whole
    <3>2. Answer(Nil, NothingRead, Nil)
      BY <1>10, <2>1 DEF ReadCorpus
    <3> QED
      BY <1>7, <3>1, <3>2
  <2>2. CASE Table("corpora") # {}
    BY <1>6, <1>10, <2>0, <2>2 DEF ReadCorpus, GoTo
  <2> QED
    BY <2>1, <2>2
<1>11. CASE ReadReleases
  <2> DEFINE release == IF \/ reading.question.kind = "retractions"
                           \/ ReleasesNamed(stored, id) = {}
                        THEN Nil ELSE CHOOSE r \in ReleasesNamed(stored, id) : TRUE
  <2>1. /\ reading' = [reading EXCEPT !.step = "records", !.release = release]
        /\ UNCHANGED reply
    BY <1>11 DEF ReadReleases
  <2>2. release \in Whole("releases") \cup {Nil}
    BY <1>3
  <2>3. reading' \in Readings
    BY <1>1, <2>1, <2>2 DEF Readings
  <2>4. reading.question.kind = "retractions" \/ ReleasesNamed(stored, id) # {}
    BY <1>1, <1>11 DEF ReadReleases, ReadingOK, Found
  <2>5. Found'
    BY <1>1, <1>2, <1>5, <2>1, <2>4 DEF Readings, ReadingOK, Found
  <2>6. ReadingOK'
    BY <1>1, <1>2, <1>11, <2>1, <2>3, <2>5 DEF ReadReleases, Readings, ReadingOK
  <2> QED
    BY <1>2, <2>1, <2>6 DEF IInv, ReplyOK
<1>12. CASE ReadRecords
  <2>1. /\ reading' = [reading EXCEPT !.step = "retractions",
                                      !.corpus.records = Table("records")]
        /\ UNCHANGED reply
    BY <1>12 DEF ReadRecords
  <2>2. reading' \in Readings
    BY <1>1, <1>3, <2>1 DEF Readings, Corpora
  <2>3. Found'
    BY <1>1, <1>2, <1>12, <2>1 DEF ReadRecords, Readings, ReadingOK, Found
  <2>4. reading'.corpus.records = Table("records")
    BY <1>1, <2>1 DEF Readings, Corpora
  <2>5. ReadingOK'
    BY <1>1, <1>2, <1>4, <1>12, <2>1, <2>2, <2>3, <2>4
       DEF ReadRecords, Readings, ReadingOK
  <2> QED
    BY <1>2, <2>1, <2>5 DEF IInv, ReplyOK
<1>13. CASE ReadRetractions
  <2> DEFINE corpus == [reading.corpus EXCEPT !.retractions = Table("retractions")]
             question == reading.question
  <2>1. corpus \in Corpora /\ corpus.records = reading.corpus.records
    BY <1>1, <1>3 DEF Readings, Corpora
  <2>2. reading.settled => corpus = Fixture
    <3>1. SUFFICES ASSUME reading.settled PROVE corpus = Fixture
      OBVIOUS
    <3>2. corpus = [records |-> corpus.records, retractions |-> Table("retractions")]
      BY <1>1, <2>1 DEF Readings, Corpora
    <3>3. corpus.records = Whole("records")
      BY <1>1, <1>13, <2>1, <3>1 DEF ReadRetractions, ReadingOK
    <3>4. Table("retractions") = Whole("retractions")
      BY <1>4, <3>1
    <3> QED
      BY <3>2, <3>3, <3>4 DEF Fixture, Whole
  <2>3. CASE question.kind = "retractions"
    <3>1. Answer(Body(corpus, Nil, question), corpus, Nil)
      BY <1>13, <2>3 DEF ReadRetractions
    <3>2. reading.settled => Body(corpus, Nil, question) = FixtureBody(question)
      BY <2>2, <2>3 DEF FixtureBody
    <3> QED
      BY <1>7, <2>3, <3>1, <3>2
  <2>4. ReleasesNamed(stored, id) # {} \/ question.kind = "retractions"
    BY <1>1, <1>13 DEF ReadRetractions, ReadingOK, Found
  <2>5. reading.settled /\ question.kind # "retractions"
          => /\ ReleasesNamed(1 .. Len(Rows), id) # {}
             /\ reading.release = CHOOSE r \in ReleasesNamed(1 .. Len(Rows), id) : TRUE
    BY <1>1, <1>5, <1>13, <2>4 DEF ReadRetractions, ReadingOK, Found
  <2>6. CASE question.kind # "retractions" /\ reading.release = Nil
    <3>1. ~reading.settled
      <4>1. \A r \in ReleasesNamed(1 .. Len(Rows), id) : r # Nil
        BY DEF WellFormed, ReleasesNamed
      <4> QED
        BY <2>5, <2>6, <4>1
    <3>2. Answer(Nil, NothingRead, Nil)
      BY <1>13, <2>6 DEF ReadRetractions
    <3> QED
      BY <1>7, <3>1, <3>2
  <2>7. CASE question.kind # "retractions" /\ reading.release # Nil /\ reading.round = 1
    <3>1. /\ reading' = [reading EXCEPT !.round = 2, !.step = "release",
                                        !.corpus = NothingRead]
          /\ UNCHANGED reply
      BY <1>13, <2>7 DEF ReadRetractions
    <3>2. reading' \in Readings
      BY <1>1, <3>1 DEF Readings, Corpora, NothingRead
    <3>3. ReadingOK'
      BY <1>1, <1>2, <2>4, <2>7, <3>1, <3>2 DEF Readings, ReadingOK, Found
    <3> QED
      BY <1>2, <3>1, <3>3 DEF IInv, ReplyOK
  <2>8. CASE question.kind # "retractions" /\ reading.release # Nil /\ reading.round = 2
    <3>1. Answer(Body(corpus, reading.release, question), corpus, reading.release)
      BY <1>13, <2>8 DEF ReadRetractions
    <3>2. reading.release \in Whole("releases")
      BY <1>1, <2>8 DEF Readings
    <3>3. reading.settled
            => Body(corpus, reading.release, question) = FixtureBody(question)
      BY <2>2, <2>5, <2>8 DEF FixtureBody
    <3> QED
      BY <1>7, <2>1, <3>1, <3>2, <3>3
  <2> QED
    BY <1>1, <2>3, <2>6, <2>7, <2>8 DEF Readings
<1> QED
  BY <1>8, <1>9, <1>10, <1>11, <1>12, <1>13 DEF Read

-----------------------------------------------------------------------------
\* The invariant holds throughout.
LEMMA FeedInvariant ==
  ASSUME WellFormed
  PROVE  FSpec => []IInv
<1>1. FInit => IInv
  <2> SUFFICES ASSUME FInit PROVE IInv
    OBVIOUS
  <2>1. stored = {} /\ completed = FALSE /\ reading = Nil /\ reply = Nil
    BY DEF FInit
  <2>2. seeding \in [Seeders -> 0 .. Len(Rows) + 1] /\ \A s \in Seeders : seeding[s] = 0
    <3>1. 0 \in 0 .. Len(Rows) + 1
      BY DEF WellFormed
    <3> QED
      BY <3>1 DEF FInit
  <2>3. \A s \in Seeders, i \in 1 .. Len(Rows) : ~(i < seeding[s])
    BY <2>2 DEF WellFormed
  <2> QED
    BY <2>1, <2>2, <2>3 DEF IInv, Seeded
<1>2. IInv /\ [FNext]_fvars => IInv'
  <2> SUFFICES ASSUME IInv, [FNext]_fvars PROVE IInv'
    OBVIOUS
  <2>1. ASSUME NEW s \in Seeders,
               StartSeed(s) \/ InsertRow(s) \/ EndSeed(s) \/ StopSeed(s)
        PROVE  IInv'
    BY <2>1, SeedKeeps
  <2>2. ASSUME NEW question \in Questions, Ask(question) PROVE IInv'
    BY <2>2, AskKeeps
  <2>3. CASE Read
    BY <2>3, ReadKeeps
  <2>4. CASE UNCHANGED fvars
    BY <2>4 DEF fvars, IInv, Seeded, ReadingOK, Found, ReplyOK
  <2> QED
    BY <2>1, <2>2, <2>3, <2>4 DEF FNext
<1> QED
  BY <1>1, <1>2, PTL DEF FSpec

\* Every answer as of a knowledge time is decided by what was known then, for any
\* fixture, also when a running seed tears the rows a request has read.
THEOREM FeedLooksNoFurther ==
  ASSUME WellFormed
  PROVE  FSpec => []AnswersLookNoFurther
<1>1. IInv => AnswersLookNoFurther
  <2> SUFFICES ASSUME IInv, Answered, reply.question.kind = "asOf"
               PROVE  LooksNoFurther(reply.corpus, reply.release, reply.question.query)
    BY DEF AnswersLookNoFurther
  <2>1. /\ reply.corpus \in Corpora /\ reply.release \in Whole("releases")
        /\ reply.question \in Questions
    BY DEF IInv, ReplyOK, Answered
  <2>2. DatedCorpus(reply.corpus)
    BY <2>1 DEF WellFormed, DatedCorpus, Corpora, Whole
  <2>3. Dated(reply.release, reply.question.query)
    BY <2>1 DEF WellFormed, Dated, Whole
  <2> QED
    BY <2>2, <2>3, NoLookAhead
<1> QED
  BY <1>1, FeedInvariant, PTL

\* Whatever seeds were killed before or run again meanwhile, a request that
\* begins after one of them succeeded is answered as the fixture answers it, and
\* no request loses the release it has found.
THEOREM SeededFeedIsTheFixture ==
  ASSUME WellFormed
  PROVE  FSpec => []SettledAnswersAreTheFixtures
<1>1. IInv => SettledAnswersAreTheFixtures
  <2> SUFFICES ASSUME IInv PROVE SettledAnswersAreTheFixtures
    OBVIOUS
  <2>1. ASSUME reply # Nil, reply.settled
        PROVE  reply.body = FixtureBody(reply.question)
    BY <2>1 DEF IInv, ReplyOK
  <2>2. ASSUME reading # Nil, reading.round = 2
        PROVE  ReleasesNamed(stored, reading.question.release) # {}
    BY <2>2 DEF IInv, ReadingOK, Found
  <2> QED
    BY <2>1, <2>2 DEF SettledAnswersAreTheFixtures
<1> QED
  BY <1>1, FeedInvariant, PTL

=============================================================================
