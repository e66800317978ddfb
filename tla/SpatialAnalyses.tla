-------------------------- MODULE SpatialAnalyses --------------------------
(***************************************************************************)
(* Saved analyses of a floor, spatial/service.ts.  A request is reserved   *)
(* under its identity by a create-only file, analysed by whoever made that *)
(* file, and closed by a receipt, another immutable file.  To inspect is   *)
(* to check the receipt against its reservation and against the sources,   *)
(* as of the time the analysis was started; nothing is analysed again.     *)
(*                                                                         *)
(* What an analysis computes is SpatialGraph.  The two files are read one  *)
(* after the other: a reading that falls between their publications is     *)
(* refused, which any reading may be here.  Digests, media types and sizes *)
(* are left out.                                                           *)
(***************************************************************************)
EXTENDS Naturals

CONSTANTS
  SpatialTasks,     \* calls of submit() that may run at the same time
  Analyses,         \* requests: an id, the sources of the layout as pairs of an
                    \* acquisition and a content, and whether the root and the
                    \* scenario are of that layout
  Layers,           \* acquisitions
  LayerPolicies,    \* what a source may be retained as: its content, whether DERIVE is
                    \* allowed for the purpose, and the end of the policy's window
  SpatialTimes,     \* readings of the clock, which may be set back
  None

VARIABLES
  layers,           \* the retained source of each acquisition, or None
  reserved,         \* the reservation of each identity, or None
  spatialReceipts,  \* the receipt of each identity, or None
  spatialPc,        \* where each call is
  submitted,        \* its request, or None
  startedAt,        \* the time it has started at
  analysed,         \* history: how often an identity was analysed
  spatialTold       \* history: the requests and receipts answered

spatialFiles == <<layers, reserved, spatialReceipts>>
spatialLocals == <<spatialPc, submitted, startedAt>>
spatialVars == <<spatialFiles, spatialLocals, analysed, spatialTold>>

AnalysisIds == {a.id : a \in Analyses}

-----------------------------------------------------------------------------
At(t, place) == spatialPc[t] = place
Goto(t, place) == spatialPc' = [spatialPc EXCEPT ![t] = place]

\* source(): one reference, as of a time.
SourceOf(ref, at) ==
  LET s == layers[ref.acquisition] IN
  s # None /\ s.policy.content = ref.content /\ at >= s.storedAt
           /\ s.policy.derive /\ at < s.policy.effective

Inputs(a, at) == \A ref \in a.sources : SourceOf(ref, at)

\* The decisions of inputs(), which quote the policies.
Decisions(a) == {layers[ref.acquisition].policy : ref \in a.sources}

\* inspect(): the receipt is of its reservation and its inputs can be read.
Inspects(i) ==
  LET r == spatialReceipts[i] IN
  /\ r.request = reserved[i].request /\ r.startedAt = reserved[i].startedAt
  /\ r.completedAt >= r.startedAt
  /\ Inputs(r.request, r.startedAt)
  /\ r.decisions = Decisions(r.request)

End(t) ==
  /\ Goto(t, "idle")
  /\ submitted' = [submitted EXCEPT ![t] = None]
  /\ startedAt' = [startedAt EXCEPT ![t] = 0]

Refuse(t) == End(t) /\ UNCHANGED spatialTold

Answer(t) ==
  /\ End(t)
  /\ spatialTold' = spatialTold \cup {<<submitted[t], spatialReceipts[submitted[t].id]>>}

Proceed(t, place) == Goto(t, place) /\ UNCHANGED <<submitted, startedAt, spatialTold>>

-----------------------------------------------------------------------------
(* submit(), with inspect() first and last.                                *)
Submit(t, a) ==
  /\ At(t, "idle")
  /\ Goto(t, "inspect")
  /\ submitted' = [submitted EXCEPT ![t] = a]
  /\ UNCHANGED <<spatialFiles, startedAt, analysed, spatialTold>>

\* An identity without a reservation is new; one without a receipt is refused
\* as incomplete.
InspectFirst(t) ==
  /\ At(t, "inspect")
  /\ LET i == submitted[t].id IN
       IF reserved[i] = None THEN Proceed(t, "prepare")
       ELSE IF spatialReceipts[i] # None /\ Inspects(i) /\ spatialReceipts[i].request = submitted[t]
       THEN Answer(t)
       ELSE Refuse(t)
  /\ UNCHANGED <<spatialFiles, analysed>>

\* The time is taken; the inputs and the parameters are checked before the
\* identity is reserved.
Prepare(t) ==
  /\ At(t, "prepare")
  /\ \E now \in SpatialTimes :
       IF Inputs(submitted[t], now) /\ submitted[t].binds
       THEN /\ startedAt' = [startedAt EXCEPT ![t] = now]
            /\ Goto(t, "reserve")
            /\ UNCHANGED <<submitted, spatialTold>>
       ELSE Refuse(t)
  /\ UNCHANGED <<spatialFiles, analysed>>

\* Only the call that created the reservation goes on; an error is told as an
\* incomplete analysis, whether the file was linked or not.
Reserve(t) ==
  /\ At(t, "reserve")
  /\ LET i == submitted[t].id
         made == [reserved EXCEPT ![i] = [request |-> submitted[t], startedAt |-> startedAt[t]]] IN
       \/ reserved[i] = None /\ reserved' = made /\ Proceed(t, "analyse")
       \/ reserved' \in (IF reserved[i] = None THEN {reserved, made} ELSE {reserved}) /\ Refuse(t)
  /\ UNCHANGED <<layers, spatialReceipts, analysed>>

\* compute(): the layout is analysed.
Analyse(t) ==
  /\ At(t, "analyse")
  /\ analysed' = [analysed EXCEPT ![submitted[t].id] = @ + 1]
  /\ Proceed(t, "save")
  /\ UNCHANGED spatialFiles

\* The receipt is published; that may fail before or after its link.
SaveReceipt(t) ==
  /\ At(t, "save")
  /\ LET i == submitted[t].id IN
     \E now \in SpatialTimes :
       LET receipt == [request |-> submitted[t], startedAt |-> startedAt[t], completedAt |-> now,
                       decisions |-> Decisions(submitted[t])]
           made == [spatialReceipts EXCEPT ![i] = receipt] IN
         \/ /\ spatialReceipts[i] \in {None, receipt}
            /\ spatialReceipts' = made /\ Proceed(t, "read back")
         \/ /\ spatialReceipts' \in
                 (IF spatialReceipts[i] = None THEN {spatialReceipts, made} ELSE {spatialReceipts})
            /\ Refuse(t)
  /\ UNCHANGED <<layers, reserved, analysed>>

ReadBack(t) ==
  /\ At(t, "read back")
  /\ IF Inspects(submitted[t].id) THEN Answer(t) ELSE Refuse(t)
  /\ UNCHANGED <<spatialFiles, analysed>>

\* Reading a file fails, or the server is killed.
Fail(t) ==
  /\ ~ At(t, "idle")
  /\ Refuse(t)
  /\ UNCHANGED <<spatialFiles, analysed>>

\* The evidence rail retains a source, once.
RetainLayer(l) ==
  /\ layers[l] = None
  /\ \E p \in LayerPolicies, now \in SpatialTimes :
       layers' = [layers EXCEPT ![l] = [policy |-> p, storedAt |-> now]]
  /\ UNCHANGED <<reserved, spatialReceipts, spatialLocals, analysed, spatialTold>>

-----------------------------------------------------------------------------
Init ==
  /\ layers = [l \in Layers |-> None]
  /\ reserved = [i \in AnalysisIds |-> None]
  /\ spatialReceipts = [i \in AnalysisIds |-> None]
  /\ spatialPc = [t \in SpatialTasks |-> "idle"]
  /\ submitted = [t \in SpatialTasks |-> None]
  /\ startedAt = [t \in SpatialTasks |-> 0]
  /\ analysed = [i \in AnalysisIds |-> 0]
  /\ spatialTold = {}

Next ==
  \/ \E t \in SpatialTasks :
       \/ \E a \in Analyses : Submit(t, a)
       \/ InspectFirst(t) \/ Prepare(t) \/ Reserve(t) \/ Analyse(t)
       \/ SaveReceipt(t) \/ ReadBack(t) \/ Fail(t)
  \/ \E l \in Layers : RetainLayer(l)

Spec == Init /\ [][Next]_spatialVars

-----------------------------------------------------------------------------
(* What the proofs assume of the constants, and what may be stored.        *)

KeptLayers == [policy : LayerPolicies, storedAt : SpatialTimes]
SpatialReservations == [request : Analyses, startedAt : SpatialTimes]
SpatialReceipts ==
  [request : Analyses, startedAt : SpatialTimes, completedAt : SpatialTimes,
   decisions : SUBSET LayerPolicies]

\* Layouts refer to acquisitions, which may never be retained.
AnalysisAssumption ==
  /\ SpatialTimes \subseteq Nat
  /\ \A a \in Analyses : \A ref \in a.sources : ref.acquisition \in Layers
  /\ None \notin Analyses \cup KeptLayers \cup SpatialReservations \cup SpatialReceipts

-----------------------------------------------------------------------------
(* Properties.                                                             *)

\* "An interrupted reserved identity returns 409 and cannot silently rerun"
\* (docs/spatial/inquiry-v1.md): an identity is bound to one request, analysed
\* at most once, and has at most one receipt, which is all that is told.
Contract == INSTANCE RunsOnce WITH
  Ids <- AnalysisIds, Commands <- Analyses,
  bound <- [i \in AnalysisIds |-> IF reserved[i] = None THEN None ELSE reserved[i].request],
  starts <- analysed, outcome <- spatialReceipts, told <- spatialTold

AnalysedOnce == Contract!Spec

\* Every receipt passes every later inspection, whatever is retained since;
\* but for one whose analysis the clock was set back in: nothing checks that
\* before the receipt is published, and inspect() refuses it from then on.
ReceiptsInspect ==
  \A i \in AnalysisIds :
    spatialReceipts[i] # None =>
      Inspects(i) \/ spatialReceipts[i].completedAt < spatialReceipts[i].startedAt
=============================================================================
