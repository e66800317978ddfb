------------------------- MODULE SpatialInquiryPage -------------------------
(***************************************************************************)
(* The page that shows two saved analyses and their comparison,            *)
(* components/spatial/SpatialInquiry.tsx.  The ids in the form are applied *)
(* together; every application aborts the requests in flight and asks      *)
(* again.  What is shown is derived from the last answers and from what is *)
(* applied.                                                                *)
(*                                                                         *)
(* React runs the effects of a change before the next event, so an action  *)
(* is an event together with its effects.  The server is SpatialAnalyses:  *)
(* an id has no analysis, and then one that never changes.                 *)
(***************************************************************************)
EXTENDS Naturals

CONSTANTS
  SavedIds,         \* request ids the user may type
  None

VARIABLES
  savedAnalyses,    \* the server: ids that have an analysis
  applied,          \* the baseline and the scenario that are asked for
  answers,          \* the last answer kept for the baseline and the scenario, with its id
  comparedAnswer,   \* the last comparison kept, with its key
  view,             \* "baseline" or "scenario"
  requests          \* requests in flight

inquiryVars == <<savedAnalyses, applied, answers, comparedAnswer, view, requests>>

Sides == {"baseline", "scenario"}

-----------------------------------------------------------------------------
\* What a side shows, given the answers and the ids applied.
Shown(side, kept, ids) ==
  IF kept[side] # None /\ kept[side].id = ids[side] THEN kept[side].result ELSE "LOADING"

IsReady(result) == result \notin {"LOADING", "FAILED"}

\* The key of the comparison to ask for: both ids and both digests.
CompareKey(kept, ids) ==
  IF \A side \in Sides : IsReady(Shown(side, kept, ids))
  THEN [ids |-> ids, digests |-> [side \in Sides |-> Shown(side, kept, ids)]]
  ELSE None

Comparison(state, of) == [state |-> state, of |-> of]

\* Mutant: the last comparison is shown as long as there is something to compare.
ComparedLast ==
  IF CompareKey(answers, applied) = None THEN Comparison("IDLE", None)
  ELSE IF comparedAnswer # None THEN comparedAnswer.result ELSE Comparison("LOADING", None)

Compared ==
  LET key == CompareKey(answers, applied) IN
  IF key = None THEN Comparison("IDLE", None)
  ELSE IF comparedAnswer # None /\ comparedAnswer.key = key THEN comparedAnswer.result
  ELSE Comparison("LOADING", None)

\* The side that is drawn: a scenario that is not there is not.
Drawn ==
  IF view = "scenario" /\ IsReady(Shown("scenario", answers, applied)) THEN "scenario" ELSE "baseline"

\* The requests of the inspecting effect, which aborts those before.
Inspections(ids) == {[what |-> side, key |-> ids[side], reading |-> FALSE] : side \in Sides}

\* The requests of the comparing effect: a request that is aborted while its
\* answer is being read may still be answered.
Comparisons(key) ==
  {r \in requests : r.what = "compare" /\ r.reading}
    \cup {[what |-> "compare", key |-> k, reading |-> FALSE] : k \in {key} \ {None}}

-----------------------------------------------------------------------------
\* apply(): both effects run again.
Apply ==
  /\ \E ids \in [Sides -> SavedIds] :
       /\ applied' = ids
       /\ requests' = Inspections(ids) \cup Comparisons(CompareKey(answers, ids))
  /\ UNCHANGED <<savedAnalyses, answers, comparedAnswer, view>>

\* An answer, or a failure, to an inspection; the comparing effect runs again
\* when its key changes.
Inspected(r) ==
  /\ r \in requests /\ r.what \in Sides
  /\ \E result \in {"FAILED"} \cup ({r.key} \cap savedAnalyses) :
       LET kept == [answers EXCEPT ![r.what] = [id |-> r.key, result |-> result]]
           key == CompareKey(kept, applied) IN
       /\ answers' = kept
       /\ requests' = IF key = CompareKey(answers, applied) THEN requests \ {r}
                      ELSE {q \in requests \ {r} : q.what \in Sides} \cup Comparisons(key)
  /\ UNCHANGED <<savedAnalyses, applied, comparedAnswer, view>>

\* The head of the answer to a comparison.
CompareResponds(r) ==
  /\ r \in requests /\ r.what = "compare" /\ ~ r.reading
  /\ requests' = (requests \ {r}) \cup {[r EXCEPT !.reading = TRUE]}
  /\ UNCHANGED <<savedAnalyses, applied, answers, comparedAnswer, view>>

\* Its body; or it fails, which is kept unless it was aborted.
CompareAnswered(r) ==
  /\ r \in requests /\ r.what = "compare"
  /\ requests' = requests \ {r}
  /\ \/ \E result \in {Comparison("FAILED", None)}
                     \cup (IF r.reading THEN {Comparison("READY", r.key.digests)} ELSE {}) :
          comparedAnswer' = [key |-> r.key, result |-> result]
     \/ r.key # CompareKey(answers, applied) /\ UNCHANGED comparedAnswer
  /\ UNCHANGED <<savedAnalyses, applied, answers, view>>

\* The scenario can be viewed only while it is there.
SetView(side) ==
  /\ view # side
  /\ side = "scenario" => IsReady(Shown("scenario", answers, applied))
  /\ view' = side
  /\ UNCHANGED <<savedAnalyses, applied, answers, comparedAnswer, requests>>

\* Somebody saves an analysis.
SaveAnalysis(i) ==
  /\ i \notin savedAnalyses
  /\ savedAnalyses' = savedAnalyses \cup {i}
  /\ UNCHANGED <<applied, answers, comparedAnswer, view, requests>>

Init ==
  /\ savedAnalyses \in SUBSET SavedIds
  /\ applied \in [Sides -> SavedIds]
  /\ answers = [side \in Sides |-> None]
  /\ comparedAnswer = None
  /\ view = "baseline"
  /\ requests = Inspections(applied)

Next ==
  \/ Apply
  \/ \E r \in requests : Inspected(r) \/ CompareResponds(r) \/ CompareAnswered(r)
  \/ \E side \in Sides : SetView(side)
  \/ \E i \in SavedIds : SaveAnalysis(i)

Spec == Init /\ [][Next]_inquiryVars

-----------------------------------------------------------------------------
(* Properties.                                                             *)

\* "a result for another id is never shown as this one's" (a comment of
\* SpatialInquiry.tsx): in whatever order answers arrive, an analysis that is
\* shown is the one applied, and a comparison is of the two analyses shown.
ShowsWhatIsApplied ==
  /\ LET drawn == Shown(Drawn, answers, applied) IN IsReady(drawn) => drawn = applied[Drawn]
  /\ Compared.state = "READY" => Compared.of = applied
=============================================================================
