----------------------------- MODULE EarthTwin -----------------------------
(***************************************************************************)
(* The globe page, components/earth/EarthTwin.tsx: an engine that is       *)
(* loaded in the background and owned by the session that asked for it, a  *)
(* selected record whose time drives the engine's clock, and the positions *)
(* of records, asked for one at a time and drawn.                          *)
(*                                                                         *)
(* React runs the effects of a change before the next event, so an action  *)
(* is an event together with its effects.  The camera, links to a view,    *)
(* the sun and what a position looks like are left out.                    *)
(***************************************************************************)
EXTENDS Naturals, Sequences, SequencesExt, FiniteSets

CONSTANTS
  RecordList,       \* the records of the release, a sequence; a record's time is its own
  Placeable,        \* the records the projection service has positions for
  MaxSessions,      \* bound: sessions of the page
  None

VARIABLES
  twin,             \* the current session; the page is gone at MaxSessions + 1
  loading,          \* engine loads, by session and what they wait for
  viewers,          \* live viewers: their session, the record whose time they show, what is drawn
  engine,           \* the session of the viewer in the engine ref, or None
  runtime,          \* the last status stored: its session and state
  selectedRecord,
  twinAnswer,       \* the last answer of a projection: record and outcome, or None
  asking,           \* the record asked about, or None
  placed,           \* records placed
  placing           \* placeAll(): the records done and those placed so far, or None

twinVars == <<twin, loading, viewers, engine, runtime, selectedRecord, twinAnswer, asking, placed, placing>>
engineVars == <<twin, loading, viewers, engine, runtime>>
projectionVars == <<selectedRecord, twinAnswer, asking, placed, placing>>

Records == ToSet(RecordList)
Mounted == twin <= MaxSessions
Cancelled(l) == l.session # twin

\* The status the page derives: a result of another session is none.
Status == IF runtime.session = twin THEN runtime.state ELSE "LOADING"

-----------------------------------------------------------------------------
(* The engine.                                                             *)

\* The page is given other assets, or left: its session's effect is cleaned up
\* and the next one's started.
NextSession ==
  /\ Mounted
  /\ twin' = twin + 1
  /\ loading' = loading \cup {[session |-> s, waits |-> "engine"] : s \in {twin + 1} \cap (1 .. MaxSessions)}
  /\ viewers' = {v \in viewers : v.session # twin}
  /\ engine' = IF engine = twin THEN None ELSE engine
  /\ asking' = IF twin' > MaxSessions THEN None ELSE asking
  /\ UNCHANGED <<runtime, selectedRecord, twinAnswer, placed, placing>>

EngineLoaded(l) ==
  /\ l \in loading /\ l.waits = "engine"
  /\ loading' = (loading \ {l})
                  \cup (IF Cancelled(l) THEN {} ELSE {[l EXCEPT !.waits = "imagery"]})
  /\ UNCHANGED <<twin, viewers, engine, runtime, projectionVars>>

Viewer(l) == [session |-> l.session, time |-> selectedRecord, drawn |-> placed]

\* The viewer is made, becomes the engine, and is ready with the time of the
\* record that is selected by now.
ImageryLoaded(l) ==
  /\ l \in loading /\ l.waits = "imagery"
  /\ loading' = loading \ {l}
  /\ IF Cancelled(l) THEN UNCHANGED <<viewers, engine, runtime>>
     ELSE /\ viewers' = viewers \cup {Viewer(l)}
          /\ engine' = l.session
          /\ runtime' = [session |-> l.session, state |-> "READY"]
  /\ UNCHANGED <<twin, projectionVars>>

\* Anything on the way fails; a viewer already made is destroyed.
LoadFails(l) ==
  /\ l \in loading
  /\ loading' = loading \ {l}
  /\ runtime' = IF Cancelled(l) THEN runtime ELSE [session |-> l.session, state |-> "UNAVAILABLE"]
  /\ UNCHANGED <<twin, viewers, engine, projectionVars>>

\* The effects on the live viewer: the time, and everything placed is drawn.
Redrawn(time, points) ==
  viewers' = IF Status # "READY" THEN viewers
             ELSE {[v EXCEPT !.time = IF v.session = engine THEN time ELSE @,
                             !.drawn = IF v.session = engine THEN points ELSE @] : v \in viewers}

-----------------------------------------------------------------------------
(* Records and their positions.                                            *)

\* The request for the record before is aborted.
SelectRecord(r) ==
  /\ Mounted /\ r # selectedRecord
  /\ selectedRecord' = r
  /\ asking' = r
  /\ Redrawn(r, placed)
  /\ UNCHANGED <<twin, loading, engine, runtime, twinAnswer, placed, placing>>

\* projectionOutcome(): a record without positions is unavailable; any request
\* may be refused.
Outcomes(r) == {"REFUSED", IF r \in Placeable THEN "READY" ELSE "UNAVAILABLE"}

\* An answer places the record or takes it away; a request that does not get
\* through at all leaves it.
PreviewAnswered ==
  /\ asking # None
  /\ asking' = None
  /\ \E outcome \in Outcomes(asking) :
       /\ twinAnswer' = [record |-> asking, outcome |-> outcome]
       /\ placed' \in {IF outcome = "READY" THEN placed \cup {asking} ELSE placed \ {asking}}
                       \cup (IF outcome = "REFUSED" THEN {placed} ELSE {})
  /\ Redrawn(selectedRecord, placed')
  /\ UNCHANGED <<twin, loading, engine, runtime, selectedRecord, placing>>

PlaceAll ==
  /\ Mounted /\ placing = None
  /\ placing' = [done |-> 0, found |-> {}]
  /\ UNCHANGED <<engineVars, selectedRecord, twinAnswer, asking, placed>>

\* One record after the other; a request is not aborted by anything.
PlaceNext ==
  /\ placing # None /\ placing.done < Len(RecordList)
  /\ LET r == RecordList[placing.done + 1] IN
     \E outcome \in Outcomes(r) :
       placing' = [done |-> placing.done + 1,
                   found |-> placing.found \cup (IF outcome = "READY" THEN {r} ELSE {})]
  /\ UNCHANGED <<engineVars, selectedRecord, twinAnswer, asking, placed>>

\* What was placed meanwhile is replaced.
PlaceDone ==
  /\ placing # None /\ placing.done = Len(RecordList)
  /\ placed' = placing.found
  /\ placing' = None
  /\ Redrawn(selectedRecord, placed')
  /\ UNCHANGED <<twin, loading, engine, runtime, selectedRecord, twinAnswer, asking>>

-----------------------------------------------------------------------------
Init ==
  /\ twin = 1
  /\ loading = {[session |-> 1, waits |-> "engine"]}
  /\ viewers = {}
  /\ engine = None
  /\ runtime = [session |-> 0, state |-> "LOADING"]
  /\ selectedRecord = RecordList[1]
  /\ twinAnswer = None
  /\ asking = selectedRecord
  /\ placed = {}
  /\ placing = None

Next ==
  \/ NextSession
  \/ \E l \in loading : EngineLoaded(l) \/ ImageryLoaded(l) \/ LoadFails(l)
  \/ \E r \in Records : SelectRecord(r)
  \/ PreviewAnswered \/ PlaceAll \/ PlaceNext \/ PlaceDone

Spec == Init /\ [][Next]_twinVars

-----------------------------------------------------------------------------
(* What the proofs assume of the constants.                                *)

TwinAssumption == MaxSessions \in Nat

-----------------------------------------------------------------------------
(* Properties.                                                             *)

\* "A completed result from another asset/loader session can never make this
\* session ready" (a comment of EarthTwin.tsx): however loads, replacements and
\* selections interleave, no viewer outlives its session, and a globe that is
\* ready is this session's, at the time of the selected record, with everything
\* placed drawn on it.
OneCurrentGlobe ==
  /\ \A v \in viewers : v.session = twin
  /\ Cardinality(viewers) <= 1
  /\ Mounted /\ Status = "READY" =>
       viewers = {[session |-> twin, time |-> selectedRecord, drawn |-> placed]} /\ engine = twin
=============================================================================
