------------------------- MODULE ObservationReplay -------------------------
(***************************************************************************)
(* Where a recorded point is placed, judged twice: compileReplay of        *)
(* observation/replay.ts writes the row of the report, and frameChain of   *)
(* domain/observationReplay.ts, which does not share its code, tells the   *)
(* reader of the page which link of the chain holds.  Both align stamps of *)
(* different clocks on a timeline and look at half-open intervals.         *)
(*                                                                         *)
(* A manifest is what the two read for one observation: the clocks, the    *)
(* stamp, and the point with its calibration and its pose.  Transforms,    *)
(* frames and identifiers are left out; nanoseconds are small integers.    *)
(***************************************************************************)
EXTENDS Integers

CONSTANTS
  None,
  Timelines,
  MaxTime         \* instants are 0 .. MaxTime, and offsets of clocks 0 and 1

VARIABLES
  manifest,       \* the manifest; does not change
  row             \* the row of its observation, once it has been compiled

rvars == <<manifest, row>>

-----------------------------------------------------------------------------
\* Manifests that parseReplayManifest accepts: an interval is never empty.
Instants == 0 .. MaxTime

Windows == { w \in [timeline : Timelines, from : Instants, until : 1 .. MaxTime + 1] :
               w.from < w.until }

Alignments == {None} \cup
  { [timeline |-> w.timeline, from |-> w.from, until |-> w.until, offset |-> o] :
      w \in Windows, o \in 0 .. 1 }

Stamps == [clock : 1 .. 2, time : Instants]

Points == [atReference : BOOLEAN, calibration : Windows, pose : Stamps]

Manifests ==
  [ clocks : [1 .. 2 -> Alignments], stamp : [clock : {1}, time : Instants],
    meant : BOOLEAN, point : Points \cup {None} ]

-----------------------------------------------------------------------------
(***************************************************************************)
(* The row of the report.                                                  *)
(***************************************************************************)

\* A stamp on the timeline its clock is aligned with, inside the alignment.
Align(m, stamp) ==
  LET a == m.clocks[stamp.clock]
  IN IF a = None \/ stamp.time < a.from \/ stamp.time >= a.until THEN None
     ELSE [timeline |-> a.timeline, time |-> stamp.time + a.offset]

Unaligned(time, poseTime) ==
  poseTime = None \/ time = None \/ poseTime.timeline # time.timeline

\* What keeps a supplied point from being placed, besides the clocks.
PointBlockers(m, time, poseTime) ==
  { b \in { "POINT_TIME_UNRESOLVED", "TIMESTAMP_MEANING_UNRESOLVED",
            "CALIBRATION_NOT_VALID_AT_OBSERVATION",
            "POSE_CLOCK_ALIGNMENT_UNAVAILABLE", "POSE_TIME_MISMATCH" } :
      LET c == m.point.calibration
      IN CASE b = "POINT_TIME_UNRESOLVED" -> ~m.point.atReference
           [] b = "TIMESTAMP_MEANING_UNRESOLVED" -> ~m.meant
           [] b = "CALIBRATION_NOT_VALID_AT_OBSERVATION" ->
                \/ time = None \/ c.timeline # time.timeline
                \/ time.time < c.from \/ time.time >= c.until
           [] b = "POSE_CLOCK_ALIGNMENT_UNAVAILABLE" -> Unaligned(time, poseTime)
           [] b = "POSE_TIME_MISMATCH" ->
                ~Unaligned(time, poseTime) /\ poseTime.time # time.time }

CompileRow(m) ==
  LET time == Align(m, m.stamp)
      poseTime == IF m.point = None THEN None ELSE Align(m, m.point.pose)
      blockers == (IF time = None THEN {"CLOCK_ALIGNMENT_UNAVAILABLE"} ELSE {})
                  \cup (IF m.point = None THEN {"NO_POINT_ESTIMATE"}
                        ELSE PointBlockers(m, time, poseTime))
  IN [ blockers |-> blockers, alignedTime |-> time,
       poseDelta |-> IF m.point = None \/ Unaligned(time, poseTime) THEN None
                     ELSE poseTime.time - time.time,
       state |-> IF blockers = {} THEN "PLACED_ESTIMATE" ELSE "UNPLACED" ]

Compile ==
  /\ row = None
  /\ row' = CompileRow(manifest)
  /\ UNCHANGED manifest

-----------------------------------------------------------------------------
(***************************************************************************)
(* The chain of the page.                                                  *)
(***************************************************************************)

\* Mutant: an interval that includes its end.
InWindowClosed(time, w) == time >= w.from /\ time <= w.until

InWindow(time, w) == time >= w.from /\ time < w.until

Aligned(m, stamp) ==
  LET a == m.clocks[stamp.clock]
  IN IF a = None \/ ~InWindow(stamp.time, a) THEN None
     ELSE [timeline |-> a.timeline, time |-> stamp.time + a.offset]

\* The state of the two links that can fail.
CalibrationState(m) ==
  LET time == Aligned(m, m.stamp)
      c == m.point.calibration
  IN IF m.point = None \/ time = None THEN "UNAVAILABLE"
     ELSE IF c.timeline = time.timeline /\ InWindow(time.time, c)
          THEN "VALID" ELSE "INVALID"

PoseState(m) ==
  LET time == Aligned(m, m.stamp)
      poseTime == Aligned(m, m.point.pose)
      comparable == time # None /\ poseTime # None /\ poseTime.timeline = time.timeline
  IN IF m.point = None \/ ~comparable THEN "UNAVAILABLE"
     ELSE IF poseTime.time - time.time = 0 THEN "VALID" ELSE "INVALID"

\* The badges of an observation.
Distinctions(m, r) ==
  IF m.point = None THEN {"NO_ESTIMATE"}
  ELSE { "SUPPLIED_ESTIMATE",
         IF r.state = "PLACED_ESTIMATE" THEN "PLACED_ESTIMATE"
         ELSE "UNRESOLVED_PLACEMENT" }

-----------------------------------------------------------------------------
Init == manifest \in Manifests /\ row = None

Next == Compile

Spec == Init /\ [][Next]_rvars

-----------------------------------------------------------------------------
(* What the proofs assume of the constants.                                *)

ReplayStamps == [timeline : Timelines, time : Int]

\* None is no window, point, alignment, stamp or number.
ReplayAssumption ==
  /\ MaxTime \in Nat
  /\ None \notin Windows \cup Points \cup ReplayStamps \cup Int
  /\ None \notin [timeline : Timelines, from : Instants, until : 1 .. MaxTime + 1, offset : 0 .. 1]

-----------------------------------------------------------------------------
\* The page and the report agree: a link is drawn as valid, invalid or not
\* available as the blockers of the row say, and a point is placed, with the
\* badge of a placed one, only when both links hold at its own nanosecond.
ChainAgreesWithRow ==
  row # None /\ manifest.point # None =>
    /\ CalibrationState(manifest) = "VALID"
         <=> "CALIBRATION_NOT_VALID_AT_OBSERVATION" \notin row.blockers
    /\ CalibrationState(manifest) = "UNAVAILABLE"
         <=> "CLOCK_ALIGNMENT_UNAVAILABLE" \in row.blockers
    /\ PoseState(manifest) = "UNAVAILABLE"
         <=> "POSE_CLOCK_ALIGNMENT_UNAVAILABLE" \in row.blockers
    /\ PoseState(manifest) = "INVALID" <=> "POSE_TIME_MISMATCH" \in row.blockers
    /\ PoseState(manifest) = "VALID" <=> row.poseDelta = 0
    /\ "PLACED_ESTIMATE" \in Distinctions(manifest, row)
         <=> /\ CalibrationState(manifest) = "VALID" /\ PoseState(manifest) = "VALID"
             /\ manifest.point.atReference /\ manifest.meant
=============================================================================
