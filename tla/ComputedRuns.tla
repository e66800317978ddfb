---------------------------- MODULE ComputedRuns ----------------------------
(***************************************************************************)
(* The four stores of computed runs: observation/store.ts, and in compute/ *)
(* benchmark-store.ts, clearance-store.ts and registration-access-store.ts. *)
(* A request names retained evidence; a run is computed from it and from   *)
(* the time of the request, and published as an immutable file under the   *)
(* identity of the request.  To inspect a run is to compute it again, from *)
(* the evidence as of the run's time.  Nothing is reserved: processes may  *)
(* compute at once, and the file that was linked first is the run.         *)
(*                                                                         *)
(* The stores differ in two ways.  A benchmark keeps the time it took, so  *)
(* that no two runs of it are equal, and a clearance may be read only when *)
(* its evidence may be used at that moment.  What is computed is a         *)
(* function of the evidence and is left out, as is the limit on its size.  *)
(***************************************************************************)
EXTENDS Naturals, FiniteSets

CONSTANTS
  RunTasks,         \* calls that may run at the same time
  RunRequests,      \* requests: an id, and the evidence it refers to, the manifest's
                    \* references included, as pairs of an acquisition and a content
  Acquisitions,
  Policies,         \* what evidence may be retained as: a content, the operations
                    \* allowed for the store's purpose, and the ends of the policy's
                    \* window and of the retention
  RunTimes,         \* readings of the clock, which may be set back
  None

VARIABLES
  store,            \* which of the four stores this is
  evidence,         \* the retained evidence of each acquisition, or None
  runs,             \* the published run of each id, or None
  runPc,            \* where each call is
  asked,            \* its request, or None
  run,              \* the run it computed, or None
  runTold           \* history: the requests, runs and times of the answers

runLocals == <<runPc, asked, run>>
runVars == <<store, evidence, runs, runLocals, runTold>>

Stores == {"replay", "benchmark", "clearance", "registration"}
RunIds == {r.id : r \in RunRequests}

-----------------------------------------------------------------------------
At(t, place) == runPc[t] = place
Goto(t, place) == runPc' = [runPc EXCEPT ![t] = place]

\* evaluateSourceUse; evidence is retained after its window has begun.
Allowed(policy, operation, time) == operation \in policy.operations /\ time < policy.effective

\* verify() of compute(): one reference, as of the run's time.
Verified(ref, at) ==
  LET e == evidence[ref.acquisition] IN
  /\ e # None
  /\ e.policy.content = ref.content
  /\ at >= e.storedAt
  /\ Allowed(e.policy, "DERIVE", at)

\* ... and for a clearance as of now.
UsableNow(ref, now) ==
  LET policy == evidence[ref.acquisition].policy IN
  /\ now < policy.retained
  /\ Allowed(policy, "RETRIEVE", now) /\ Allowed(policy, "DERIVE", now)

Computes(r, at, now) ==
  /\ \A ref \in r.evidence : Verified(ref, at)
  /\ store = "clearance" => at <= now /\ \A ref \in r.evidence : UsableNow(ref, now)

\* The run that compute() makes, with what it took from the evidence.
RunOf(r, at, elapsed) ==
  [request |-> r, at |-> at, elapsed |-> elapsed, used |-> {evidence[ref.acquisition] : ref \in r.evidence}]

\* inspect(): the run in the file recomputes.
Inspects(i, now) ==
  /\ Computes(runs[i].request, runs[i].at, now)
  /\ runs[i] = RunOf(runs[i].request, runs[i].at, runs[i].elapsed)

Refuse(t) ==
  /\ Goto(t, "idle")
  /\ asked' = [asked EXCEPT ![t] = None]
  /\ run' = [run EXCEPT ![t] = None]
  /\ UNCHANGED runTold

Answer(t, now) ==
  /\ Goto(t, "idle")
  /\ asked' = [asked EXCEPT ![t] = None]
  /\ run' = [run EXCEPT ![t] = None]
  /\ runTold' = runTold \cup {[request |-> asked[t], run |-> runs[asked[t].id], now |-> now]}

-----------------------------------------------------------------------------
\* run() or replay(): an existing run answers for its request; otherwise the
\* request is computed.
Ask(t, r) ==
  /\ At(t, "idle")
  /\ Goto(t, "inspect")
  /\ asked' = [asked EXCEPT ![t] = r]
  /\ UNCHANGED <<store, evidence, runs, run, runTold>>

InspectFirst(t) ==
  /\ At(t, "inspect")
  /\ \E now \in RunTimes :
       LET i == asked[t].id IN
       IF runs[i] = None THEN Goto(t, "compute") /\ UNCHANGED <<asked, run, runTold>>
       ELSE IF Inspects(i, now) /\ runs[i].request = asked[t] THEN Answer(t, now)
       ELSE Refuse(t)
  /\ UNCHANGED <<store, evidence, runs>>

\* The time of a call is given or read before it inspects, or after: either
\* is some reading of the clock.
Compute(t) ==
  /\ At(t, "compute")
  /\ \E at \in RunTimes, elapsed \in (IF store = "benchmark" THEN RunTasks ELSE {None}) :
       IF Computes(asked[t], at, at)
       THEN /\ run' = [run EXCEPT ![t] = RunOf(asked[t], at, elapsed)]
            /\ Goto(t, "publish")
            /\ UNCHANGED <<asked, runTold>>
       ELSE Refuse(t)
  /\ UNCHANGED <<store, evidence, runs>>

\* Mutant: the file is replaced, and the last publication wins.
PublishByRename(t) ==
  /\ At(t, "publish")
  /\ runs' = [runs EXCEPT ![asked[t].id] = run[t]]
  /\ Goto(t, "confirm")
  /\ UNCHANGED <<store, evidence, asked, run, runTold>>

\* publishImmutableFile: the file is linked, or an equal one is there.  It may
\* fail before or after the link.
Publish(t) ==
  /\ At(t, "publish")
  /\ LET i == asked[t].id
         made == [runs EXCEPT ![i] = run[t]] IN
       \/ /\ runs[i] \in {None, run[t]}
          /\ runs' = made
          /\ Goto(t, "confirm")
       \/ /\ runs' \in (IF runs[i] = None THEN {runs, made} ELSE {runs})
          /\ Goto(t, "winner")
  /\ UNCHANGED <<store, evidence, asked, run, runTold>>

\* After a failure the file that is there is the answer, if it is a run of
\* this request.
Winner(t) ==
  /\ At(t, "winner")
  /\ \E now \in RunTimes :
       LET i == asked[t].id IN
       IF runs[i] # None /\ Inspects(i, now) /\ runs[i].request = asked[t]
       THEN Answer(t, now) ELSE Refuse(t)
  /\ UNCHANGED <<store, evidence, runs>>

\* The run is read back; another one is not confirmed.
Confirm(t) ==
  /\ At(t, "confirm")
  /\ \E now \in RunTimes :
       IF Inspects(asked[t].id, now) /\ runs[asked[t].id] = run[t]
       THEN Answer(t, now) ELSE Refuse(t)
  /\ UNCHANGED <<store, evidence, runs>>

\* Reading a file fails, or the process is killed.
Fail(t) ==
  /\ ~ At(t, "idle")
  /\ Refuse(t)
  /\ UNCHANGED <<store, evidence, runs>>

\* The evidence rail retains what an acquisition refers to, once.
Capture(a) ==
  /\ evidence[a] = None
  /\ \E p \in Policies, now \in RunTimes :
       evidence' = [evidence EXCEPT ![a] = [policy |-> p, storedAt |-> now]]
  /\ UNCHANGED <<store, runs, runLocals, runTold>>

-----------------------------------------------------------------------------
Init ==
  /\ store \in Stores
  /\ evidence = [a \in Acquisitions |-> None]
  /\ runs = [i \in RunIds |-> None]
  /\ runPc = [t \in RunTasks |-> "idle"]
  /\ asked = [t \in RunTasks |-> None]
  /\ run = [t \in RunTasks |-> None]
  /\ runTold = {}

Next ==
  \/ \E t \in RunTasks :
       \/ \E r \in RunRequests : Ask(t, r)
       \/ InspectFirst(t) \/ Compute(t) \/ Publish(t) \/ Winner(t) \/ Confirm(t) \/ Fail(t)
  \/ \E a \in Acquisitions : Capture(a)

Spec == Init /\ [][Next]_runVars

-----------------------------------------------------------------------------
(* What the proofs assume of the constants, and what may be stored.        *)

Kept == [policy : Policies, storedAt : RunTimes]
RunRecords ==
  [request : RunRequests, at : RunTimes, elapsed : RunTasks \cup {None}, used : SUBSET Kept]

\* Requests refer to acquisitions, which may never be retained.
RunAssumption ==
  /\ RunTimes \subseteq Nat
  /\ \A r \in RunRequests : \A ref \in r.evidence : ref.acquisition \in Acquisitions
  /\ None \notin Kept \cup RunRecords

-----------------------------------------------------------------------------
(* Properties.                                                             *)

\* "Exact retries preserve history" (docs/RECORDED_OBSERVATION_REPLAY.md): all
\* who are answered for an identity have asked for the same thing and are told
\* the same run, the one that is saved, whoever computed it, however the calls
\* overlap and whichever fail or are killed.
OneRunPerRequest ==
  \A told \in runTold : told.request = told.run.request /\ runs[told.request.id] = told.run

\* A saved run recomputes at every later inspection, from evidence that was
\* retained before the run's time and could be used then, whatever is retained
\* afterwards and however the clock is set; and a clearance is only told while
\* its evidence may be used and is retained.
RunsRecompute ==
  /\ \A i \in RunIds : runs[i] # None =>
       /\ Inspects(i, runs[i].at)
       /\ \A e \in runs[i].used :
            /\ e.storedAt <= runs[i].at /\ runs[i].at < e.policy.effective
            /\ "DERIVE" \in e.policy.operations
  /\ store = "clearance" =>
       \A told \in runTold : \A e \in told.run.used :
         /\ told.run.at <= told.now
         /\ told.now < e.policy.retained /\ told.now < e.policy.effective
         /\ "RETRIEVE" \in e.policy.operations
=============================================================================
