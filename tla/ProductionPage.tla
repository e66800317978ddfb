--------------------------- MODULE ProductionPage ---------------------------
(***************************************************************************)
(* The page that drives the production rail step by step,                  *)
(* components/production/ProductionPath.tsx with domain/productionPath.ts, *)
(* over a local rail.  Every step has a request identity; an answer is     *)
(* merged into its step, whatever that holds by then, and the references   *)
(* of an answer are the inputs of later steps.                             *)
(*                                                                         *)
(* The rail is ProductionRail, of which this keeps what a client sees: an  *)
(* identity is bound to its first command and has one run.  A step's name  *)
(* is left out of its identity, which is a number of attempts; the readback*)
(* of the real source, the inspector and the catalog are not modelled.     *)
(***************************************************************************)
EXTENDS Naturals, Sequences, SequencesExt

CONSTANTS
  StepOrder,        \* the steps, in their order
  SourceBytes,      \* what may be captured
  MaxAttempt,       \* bound: attempts of a step
  None

VARIABLES
  session,          \* by step: the attempt its identity is of, its status, result and error
  chosenBytes,      \* the bytes chosen for the capture
  inFlight,         \* commands sent and not answered
  railRuns          \* the rail: runs by identity, with their commands

pageVars == <<session, chosenBytes, inFlight, railRuns>>

Steps == ToSet(StepOrder)
LaterOrSame(step) ==
  LET place(s) == CHOOSE i \in DOMAIN StepOrder : StepOrder[i] = s IN
  {s \in Steps : place(s) >= place(step)}

-----------------------------------------------------------------------------
\* What a run retains: a registration under its own name, anything else under
\* the identity that made it.  A failed run has no output of its kind.
Output(run) ==
  CASE run.state = "FAILED" -> None
    [] run.state # "FAILED" /\ run.step \in {"corpus", "source"} -> [step |-> run.step, attempt |-> 0]
    [] OTHER -> [step |-> run.step, attempt |-> run.attempt]

\* outputOf() of the result at a step.
OutputOf(step) == IF session[step].result = None THEN None ELSE Output(session[step].result)

\* Mutant: a quarantined normalization is a member like any other.
AnyMember == OutputOf("normalize")

\* A normalization is a member only when its run completed.
Member ==
  IF session["normalize"].result # None /\ session["normalize"].result.state = "COMPLETED"
  THEN OutputOf("normalize") ELSE None

\* stepInputs() and commandFor(): the exact references a step is sent with.
InputsOf(step) ==
  CASE step = "corpus"    -> {}
    [] step = "source"    -> {OutputOf("corpus")}
    [] step = "capture"   -> {OutputOf("source")}
    [] step = "normalize" -> {OutputOf("source"), OutputOf("capture")}
    [] step = "build"     -> {OutputOf("corpus"), Member}

Ready(step) == None \notin InputsOf(step)

Running == \E s \in Steps : session[s].status = "RUNNING"

Command(step) ==
  [step |-> step, attempt |-> session[step].attempt, inputs |-> InputsOf(step),
   bytes |-> IF step = "capture" THEN chosenBytes ELSE None]

Fresh(attempt) == [attempt |-> attempt, status |-> "IDLE", result |-> None, error |-> None]

\* { ...current[step], status, result, error }: a handler names the fields it
\* sets and passes on what it leaves as it stands.
Stored(step, status, result, error) ==
  session' = [session EXCEPT ![step].status = status, ![step].result = result, ![step].error = error]

\* stepState(): the state a stage shows.
StageState(step) ==
  LET o == session[step] IN
  CASE o.status = "RUNNING" -> "RUNNING"
    [] o.status # "RUNNING" /\ o.error # None -> "FAILED"
    [] o.status # "RUNNING" /\ o.error = None /\ o.result # None ->
         (IF o.result.state = "COMPLETED" THEN "DONE" ELSE o.result.state)
    [] OTHER -> IF Ready(step) THEN "READY" ELSE "WAITING"

-----------------------------------------------------------------------------
\* sendStep(): what the step showed before is dropped.
SendStep(step) ==
  /\ Ready(step) /\ session[step].status # "RUNNING"
  /\ Stored(step, "RUNNING", None, None)
  /\ inFlight' = inFlight \cup {Command(step)}
  /\ UNCHANGED <<chosenBytes, railRuns>>

\* The runs an identity may get: its own if it has one, and only a
\* normalization is quarantined.
Runs(c) ==
  LET same == {r \in railRuns : r.step = c.step /\ r.attempt = c.attempt} IN
  IF same # {} THEN same
  ELSE {[step |-> c.step, attempt |-> c.attempt, command |-> c, state |-> s] :
          s \in {"COMPLETED", "FAILED"} \cup (IF c.step = "normalize" THEN {"QUARANTINED"} ELSE {})}

\* A run is answered: the rail's, whether new or historical.  A refusal that was
\* stored since the step was sent stays beside it.
Answered(c) ==
  /\ c \in inFlight
  /\ \E r \in Runs(c) :
       /\ r.command = c
       /\ railRuns' = railRuns \cup {r}
       /\ Stored(c.step, "DONE", r, session[c.step].error)
  /\ inFlight' = inFlight \ {c}
  /\ UNCHANGED chosenBytes

\* The rail refuses, before the command or because of another one under its
\* identity; or the answer is lost, and the run may have been saved.  A result
\* that was stored since the step was sent stays, and is an input as before.
Refused(c) ==
  /\ c \in inFlight
  /\ \E r \in Runs(c), code \in {"REQUEST_CONFLICT", "PRODUCTION_BUSY", "OPERATION_INCOMPLETE"} :
       /\ IF r.command # c THEN code = "REQUEST_CONFLICT" /\ UNCHANGED railRuns
          ELSE /\ railRuns' \in {railRuns, railRuns \cup {r}}
               /\ code # "REQUEST_CONFLICT"
               /\ r \in railRuns' => code = "PRODUCTION_BUSY"
       /\ Stored(c.step, "FAILED", session[c.step].result, code)
  /\ inFlight' = inFlight \ {c}
  /\ UNCHANGED chosenBytes

Renamed(step) ==
  /\ \A s \in LaterOrSame(step) : session[s].attempt < MaxAttempt
  /\ session' = [s \in Steps |-> IF s \in LaterOrSame(step) THEN Fresh(session[s].attempt + 1) ELSE session[s]]
  /\ UNCHANGED <<chosenBytes, inFlight, railRuns>>

\* newIdentity() by its button, which is disabled while anything is in flight.
NewIdentity(step) ==
  /\ session[step].result # None \/ session[step].error # None
  /\ ~ Running
  /\ Renamed(step)

\* runRecovery() and errorRecovery(): a failed run asks for a new identity; so
\* do a conflict and an operation that is incomplete.
OffersNewIdentity(step) ==
  \/ session[step].result # None /\ session[step].result.state # "COMPLETED"
  \/ session[step].error \in {"REQUEST_CONFLICT", "OPERATION_INCOMPLETE"}

\* recover(): the recoveries offered with a run or a refusal, which are not
\* disabled.
RecoverByNewIdentity(step) == OffersNewIdentity(step) /\ Renamed(step)

\* The bytes are changed, while the capture is not running or as the recovery
\* of a quarantine.
ChooseBytes ==
  /\ \/ session["capture"].status # "RUNNING"
     \/ StageState("normalize") = "QUARANTINED"
  /\ chosenBytes' \in SourceBytes \ {chosenBytes}
  /\ UNCHANGED <<session, inFlight, railRuns>>

Init ==
  /\ session = [s \in Steps |-> Fresh(1)]
  /\ chosenBytes \in SourceBytes
  /\ inFlight = {}
  /\ railRuns = {}

Next ==
  \/ \E step \in Steps : SendStep(step) \/ NewIdentity(step) \/ RecoverByNewIdentity(step)
  \/ \E c \in inFlight : Answered(c) \/ Refused(c)
  \/ ChooseBytes

Spec == Init /\ [][Next]_pageVars

-----------------------------------------------------------------------------
(* What the proofs assume of the constants.                                *)

\* These are the steps of STEP_ORDER; the proofs do not use their order.
PageAssumption == Steps = {"corpus", "source", "capture", "normalize", "build"}

-----------------------------------------------------------------------------
(* Properties.                                                             *)

\* "a quarantine is never a member" (productionPath.test.ts), and "every state
\* on the path is derived from a receipt the rail returned": whatever is sent
\* refers to outputs of completed runs of the rail, from a step that shows a late
\* refusal beside its result as well, whatever shows as done is such a run, and a
\* build has no member that was not normalized.
ReferencesAreReceipts ==
  /\ \A c \in inFlight : \A ref \in c.inputs :
       \E r \in railRuns : r.state = "COMPLETED" /\ Output(r) = ref
  /\ \A s \in Steps : StageState(s) = "DONE" => session[s].result \in railRuns

\* docs/PRODUCTION_PATH.md: "Use a new request identity" renames a step and
\* every later one, "the failed request keeps its identity and its receipt":
\* the receipt at a step would be the one of the identity it is shown under.
AnswersAreOfTheirIdentity ==
  \A s \in Steps :
    session[s].result # None => session[s].result.attempt = session[s].attempt
=============================================================================
