------------------------- MODULE ProductionWorkers -------------------------
(***************************************************************************)
(* Worker processes of the production rail, production/worker.ts.  The     *)
(* server starts one for an operation, at most MaxWorkers at a time, and   *)
(* answers with what it prints, unless 15 seconds are over or it prints    *)
(* too much before; such a worker is killed.                               *)
(*                                                                         *)
(* The callers and the events of the children are callbacks of one event   *)
(* loop, so that each action is one of them.  What a worker prints is a    *)
(* result that is complete or not.  The error event of a child is taken to *)
(* be about its start; a kill that fails is left out, as is the size of    *)
(* the input, which is checked before anything else.                       *)
(***************************************************************************)
EXTENDS Naturals, FiniteSets

CONSTANTS
  Calls,            \* calls of runProductionWork
  MaxWorkers        \* MAX_PRODUCTION_WORKERS

VARIABLES
  active,           \* the counter of workers
  worker,           \* the child of each call: "none", "failed" to start, "alive",
                    \* or "ended" and not yet reported so by the close event
  printed,          \* whether it has printed its result
  exited,           \* whether its slot has been given back
  answer            \* what the call was answered, or "pending"

workerVars == <<active, worker, printed, exited, answer>>

-----------------------------------------------------------------------------
\* settle(): the first answer counts, and stops the timer.
Settle(c, a) == answer' = [answer EXCEPT ![c] = IF @ = "pending" THEN a ELSE @]

\* release(): the slot is given back once.
Release(c) ==
  /\ active' = IF exited[c] THEN active ELSE active - 1
  /\ exited' = [exited EXCEPT ![c] = TRUE]

\* A call is refused when all slots are taken or spawn throws; otherwise it
\* has a child, which may turn out not to have started.
Run(c) ==
  /\ answer[c] # "pending" /\ worker[c] = "none"
  /\ \/ /\ active >= MaxWorkers
        /\ answer' = [answer EXCEPT ![c] = "PRODUCTION_BUSY"]
        /\ UNCHANGED <<active, worker, printed, exited>>
     \/ /\ active < MaxWorkers
        /\ answer' = [answer EXCEPT ![c] = "WORKER_UNAVAILABLE"]
        /\ UNCHANGED <<active, worker, printed, exited>>
     \/ /\ active < MaxWorkers
        /\ active' = active + 1
        /\ \E child \in {"alive", "failed"} : worker' = [worker EXCEPT ![c] = child]
        /\ printed' = [printed EXCEPT ![c] = FALSE]
        /\ exited' = [exited EXCEPT ![c] = FALSE]
        /\ answer' = [answer EXCEPT ![c] = "pending"]

\* Mutant: the slot is given back as soon as the call is answered.
TimeOutAndRelease(c) ==
  /\ answer[c] = "pending"
  /\ Settle(c, "EXECUTION_TIMEOUT")
  /\ Release(c)
  /\ UNCHANGED <<worker, printed>>

\* The timer: the call is answered, the child is killed and keeps its slot.
TimeOut(c) ==
  /\ answer[c] = "pending"
  /\ Settle(c, "EXECUTION_TIMEOUT")
  /\ UNCHANGED <<active, worker, printed, exited>>

\* The child prints its result, or so much that it is killed; its stdin fails.
Data(c) ==
  /\ worker[c] = "alive"
  /\ \/ answer[c] = "pending" /\ printed' = [printed EXCEPT ![c] = TRUE] /\ UNCHANGED answer
     \/ /\ UNCHANGED printed
        /\ \E a \in {"WORKER_OUTPUT_LIMIT", "WORKER_UNAVAILABLE"} : Settle(c, a)
  /\ UNCHANGED <<active, worker, exited>>

\* The child ends, by itself or killed.
Exit(c) ==
  /\ worker[c] = "alive"
  /\ worker' = [worker EXCEPT ![c] = "ended"]
  /\ UNCHANGED <<active, printed, exited, answer>>

\* The error event of a child that did not start.
Error(c) ==
  /\ worker[c] = "failed"
  /\ Release(c)
  /\ Settle(c, "WORKER_UNAVAILABLE")
  /\ UNCHANGED <<worker, printed>>

\* The close event: its result, or the error it printed, is the answer.
Close(c) ==
  /\ \/ worker[c] = "ended"
     \/ worker[c] = "failed" /\ exited[c]
  /\ worker' = [worker EXCEPT ![c] = "none"]
  /\ Release(c)
  /\ \E a \in {"WORKER_UNAVAILABLE"} \cup (IF printed[c] THEN {"RESULT"} ELSE {}) : Settle(c, a)
  /\ UNCHANGED printed

-----------------------------------------------------------------------------
Init ==
  /\ active = 0
  /\ worker = [c \in Calls |-> "none"]
  /\ printed = [c \in Calls |-> FALSE]
  /\ exited = [c \in Calls |-> TRUE]
  /\ answer = [c \in Calls |-> "none"]

Next ==
  \E c \in Calls :
    Run(c) \/ TimeOut(c) \/ Data(c) \/ Exit(c) \/ Error(c) \/ Close(c)

Spec == Init /\ [][Next]_workerVars

-----------------------------------------------------------------------------
(* What the proofs assume of the constants.                                *)

WorkersAssumption == MaxWorkers \in Nat

\* "Reserve the concurrency slot until the child actually exits, including
\* after timeout" (worker.ts:44), and not longer: the children that live, late
\* ones included, have a slot each, there are no more than MaxWorkers slots,
\* and without children none is taken, whichever events come twice or late.
Children(state) == {c \in Calls : worker[c] = state}

SlotsAreChildren ==
  /\ Cardinality(Children("alive")) <= active
  /\ active <= MaxWorkers
  /\ Children("none") = Calls => active = 0
=============================================================================
