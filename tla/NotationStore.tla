--------------------------- MODULE NotationStore ---------------------------
(***************************************************************************)
(* The versioned notation store, src/state-kernel/store.ts: several save() *)
(* calls, of one process or of many, work on one directory of immutable    *)
(* numbered files and one writer.lock.  A task is one running save() call. *)
(*                                                                         *)
(* A load lists the directory and then reads and replays files that never  *)
(* change, so it is one step that sees the files listed.  Digests are left *)
(* out: two records are equal exactly when their requests and the requests *)
(* before them are.  What the kernel refuses is abstracted to two of its   *)
(* rules, both about the history as a whole: a command identifier is used  *)
(* once, and the number of commands is bounded.  A request that fails      *)
(* parsing reaches no other step and is left out.                          *)
(***************************************************************************)
EXTENDS Integers, Sequences, FiniteSets

CONSTANTS
  Tasks,          \* save() calls that may run at the same time
  Batches,        \* command batches
  CommandIds,     \* command identifiers
  NoRequest,      \* the request of a task that serves none
  CommandsOf,     \* the identifiers of the commands of each batch
  MaxVersions,    \* MAX_NOTATION_SAVED_VERSIONS
  MaxCommands,    \* MAX_COMMANDS of the kernel
  MayCrash,       \* whether a process may be killed
  LockRemoval     \* which locks the operator removes: {}, {"stale"}, or
                  \* {"stale", "live"}

Requests == [base : 0 .. MaxVersions, batch : Batches]

ASSUME StoreAssumption ==
  /\ NoRequest \notin Requests
  /\ CommandsOf \in [Batches -> SUBSET CommandIds]
  /\ MaxVersions \in Nat
  /\ MaxCommands \in Nat
  /\ MayCrash \in BOOLEAN
  /\ LockRemoval \subseteq {"stale", "live"}

\* States of writer.lock other than being held by a task.
Free == "free"            \* there is no writer.lock
Stale == "stale"          \* the writer.lock of a killed process

ASSUME TasksAreNotLockStates == Free \notin Tasks /\ Stale \notin Tasks

VARIABLES
  versions,       \* the saved requests: file n holds versions[n]
  lock,           \* Free, Stale, or the task that created writer.lock
  pc,             \* where each task is
  request,        \* the request each task serves
  seen,           \* number of versions in the task's latest load
  reply,          \* the reply a task sends once it has released the lock
  confirmed,      \* history: <<request, version>> of every success reply
  intruded        \* history: the lock of a running save was removed

vars == <<versions, lock, pc, request, seen, reply, confirmed, intruded>>

-----------------------------------------------------------------------------
(* Loading and judging.                                                    *)

UsedIn(h) == UNION { CommandsOf[h[i].batch] : i \in 1 .. Len(h) }

\* evaluateKernel over the commands of history h followed by batch b.
KernelAccepts(h, b) ==
  /\ CommandsOf[b] \cap UsedIn(h) = {}
  /\ Cardinality(CommandsOf[b] \cup UsedIn(h)) <= MaxCommands

\* Everything load() verifies about the saved files.
Loadable(h) ==
  /\ Len(h) <= MaxVersions
  /\ \A i \in 1 .. Len(h) :
       /\ h[i].base = i - 1
       /\ KernelAccepts(SubSeq(h, 1, i - 1), h[i].batch)

\* The checks both loads of save() are followed by, in their order.
Verdict(h, r) ==
  IF ~ Loadable(h) THEN "INVALID_SAVED_STATE"
  ELSE IF h # << >> /\ h[Len(h)] = r THEN "SAVED"
  ELSE IF r.base # Len(h) THEN "VERSION_CONFLICT"
  ELSE IF Len(h) >= MaxVersions THEN "CAPACITY"
  ELSE IF ~ KernelAccepts(h, r.batch) THEN "REJECTED"
  ELSE "ACCEPTED"

\* Loading history h and judging a request with verdict v runs the kernel,
\* which may not complete.
KernelRuns(h, v) == h # << >> \/ v \in {"ACCEPTED", "REJECTED"}

Failures == { "INVALID_SAVED_STATE", "VERSION_CONFLICT", "CAPACITY", "REJECTED",
              "STATE_BUSY", "KERNEL_UNAVAILABLE", "PUBLISH_CONFLICT",
              "WRITE_FAILED", "SAVE_UNCONFIRMED", "LOCK_MISSING", "none" }

At(t, place) == pc[t] = place
Goto(t, place) == pc' = [pc EXCEPT ![t] = place]

\* The variables of a task that serves no request.
Rest(t) ==
  /\ Goto(t, "idle")
  /\ request' = [request EXCEPT ![t] = NoRequest]
  /\ seen' = [seen EXCEPT ![t] = 0]
  /\ reply' = [reply EXCEPT ![t] = "none"]

\* The call of task t ends; the client receives s and saved version n.
Answer(t, s, n) ==
  /\ Rest(t)
  /\ confirmed' = IF s = "SAVED" THEN confirmed \cup {<<request[t], n>>}
                                 ELSE confirmed

-----------------------------------------------------------------------------
(* The steps of save().                                                    *)

\* A client sends a request: a new one, a retry, or one made on an old base.
Begin(t, r) ==
  /\ At(t, "idle")
  /\ Goto(t, "begun")
  /\ request' = [request EXCEPT ![t] = r]
  /\ UNCHANGED <<versions, lock, seen, reply, confirmed, intruded>>

\* The load without the lock and the checks that keep a refused request from
\* creating the directory.
FirstLoad(t) ==
  /\ At(t, "begun")
  /\ LET v == Verdict(versions, request[t]) IN
       \/ /\ v = "ACCEPTED"
          /\ Goto(t, "checked")
          /\ UNCHANGED <<request, seen, reply, confirmed>>
       \/ /\ v # "ACCEPTED"
          /\ Answer(t, v, Len(versions))
       \/ /\ KernelRuns(versions, v)
          /\ Answer(t, "KERNEL_UNAVAILABLE", 0)
  /\ UNCHANGED <<versions, lock>>

\* Leave the try block with reply s; the finally block is still to run.
Finally(t, s) ==
  /\ Goto(t, "releasing")
  /\ reply' = [reply EXCEPT ![t] = s]

\* Mutant: a save that did not get the lock runs the finally block.
TakeLockInsideTry(t) ==
  /\ At(t, "checked")
  /\ \/ lock = Free /\ lock' = t /\ Goto(t, "locked") /\ UNCHANGED reply
     \/ lock # Free /\ UNCHANGED lock /\ Finally(t, "STATE_BUSY")
  /\ UNCHANGED <<versions, request, seen, confirmed>>

\* openSync(lockPath, 'wx')
TakeLock(t) ==
  /\ At(t, "checked")
  /\ \/ /\ lock = Free
        /\ lock' = t
        /\ Goto(t, "locked")
        /\ UNCHANGED <<request, seen, reply, confirmed>>
     \/ /\ lock # Free
        /\ UNCHANGED lock
        /\ Answer(t, "STATE_BUSY", 0)
  /\ UNCHANGED versions

\* Mutant: the first load is trusted, the history only counted again.
LockedLoadTrusting(t) ==
  /\ At(t, "locked")
  /\ seen' = [seen EXCEPT ![t] = request[t].base]
  /\ Goto(t, "evaluated")
  /\ UNCHANGED <<versions, lock, request, reply, confirmed>>

\* Mutant: a refusal returns without the finally block.
LockedLoadLeaking(t) ==
  /\ At(t, "locked")
  /\ LET v == Verdict(versions, request[t]) IN
       \/ /\ v = "ACCEPTED"
          /\ seen' = [seen EXCEPT ![t] = Len(versions)]
          /\ Goto(t, "evaluated")
          /\ UNCHANGED <<request, reply, confirmed>>
       \/ v # "ACCEPTED" /\ Answer(t, v, Len(versions))
  /\ UNCHANGED <<versions, lock>>

\* The load, checks and evaluation under the lock.
LockedLoad(t) ==
  /\ At(t, "locked")
  /\ seen' = [seen EXCEPT ![t] = Len(versions)]
  /\ LET v == Verdict(versions, request[t]) IN
       \/ v = "ACCEPTED" /\ Goto(t, "evaluated") /\ UNCHANGED reply
       \/ v # "ACCEPTED" /\ Finally(t, v)
       \/ KernelRuns(versions, v) /\ Finally(t, "KERNEL_UNAVAILABLE")
  /\ UNCHANGED <<versions, lock, request, confirmed>>

\* Mutant: the next free number instead of the number evaluated for.
PublishAtEnd(t) ==
  /\ At(t, "evaluated")
  /\ versions' = Append(versions, request[t])
  /\ Goto(t, "published")
  /\ UNCHANGED <<lock, request, seen, reply, confirmed>>

\* Mutant: rename over an existing file instead of a create-only link.
PublishByRename(t) ==
  /\ At(t, "evaluated")
  /\ versions' = [i \in 1 .. (IF Len(versions) > seen[t] THEN Len(versions) ELSE seen[t] + 1)
                    |-> IF i = seen[t] + 1 THEN request[t] ELSE versions[i]]
  /\ Goto(t, "published")
  /\ UNCHANGED <<lock, request, seen, reply, confirmed>>

\* publishImmutableFile of version seen + 1: the create-only link succeeds, or
\* the file exists with the same or with other content.  Writing the temporary
\* file may fail before the link, and removing it after the link.
Publish(t) ==
  /\ At(t, "evaluated")
  /\ \/ /\ Len(versions) = seen[t]
        /\ versions' = Append(versions, request[t])
        /\ \/ Goto(t, "published") /\ UNCHANGED reply
           \/ Finally(t, "WRITE_FAILED")
     \/ /\ Len(versions) > seen[t]
        /\ versions[seen[t] + 1] = request[t]
        /\ Goto(t, "published")
        /\ UNCHANGED <<versions, reply>>
     \/ /\ Len(versions) > seen[t]
        /\ versions[seen[t] + 1] # request[t]
        /\ Finally(t, "PUBLISH_CONFLICT")
        /\ UNCHANGED versions
     \/ Finally(t, "WRITE_FAILED") /\ UNCHANGED versions
  /\ UNCHANGED <<lock, request, seen, confirmed>>

\* Mutant: the readback does not look at the version.
VerifyAnyVersion(t) ==
  /\ At(t, "published")
  /\ seen' = [seen EXCEPT ![t] = Len(versions)]
  /\ Finally(t, IF Loadable(versions) THEN "SAVED" ELSE "INVALID_SAVED_STATE")
  /\ UNCHANGED <<versions, lock, request, confirmed>>

\* The readback that confirms the save.
Verify(t) ==
  /\ At(t, "published")
  /\ seen' = [seen EXCEPT ![t] = Len(versions)]
  /\ \/ Finally(t, IF ~ Loadable(versions) THEN "INVALID_SAVED_STATE"
                   ELSE IF Len(versions) # seen[t] + 1 THEN "SAVE_UNCONFIRMED"
                   ELSE "SAVED")
     \/ Finally(t, "KERNEL_UNAVAILABLE")
  /\ UNCHANGED <<versions, lock, request, confirmed>>

\* closeSync(lock); unlinkSync(lockPath): whoever created the file now there.
Release(t) ==
  /\ At(t, "releasing")
  /\ lock' = Free
  /\ Answer(t, IF lock = Free THEN "LOCK_MISSING" ELSE reply[t], seen[t])
  /\ UNCHANGED versions

-----------------------------------------------------------------------------
(* Failures and the operator.                                              *)

\* The process of task t is killed.  Its lock file stays.
Crash(t) ==
  /\ MayCrash
  /\ ~ At(t, "idle")
  /\ Rest(t)
  /\ lock' = IF lock = t THEN Stale ELSE lock
  /\ UNCHANGED <<versions, confirmed, intruded>>

\* The operator deletes writer.lock: one left by a killed process, or, against
\* the advice of the STATE_BUSY message, one whose writer still runs.
RemoveLock ==
  /\ \/ lock = Stale /\ "stale" \in LockRemoval /\ UNCHANGED intruded
     \/ lock \in Tasks /\ "live" \in LockRemoval /\ intruded' = TRUE
  /\ lock' = Free
  /\ UNCHANGED <<versions, pc, request, seen, reply, confirmed>>

-----------------------------------------------------------------------------
Init ==
  /\ versions = << >>
  /\ lock = Free
  /\ pc = [t \in Tasks |-> "idle"]
  /\ request = [t \in Tasks |-> NoRequest]
  /\ seen = [t \in Tasks |-> 0]
  /\ reply = [t \in Tasks |-> "none"]
  /\ confirmed = {}
  /\ intruded = FALSE

Step(t) ==
  /\ \/ FirstLoad(t)
     \/ TakeLock(t)
     \/ LockedLoad(t)
     \/ Publish(t)
     \/ Verify(t)
     \/ Release(t)
  /\ UNCHANGED intruded

Next ==
  \/ \E t \in Tasks : (\E r \in Requests : Begin(t, r)) \/ Step(t) \/ Crash(t)
  \/ RemoveLock

Spec == Init /\ [][Next]_vars

\* A running process gets processor time, and every kernel call ends: the
\* child is killed after ten seconds (runtime.ts:25).
FairSpec == Spec /\ \A t \in Tasks : WF_vars(Step(t))

-----------------------------------------------------------------------------
(* Type invariant.                                                         *)
Places == { "idle", "begun", "checked", "locked", "evaluated", "published", "releasing" }

TypeOK ==
  /\ versions \in Seq(Requests)
  /\ lock \in Tasks \cup {Free, Stale}
  /\ pc \in [Tasks -> Places]
  /\ request \in [Tasks -> Requests \cup {NoRequest}]
  /\ seen \in [Tasks -> Nat]
  /\ reply \in [Tasks -> Failures \cup {"SAVED"}]
  /\ confirmed \subseteq Requests \X Nat
  /\ intruded \in BOOLEAN

\* No interleaving of saves, retries and crashes writes a history that load()
\* refuses: one bad version would turn every later read and save into
\* INVALID_SAVED_STATE for good.  In particular no command is applied twice,
\* whatever a client resends after a lost reply.
HistoryLoads == Loadable(versions)

\* A client that was told "saved as version n" finds its request in version n,
\* also when the reply came from the idempotent path of a retry.
ConfirmedIsSaved ==
  \A c \in confirmed : c[2] \in 1 .. Len(versions) /\ versions[c[2]] = c[1]

\* The promise of the store as a whole.
Log == INSTANCE CompareAndAppend
         WITH log <- versions,
              Accepts <- LAMBDA h, r : KernelAccepts(h, r.batch)

CompareAndAppendSpec == Log!Spec

\* Until a live lock is removed, one writer at a time is between its lock and
\* its release, and the lock on disk is its own.
OneWriter ==
  intruded \/ \A t \in Tasks :
    pc[t] \in {"locked", "evaluated", "published", "releasing"} => lock = t

\* Until a live lock is removed, and unless a file operation fails, a save that
\* passed the checks under the lock is published under its own number and
\* confirmed: another writer is never the reason why an editor does not know
\* whether its draft was saved.
NoUncertainSave ==
  intruded \/ \A t \in Tasks :
    /\ reply[t] \notin {"PUBLISH_CONFLICT", "SAVE_UNCONFIRMED"}
    /\ pc[t] = "releasing" => lock # Free

\* Whatever is killed or removed, no running save keeps the lock: STATE_BUSY
\* passes, or is due to a killed process.
LockIsReleased == \A t \in Tasks : []<> (lock # t)

=============================================================================
