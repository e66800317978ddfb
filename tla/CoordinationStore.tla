------------------------- MODULE CoordinationStore -------------------------
(***************************************************************************)
(* The local coordination repository, src/coordination/store.ts: execute() *)
(* calls of many server processes on one events.json, guarded by one       *)
(* writer.lock.  The file is replaced as a whole by a rename; what is in a *)
(* temporary file before that concerns its writer only, whose name for it  *)
(* is random, so writing it and renaming it are one step.                  *)
(*                                                                         *)
(* Event times are left out: replay passes them through unchanged.         *)
(***************************************************************************)
EXTENDS CoordinationLedger

CONSTANTS
  Tasks,            \* execute() calls that may run at the same time
  ClientCommands,   \* the commands clients send
  NoCommand,        \* the command of a task that serves none
  MaxLog,           \* 15000 entries, or 16 MiB
  MayCrash,         \* whether a process may be killed
  LockRemoval       \* which locks the operator removes: {}, {"stale"}, or
                    \* {"stale", "live"}

ASSUME StoreAssumption ==
  /\ ClientCommands \subseteq Commands
  /\ NoCommand \notin ClientCommands
  /\ MaxLog \in Nat
  /\ MayCrash \in BOOLEAN
  /\ LockRemoval \subseteq {"stale", "live"}

\* States of writer.lock other than being held by a task.
Free == "free"            \* there is no writer.lock
Stale == "stale"          \* the writer.lock of a killed process

ASSUME TasksAreNotLockStates == Free \notin Tasks /\ Stale \notin Tasks

VARIABLES
  file,             \* the commands in events.json
  lock,             \* Free, Stale, or the task that created writer.lock
  pc,               \* where each task is
  command,          \* the command each task serves
  loaded,           \* the log a task read under the lock
  reply,            \* the reply a task sends once it has released the lock
  confirmed,        \* history: the commands whose client got a success reply
  intruded          \* history: the lock of a running call was removed

vars == <<file, lock, pc, command, loaded, reply, confirmed, intruded>>

-----------------------------------------------------------------------------
\* load(): the board a log replays to, over the seed.
Board(log) ==
  LET after[n \in 0 .. Len(log)] ==
        IF n = 0 THEN Seed ELSE Applied(after[n - 1], log[n])
  IN after[Len(log)]

\* load() refuses a log with an entry that is refused at its place.
Replayable(log) ==
  /\ Len(log) <= MaxLog
  /\ \A i \in DOMAIN log : ~ Refused(Board(SubSeq(log, 1, i - 1)), log[i])

Changes(log, c) == ~ Refused(Board(log), c) /\ Applied(Board(log), c) # Board(log)

\* What execute() finds under the lock.
Outcome(log, c) ==
  IF ~ Replayable(log) THEN "INVALID_LOCAL_LOG"
  ELSE IF Refused(Board(log), c) THEN "REFUSED"
  ELSE IF ~ Changes(log, c) THEN "OK"
  ELSE IF Len(log) >= MaxLog THEN "CAPACITY" ELSE "CHANGED"

At(t, place) == pc[t] = place
Goto(t, place) == pc' = [pc EXCEPT ![t] = place]

\* The variables of a task that serves no command.
Rest(t) ==
  /\ Goto(t, "idle")
  /\ command' = [command EXCEPT ![t] = NoCommand]
  /\ loaded' = [loaded EXCEPT ![t] = << >>]
  /\ reply' = [reply EXCEPT ![t] = "none"]

Answer(t, s) ==
  /\ Rest(t)
  /\ confirmed' = IF s = "OK" THEN confirmed \cup {command[t]} ELSE confirmed

\* Leave the try block with reply s; the finally block is still to run.
Finally(t, s) ==
  /\ Goto(t, "releasing")
  /\ reply' = [reply EXCEPT ![t] = s]

-----------------------------------------------------------------------------
(* The steps of execute().                                                 *)

\* A client sends a command for the first time, or again after an answer that
\* was lost or not a success.
Begin(t, c) ==
  /\ At(t, "idle")
  /\ Goto(t, "begun")
  /\ command' = [command EXCEPT ![t] = c]
  /\ UNCHANGED <<file, lock, loaded, reply, confirmed, intruded>>

\* Mutant: the lock is opened with 'w', which never fails.
TakeLockAlways(t) ==
  /\ At(t, "begun")
  /\ lock' = t
  /\ Goto(t, "locked")
  /\ UNCHANGED <<file, command, loaded, reply, confirmed>>

\* open(lockPath, 'wx')
TakeLock(t) ==
  /\ At(t, "begun")
  /\ \/ /\ lock = Free
        /\ lock' = t
        /\ Goto(t, "locked")
        /\ UNCHANGED <<command, loaded, reply, confirmed>>
     \/ /\ lock # Free
        /\ UNCHANGED lock
        /\ Answer(t, "BOARD_BUSY")
  /\ UNCHANGED file

\* load() and applyCommand under the lock.
Load(t) ==
  /\ At(t, "locked")
  /\ loaded' = [loaded EXCEPT ![t] = file]
  /\ LET outcome == Outcome(file, command[t]) IN
       \/ outcome = "CHANGED" /\ Goto(t, "applied") /\ UNCHANGED reply
       \/ outcome # "CHANGED" /\ Finally(t, outcome)
  /\ UNCHANGED <<file, lock, command, confirmed>>

\* Mutant: the command is appended to the file instead of replacing it.
ReplaceByAppending(t) ==
  /\ At(t, "applied")
  /\ file' = Append(file, command[t])
  /\ Finally(t, "OK")
  /\ UNCHANGED <<lock, command, loaded, confirmed>>

\* Mutant: a failed write is not noticed.
ReplaceUnnoticed(t) ==
  /\ At(t, "applied")
  /\ file' \in {file, Append(loaded[t], command[t])}
  /\ Finally(t, "OK")
  /\ UNCHANGED <<lock, command, loaded, confirmed>>

\* The temporary file is written, synced and renamed over events.json, or one
\* of these calls fails.
Replace(t) ==
  /\ At(t, "applied")
  /\ \/ file' = Append(loaded[t], command[t]) /\ Finally(t, "OK")
     \/ UNCHANGED file /\ Finally(t, "LOCAL_STORE_UNAVAILABLE")
  /\ UNCHANGED <<lock, command, loaded, confirmed>>

\* lock.close(); unlink(lockPath): whoever created the file now there.
Release(t) ==
  /\ At(t, "releasing")
  /\ lock' = Free
  /\ Answer(t, IF lock = Free THEN "LOCAL_STORE_UNAVAILABLE" ELSE reply[t])
  /\ UNCHANGED file

-----------------------------------------------------------------------------
(* Failures and the operator.                                              *)

Crash(t) ==
  /\ MayCrash
  /\ ~ At(t, "idle")
  /\ Rest(t)
  /\ lock' = IF lock = t THEN Stale ELSE lock
  /\ UNCHANGED <<file, confirmed, intruded>>

\* The operator removes the lock of a killed process, or, against the recovery
\* procedure, one whose writer still runs.
RemoveLock ==
  /\ \/ lock = Stale /\ "stale" \in LockRemoval /\ UNCHANGED intruded
     \/ lock \in Tasks /\ "live" \in LockRemoval /\ intruded' = TRUE
  /\ lock' = Free
  /\ UNCHANGED <<file, pc, command, loaded, reply, confirmed>>

-----------------------------------------------------------------------------
Init ==
  /\ file = << >>
  /\ lock = Free
  /\ pc = [t \in Tasks |-> "idle"]
  /\ command = [t \in Tasks |-> NoCommand]
  /\ loaded = [t \in Tasks |-> << >>]
  /\ reply = [t \in Tasks |-> "none"]
  /\ confirmed = {}
  /\ intruded = FALSE

Step(t) ==
  /\ TakeLock(t) \/ Load(t) \/ Replace(t) \/ Release(t)
  /\ UNCHANGED intruded

Next ==
  \/ \E t \in Tasks : (\E c \in ClientCommands : Begin(t, c)) \/ Step(t) \/ Crash(t)
  \/ RemoveLock

Spec == Init /\ [][Next]_vars

-----------------------------------------------------------------------------
(* Type invariant.                                                         *)
Replies == { "none", "OK", "REFUSED", "CAPACITY", "INVALID_LOCAL_LOG",
             "LOCAL_STORE_UNAVAILABLE" }

TypeOK ==
  /\ file \in Seq(ClientCommands)
  /\ lock \in Tasks \cup {Free, Stale}
  /\ pc \in [Tasks -> {"idle", "begun", "locked", "applied", "releasing"}]
  /\ command \in [Tasks -> ClientCommands \cup {NoCommand}]
  /\ loaded \in [Tasks -> Seq(ClientCommands)]
  /\ reply \in [Tasks -> Replies]
  /\ confirmed \subseteq ClientCommands
  /\ intruded \in BOOLEAN

\* Whatever writers, retries, crashes and even a removed live lock do, the log
\* can be replayed: INVALID_LOCAL_LOG needs a hand that edits the file.
LogReplays == Replayable(file)

\* The board a replay shows is coherent: no retry is applied twice, no reply
\* leaves its thread.
BoardIsCoherent == Coherent(Board(file))

\* Until a live lock is removed, a command confirmed to a client stays in
\* effect: sending it again discovers it without duplication
\* (docs/AGENT_COORDINATION.md, "Local persistence and recovery").
ConfirmedStaysInEffect ==
  intruded \/ \A c \in confirmed : InEffect(Board(file), c)

\* The promise of the board as a whole, until a live lock is removed.
Shows(log, c) == InEffect(Board(log), c)

Promise == INSTANCE AppendOnlyBoard
             WITH log <- file, Commands <- ClientCommands, InEffect <- Shows

AppendOnlyBoardSpec == Promise!Init /\ [][intruded' \/ Promise!Next]_<<file, confirmed>>

=============================================================================
