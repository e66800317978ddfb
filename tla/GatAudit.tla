------------------------------ MODULE GatAudit ------------------------------
(***************************************************************************)
(* Audits of retained IFC files, gat/service.ts, and the child process     *)
(* that makes them, gat/runtime.ts.  A request is reserved, its source is  *)
(* checked, the engine runs under audit.lock and at most for 30 seconds,   *)
(* its report and a projection of it are stored, and a receipt closes the  *)
(* request.  Reservations, artifacts and receipts are immutable files      *)
(* (ImmutableFiles).  A receipt is inspected by checking the source again, *)
(* as of the time the audit was started.                                   *)
(*                                                                         *)
(* A source is retained at some time, by a capture that may come before,   *)
(* during or after an audit of it; what its policy permits does not        *)
(* change.  A report is abstracted to whether the pipeline is ready, and   *)
(* the failures of the runtime that are not told apart here are            *)
(* EXECUTION_FAILED.  Digests and the checks of the engine's pin are left  *)
(* out, and so is that two audits with the same report share its file.     *)
(***************************************************************************)
EXTENDS Naturals, FiniteSets

CONSTANTS
  GatTasks,         \* audits that may run at the same time
  Audits,           \* audit requests: an identity, a source, its content, and
                    \* the purpose of the audit
  Sources,          \* acquisitions that requests name; one may never be retained
  Contents,         \* what a source may contain
  Unsupported,      \* contents whose media type is not IFC
  Forbidden,        \* purposes for which the policy denies DERIVE
  None,
  GatTimes          \* readings of the clock, which may be set back

VARIABLES
  retained,         \* the acquisition of each source, or None
  reservations,     \* the reservation of each identity, or None
  artifacts,        \* the reports and projections that are stored
  gatReceipts,      \* the receipt of each identity, or None
  auditLock,        \* "free", "stale", or the task that created audit.lock
  child,            \* the engine of each task: "none", "running", "stopped"
  gatPc,            \* where each audit is
  audit,            \* its request, or None
  record,           \* the receipt it is preparing
  begun,            \* history: how often the work of an identity was begun
  gatTold,          \* history: the requests and receipts answered
  gatIntruded       \* history: whether a lock in use has been removed

gatFiles == <<retained, reservations, artifacts, gatReceipts>>
gatLocals == <<audit, record>>
gatHistory == <<begun, gatTold, gatIntruded>>
gatVars == <<gatFiles, auditLock, child, gatPc, gatLocals, gatHistory>>

-----------------------------------------------------------------------------
AuditIds == {a.id : a \in Audits}

At(t, place) == gatPc[t] = place
Goto(t, place) == gatPc' = [gatPc EXCEPT ![t] = place]

NoRecord == [at |-> 0, outcome |-> "none", verified |-> FALSE, decided |-> FALSE, until |-> 0]

RuntimeFailures == {"ENGINE_BUSY", "EXECUTION_TIMEOUT", "EXECUTION_FAILED"}
Audited == {"SUPPORTED_SCOPE_AUDIT", "AUDIT_BLOCKED"}

\* The call is over: its caller got an exception.
Refuse(t) ==
  /\ Goto(t, "idle")
  /\ audit' = [audit EXCEPT ![t] = None]
  /\ record' = [record EXCEPT ![t] = NoRecord]
  /\ UNCHANGED gatTold

Answer(t) ==
  /\ Goto(t, "idle")
  /\ audit' = [audit EXCEPT ![t] = None]
  /\ record' = [record EXCEPT ![t] = NoRecord]
  /\ gatTold' = gatTold \cup {<<audit[t], gatReceipts[audit[t].id]>>}

Proceed(t, place) == Goto(t, place) /\ UNCHANGED <<gatLocals, gatTold>>

Write(t, place, r) ==
  /\ Goto(t, place)
  /\ record' = [record EXCEPT ![t] = r]
  /\ UNCHANGED <<audit, gatTold>>

-----------------------------------------------------------------------------
(* The checks that do not run the engine.                                  *)

\* preconditions(): what stops an audit of source a.source begun at this time.
Checked(a, at) ==
  LET held == retained[a.source]
      found(outcome, verified, decided) ==
        [outcome |-> outcome, verified |-> verified, decided |-> decided] IN
  IF held = None THEN found("SOURCE_UNAVAILABLE", FALSE, FALSE)
  ELSE IF held.content # a.content THEN found("SOURCE_REFERENCE_MISMATCH", FALSE, FALSE)
  ELSE IF at < held.at THEN found("SOURCE_TIME_MISMATCH", TRUE, FALSE)
  ELSE IF a.content \in Unsupported THEN found("SOURCE_MEDIA_UNSUPPORTED", TRUE, FALSE)
  ELSE IF a.purpose \in Forbidden THEN found("PROCESSING_DISALLOWED", TRUE, TRUE)
  ELSE found("none", TRUE, TRUE)

\* inspect(): the receipt of an audit recomputes.
Recomputes(i) ==
  LET r == gatReceipts[i]
      checked == Checked(reservations[i].audit, r.at) IN
  /\ r.until >= r.at
  /\ r.verified = checked.verified /\ r.decided = checked.decided
  /\ IF checked.outcome # "none" THEN r.outcome = checked.outcome
     ELSE r.outcome \in Audited \cup RuntimeFailures
  /\ r.outcome \in Audited =>
       \A part \in {"report", "projection"} : <<i, part, r.outcome>> \in artifacts

-----------------------------------------------------------------------------
(* audit().  A task is used again when the engine it started has ended.    *)
Begin(t, a) ==
  /\ At(t, "idle") /\ child[t] = "none"
  /\ Goto(t, "lookup")
  /\ audit' = [audit EXCEPT ![t] = a]
  /\ UNCHANGED <<gatFiles, auditLock, child, record, gatHistory>>

\* A receipt answers for its request, if it recomputes; otherwise the time is
\* taken for a reservation.
Lookup(t) ==
  /\ At(t, "lookup")
  /\ LET i == audit[t].id IN
       \/ /\ gatReceipts[i] # None /\ Recomputes(i) /\ reservations[i].audit = audit[t]
          /\ Answer(t)
       \/ /\ gatReceipts[i] = None
          /\ \E now \in GatTimes : Write(t, "reserve", [NoRecord EXCEPT !.at = now])
       \/ Refuse(t)
  /\ UNCHANGED <<gatFiles, auditLock, child, begun, gatIntruded>>

\* Mutant: a reservation of the same request is taken over.
ReserveOrResume(t) ==
  /\ At(t, "reserve")
  /\ LET i == audit[t].id
         mine == [audit |-> audit[t], at |-> record[t].at] IN
       IF reservations[i] = None \/ reservations[i] = mine
       THEN reservations' = [reservations EXCEPT ![i] = mine] /\ Proceed(t, "source")
       ELSE UNCHANGED reservations /\ Refuse(t)
  /\ UNCHANGED <<retained, artifacts, gatReceipts, auditLock, child, begun, gatIntruded>>

\* The reservation is published, create-only.  Whoever did not create it is
\* told that the execution is incomplete.
Reserve(t) ==
  /\ At(t, "reserve")
  /\ LET i == audit[t].id
         made == [reservations EXCEPT ![i] = [audit |-> audit[t], at |-> record[t].at]] IN
       \/ reservations[i] = None /\ reservations' = made /\ Proceed(t, "source")
       \/ reservations' \in (IF reservations[i] = None THEN {reservations, made} ELSE {reservations})
          /\ Refuse(t)
  /\ UNCHANGED <<retained, artifacts, gatReceipts, auditLock, child, begun, gatIntruded>>

\* exactSource and the permission; reading may fail now, and work later.
CheckSource(t) ==
  /\ At(t, "source")
  /\ begun' = [begun EXCEPT ![audit[t].id] = @ + 1]
  /\ LET c == Checked(audit[t], record[t].at)
         r == [record[t] EXCEPT !.verified = c.verified, !.decided = c.decided] IN
       \/ c.outcome # "none" /\ Write(t, "close", [r EXCEPT !.outcome = c.outcome])
       \/ c.outcome = "none" /\ Write(t, "lock", r)
       \/ c.outcome = "none" /\ Write(t, "close", [r EXCEPT !.outcome = "SOURCE_INTEGRITY_FAILED"])
       \/ Write(t, "close", [record[t] EXCEPT !.outcome = "SOURCE_INTEGRITY_FAILED"])
  /\ UNCHANGED <<gatFiles, auditLock, child, gatIntruded>>

\* Mutant: the lock of a server that was killed is taken over.
TakeLockOver(t) ==
  /\ At(t, "lock")
  /\ \/ auditLock \in {"free", "stale"} /\ auditLock' = t /\ Proceed(t, "spawn")
     \/ /\ auditLock \notin {"free", "stale"} /\ UNCHANGED auditLock
        /\ Write(t, "close", [record[t] EXCEPT !.outcome = "ENGINE_BUSY"])
  /\ UNCHANGED <<gatFiles, child, begun, gatIntruded>>

\* audit.lock is created, or the engine is busy, or it is not usable.
TakeLock(t) ==
  /\ At(t, "lock")
  /\ \/ auditLock = "free" /\ auditLock' = t /\ Proceed(t, "spawn")
     \/ /\ UNCHANGED auditLock
        /\ \E outcome \in {"EXECUTION_FAILED", "ENGINE_BUSY"} :
             /\ outcome = "ENGINE_BUSY" => auditLock # "free"
             /\ Write(t, "close", [record[t] EXCEPT !.outcome = outcome])
  /\ UNCHANGED <<gatFiles, child, begun, gatIntruded>>

\* The input is written to a scratch directory and the engine is started.
Spawn(t) ==
  /\ At(t, "spawn")
  /\ \/ child' = [child EXCEPT ![t] = "running"] /\ Proceed(t, "wait")
     \/ /\ UNCHANGED child
        /\ Write(t, "unlock", [record[t] EXCEPT !.outcome = "EXECUTION_FAILED"])
  /\ UNCHANGED <<gatFiles, auditLock, begun, gatIntruded>>

\* The timer, or an output that is too long, kills the engine; the audit goes
\* on when its end is reported.
Stop(t) ==
  /\ At(t, "wait")
  /\ child[t] = "running" /\ record[t].outcome = "none"
  /\ \E outcome \in {"EXECUTION_TIMEOUT", "EXECUTION_FAILED"} :
       Write(t, "wait", [record[t] EXCEPT !.outcome = outcome])
  /\ UNCHANGED <<gatFiles, auditLock, child, gatHistory>>

\* The engine ends, by itself or killed.
Exit(t) ==
  /\ child[t] = "running"
  /\ child' = [child EXCEPT ![t] = IF At(t, "wait") THEN "stopped" ELSE "none"]
  /\ UNCHANGED <<gatFiles, auditLock, gatPc, gatLocals, gatHistory>>

\* Its end is reported: with a report, or with one of its exit codes.
Close(t) ==
  /\ At(t, "wait")
  /\ child[t] = "stopped"
  /\ child' = [child EXCEPT ![t] = "none"]
  /\ \/ record[t].outcome # "none" /\ Proceed(t, "unlock")
     \/ /\ record[t].outcome = "none"
        /\ \E outcome \in Audited \cup {"EXECUTION_FAILED"} :
             Write(t, "unlock", [record[t] EXCEPT !.outcome = outcome])
  /\ UNCHANGED <<gatFiles, auditLock, begun, gatIntruded>>

\* finally: audit.lock is removed, whoever created it.  If it is gone, that
\* error replaces the report.
Unlock(t) ==
  /\ At(t, "unlock")
  /\ auditLock' = "free"
  /\ IF auditLock = "free"
     THEN Write(t, "close", [record[t] EXCEPT !.outcome = "EXECUTION_FAILED"])
     ELSE Proceed(t, IF record[t].outcome \in Audited THEN "report" ELSE "close")
  /\ UNCHANGED <<gatFiles, child, begun, gatIntruded>>

\* Mutant: the projection is stored after the receipt, if at all.
StoreReportOnly(t) ==
  /\ At(t, "report")
  /\ artifacts' = artifacts \cup {<<audit[t].id, "report", record[t].outcome>>}
  /\ Proceed(t, "close")
  /\ UNCHANGED <<retained, reservations, gatReceipts, auditLock, child, begun, gatIntruded>>

\* The report, and then its projection, are stored and read back.
Store(t) ==
  /\ \E part \in {"report", "projection"} :
       /\ At(t, part)
       /\ LET more == artifacts \cup {<<audit[t].id, part, record[t].outcome>>} IN
            \/ artifacts' = more /\ Proceed(t, IF part = "report" THEN "projection" ELSE "close")
            \/ artifacts' \in {artifacts, more} /\ Refuse(t)
  /\ UNCHANGED <<retained, reservations, gatReceipts, auditLock, child, begun, gatIntruded>>

\* The receipt is published, unless the clock went back ...
SaveReceipt(t) ==
  /\ At(t, "close")
  /\ LET i == audit[t].id IN
     \E now \in GatTimes :
       LET closed == [gatReceipts EXCEPT ![i] = [record[t] EXCEPT !.until = now]] IN
         \/ now >= record[t].at /\ gatReceipts' = closed /\ Proceed(t, "read back")
         \/ /\ gatReceipts' \in (IF now < record[t].at THEN {gatReceipts} ELSE {gatReceipts, closed})
            /\ Refuse(t)
  /\ UNCHANGED <<retained, reservations, artifacts, auditLock, child, begun, gatIntruded>>

\* ... and inspected before it is answered.
ReadBack(t) ==
  /\ At(t, "read back")
  /\ \/ Recomputes(audit[t].id) /\ Answer(t)
     \/ Refuse(t)
  /\ UNCHANGED <<gatFiles, auditLock, child, begun, gatIntruded>>

-----------------------------------------------------------------------------
(* The evidence rail, failures and the operator.                           *)
Retain(s) ==
  /\ retained[s] = None
  /\ \E content \in Contents, now \in GatTimes :
       retained' = [retained EXCEPT ![s] = [content |-> content, at |-> now]]
  /\ UNCHANGED <<reservations, artifacts, gatReceipts, auditLock, child, gatPc, gatLocals, gatHistory>>

\* The server is killed; an engine it started runs on until it ends.
Crash(t) ==
  /\ ~ At(t, "idle")
  /\ Refuse(t)
  /\ child' = [child EXCEPT ![t] = IF @ = "running" THEN @ ELSE "none"]
  /\ auditLock' = IF auditLock = t THEN "stale" ELSE auditLock
  /\ UNCHANGED <<gatFiles, begun, gatIntruded>>

EnginesRunning == {t \in GatTasks : child[t] = "running"}

\* Somebody removes audit.lock; nothing in the code does it after a kill.
RemoveLock ==
  /\ auditLock # "free"
  /\ auditLock' = "free"
  /\ gatIntruded' = (gatIntruded \/ auditLock # "stale" \/ EnginesRunning # {})
  /\ UNCHANGED <<gatFiles, child, gatPc, gatLocals, begun, gatTold>>

-----------------------------------------------------------------------------
Init ==
  /\ retained = [s \in Sources |-> None]
  /\ reservations = [i \in AuditIds |-> None]
  /\ artifacts = {}
  /\ gatReceipts = [i \in AuditIds |-> None]
  /\ auditLock = "free"
  /\ child = [t \in GatTasks |-> "none"]
  /\ gatPc = [t \in GatTasks |-> "idle"]
  /\ audit = [t \in GatTasks |-> None]
  /\ record = [t \in GatTasks |-> NoRecord]
  /\ begun = [i \in AuditIds |-> 0]
  /\ gatTold = {}
  /\ gatIntruded = FALSE

Step(t) ==
  \/ Lookup(t) \/ Reserve(t) \/ CheckSource(t) \/ TakeLock(t) \/ Spawn(t) \/ Stop(t)
  \/ Close(t) \/ Unlock(t) \/ Store(t) \/ SaveReceipt(t) \/ ReadBack(t)

Next ==
  \/ \E t \in GatTasks :
       \/ \E a \in Audits : Begin(t, a)
       \/ Step(t) \/ Exit(t) \/ Crash(t)
  \/ \E s \in Sources : Retain(s)
  \/ RemoveLock

Spec == Init /\ [][Next]_gatVars

-----------------------------------------------------------------------------
(* What the proofs assume of the constants, and what may be stored.        *)

AuditOutcomes ==
  {"none", "SOURCE_UNAVAILABLE", "SOURCE_REFERENCE_MISMATCH", "SOURCE_TIME_MISMATCH",
   "SOURCE_MEDIA_UNSUPPORTED", "PROCESSING_DISALLOWED", "SOURCE_INTEGRITY_FAILED"}
  \cup Audited \cup RuntimeFailures

AuditReceipts ==
  [at : Nat, outcome : AuditOutcomes, verified : BOOLEAN, decided : BOOLEAN, until : Nat]
AuditReservations == [audit : Audits, at : Nat]
Retentions == [content : Contents, at : Nat]

\* Requests name acquisitions, which may never be retained; None, "free"
\* and "stale" are no data.
AuditAssumption ==
  /\ GatTimes \subseteq Nat
  /\ \A a \in Audits : a.source \in Sources
  /\ None \notin Audits \cup AuditReservations \cup AuditReceipts \cup Retentions
  /\ "free" \notin GatTasks /\ "stale" \notin GatTasks

-----------------------------------------------------------------------------
(* Properties.                                                             *)

\* A retry "does not silently rerun a potentially completed process"
\* (docs/GAT_INSPECTOR.md): an identity is reserved for one request, is worked
\* on once, by whoever created its reservation, and has one receipt, which is
\* all that anybody is told; kills, failing writes and calls that answer late
\* included.
Contract == INSTANCE RunsOnce WITH
  Ids <- AuditIds, Commands <- Audits,
  bound <- [i \in AuditIds |-> IF reservations[i] = None THEN None ELSE reservations[i].audit],
  starts <- begun, outcome <- gatReceipts, told <- gatTold

RunsOnceSpec == Contract!Spec

\* Every receipt recomputes at every later inspection, whatever has been
\* retained since: its gates were judged as of the time its reservation was
\* made, and its report and projection were stored before it.  The exceptions
\* are the source failures that need not last (docs/GAT_INSPECTOR.md).
HistoryRecomputes ==
  \A i \in AuditIds :
    gatReceipts[i] # None =>
      \/ Recomputes(i)
      \/ gatReceipts[i].outcome = "SOURCE_INTEGRITY_FAILED"
      \/ /\ gatReceipts[i].outcome = "SOURCE_UNAVAILABLE"
         /\ retained[reservations[i].audit.source] # None

\* "the runtime deliberately has one cross-process slot"
\* (docs/GAT_INSPECTOR.md): at most one engine runs, one that outlives a killed server included, as
\* long as nobody removes a lock in use.
OneEngine == gatIntruded \/ Cardinality(EnginesRunning) <= 1
=============================================================================
