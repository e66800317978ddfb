------------------------------ MODULE Services ------------------------------
(***************************************************************************)
(* Services that share no state with one another, each of them a system of *)
(* its own: the GAT audits, the compute stores, the spatial analyses, the  *)
(* evidence rail, the slots of the production workers and one contact of a *)
(* connector.  `part` says which one runs; it does not change, and the     *)
(* variables of the others are Nil.  What follows of one of them by itself *)
(* follows here, for every value of the constants.                         *)
(***************************************************************************)

CONSTANTS
  GatTasks, AuditRequests, Sources, Contents, Unsupported, Forbidden, GatTimes,
  RunTasks, RunRequests, EvidenceIds, Policies, RunTimes,
  SpatialTasks, AnalysisRequests, Layers, LayerPolicies, SpatialTimes,
  RailTasks, RailRequests, Identity, Rails, RailTimes,
  Calls, MaxWorkers, MaxBytes, Nil

VARIABLES
  part,
  retained, reservations, artifacts, gatReceipts, auditLock, child, gatPc, audit,
  record, begun, gatTold, gatIntruded,
  runStore, runEvidence, runs, runPc, asked, run, runTold,
  layers, reserved, spatialReceipts, spatialPc, submitted, startedAt, analysed,
  spatialTold,
  rail, railFiles, objects, railPc, wanted, drafted, railTold,
  active, worker, printed, exited, answer,
  connector, verifying, contactOutcome, deadline, lookup, outgoing, incoming, exposed

Audits == INSTANCE GatAudit WITH Audits <- AuditRequests, None <- Nil
Runs == INSTANCE ComputedRuns WITH
  Acquisitions <- EvidenceIds, store <- runStore, evidence <- runEvidence, None <- Nil
Analyses == INSTANCE SpatialAnalyses WITH Analyses <- AnalysisRequests, None <- Nil
Records == INSTANCE EvidenceRail WITH files <- railFiles, None <- Nil
Workers == INSTANCE ProductionWorkers
Connection == INSTANCE SourceContact WITH outcome <- contactOutcome, None <- Nil

ASSUME PartsAssumption ==
  /\ Audits!AuditAssumption
  /\ Runs!RunAssumption
  /\ Analyses!AnalysisAssumption
  /\ Records!RailAssumption
  /\ Workers!WorkersAssumption
  /\ Connection!ContactAssumption

auditVars == <<retained, reservations, artifacts, gatReceipts, auditLock, child, gatPc,
               audit, record, begun, gatTold, gatIntruded>>
runVars == <<runStore, runEvidence, runs, runPc, asked, run, runTold>>
analysisVars == <<layers, reserved, spatialReceipts, spatialPc, submitted, startedAt,
                  analysed, spatialTold>>
recordVars == <<rail, railFiles, objects, railPc, wanted, drafted, railTold>>
workerVars == <<active, worker, printed, exited, answer>>
contactVars == <<connector, verifying, contactOutcome, deadline, lookup, outgoing,
                 incoming, exposed>>
partVars == <<part, auditVars, runVars, analysisVars, recordVars, workerVars, contactVars>>

-----------------------------------------------------------------------------
NoAudits ==
  /\ retained = Nil /\ reservations = Nil /\ artifacts = Nil /\ gatReceipts = Nil
  /\ auditLock = Nil /\ child = Nil /\ gatPc = Nil /\ audit = Nil
  /\ record = Nil /\ begun = Nil /\ gatTold = Nil /\ gatIntruded = Nil
NoRuns ==
  /\ runStore = Nil /\ runEvidence = Nil /\ runs = Nil /\ runPc = Nil
  /\ asked = Nil /\ run = Nil /\ runTold = Nil
NoAnalyses ==
  /\ layers = Nil /\ reserved = Nil /\ spatialReceipts = Nil /\ spatialPc = Nil
  /\ submitted = Nil /\ startedAt = Nil /\ analysed = Nil /\ spatialTold = Nil
NoRecords ==
  /\ rail = Nil /\ railFiles = Nil /\ objects = Nil /\ railPc = Nil
  /\ wanted = Nil /\ drafted = Nil /\ railTold = Nil
NoWorkers ==
  active = Nil /\ worker = Nil /\ printed = Nil /\ exited = Nil /\ answer = Nil
NoContact ==
  /\ connector = Nil /\ verifying = Nil /\ contactOutcome = Nil /\ deadline = Nil
  /\ lookup = Nil /\ outgoing = Nil /\ incoming = Nil /\ exposed = Nil

PartInit ==
  /\ part \in {"audits", "runs", "analyses", "records", "workers", "contact"}
  /\ IF part = "audits" THEN Audits!Init ELSE NoAudits
  /\ IF part = "runs" THEN Runs!Init ELSE NoRuns
  /\ IF part = "analyses" THEN Analyses!Init ELSE NoAnalyses
  /\ IF part = "records" THEN Records!Init ELSE NoRecords
  /\ IF part = "workers" THEN Workers!Init ELSE NoWorkers
  /\ IF part = "contact" THEN Connection!Init ELSE NoContact

PartNext ==
  /\ UNCHANGED part
  /\ part # "audits" => UNCHANGED auditVars
  /\ part # "runs" => UNCHANGED runVars
  /\ part # "analyses" => UNCHANGED analysisVars
  /\ part # "records" => UNCHANGED recordVars
  /\ part # "workers" => UNCHANGED workerVars
  /\ part # "contact" => UNCHANGED contactVars
  /\ part = "audits" => Audits!Next
  /\ part = "runs" => Runs!Next
  /\ part = "analyses" => Analyses!Next
  /\ part = "records" => Records!Next
  /\ part = "workers" => Workers!Next
  /\ part = "contact" => Connection!Next

PartSpec == PartInit /\ [][PartNext]_partVars

-----------------------------------------------------------------------------
(* The properties of the parts, which say what each of them means; those of *)
(* the same kind are stated together.                                       *)

\* A reserved identity of an audit, or of a spatial analysis, is worked on once
\* and answered by its only receipt: Audits!RunsOnceSpec or
\* Analyses!AnalysedOnce, whichever runs.
contracts == <<reservations, begun, gatReceipts, gatTold,
               reserved, analysed, spatialReceipts, spatialTold>>

ReservedRequestsRunOnce ==
  /\ part = "audits" => Audits!Contract!Init
  /\ part = "analyses" => Analyses!Contract!Init
  /\ [][ /\ part = "audits" => [Audits!Contract!Next]_(Audits!Contract!vars)
         /\ part = "analyses" => [Analyses!Contract!Next]_(Analyses!Contract!vars) ]_contracts

\* What is saved recomputes: audits, computed runs and spatial analyses.
SavedResultsRecompute ==
  /\ part = "audits" => Audits!HistoryRecomputes
  /\ part = "runs" => Runs!RunsRecompute
  /\ part = "analyses" => Analyses!ReceiptsInspect

\* The remaining properties are of one part each: the engine of the audits, the
\* records of the evidence rail, the callers of the compute stores, the children
\* of the production workers, and the sockets and the timer of a contact.
OneEngine == part = "audits" => Audits!OneEngine
RecordsInspect == part = "records" => Records!RecordsInspect
OneRunPerRequest == part = "runs" => Runs!OneRunPerRequest
SlotsAreChildren == part = "workers" => Workers!SlotsAreChildren
ContactsEndClean == part = "contact" => Connection!ContactsEndClean
=============================================================================
