--------------------------- MODULE FilesAndPages ---------------------------
(***************************************************************************)
(* Immutable files, and the pages of the application: the notation draft,  *)
(* the spatial inquiry, the composer of messages, the production page, the *)
(* globe and the report of a replay.  They share no state with one another *)
(* and each of them is a system of its own: `part` says which one runs; it *)
(* does not change, immutable files are idle and the variables of the      *)
(* other pages are None.  What follows of one of them by itself follows    *)
(* here, for every value of the constants.                                 *)
(***************************************************************************)
EXTENDS ImmutableFiles, TLC

CONSTANTS
  DraftCommands, None, MaxSaved, SavedIds, Texts, MaxDrafts,
  StepOrder, SourceBytes, MaxAttempt, RecordList, Placeable, MaxSessions,
  Timelines, MaxTime

VARIABLES
  part,
  saved, snapshot, pending, typed, running, conflict, confirmReload, hydrated, stored,
  validatedAt, accepted, discarded, setAside, unasked,
  savedAnalyses, applied, answers, comparedAnswer, view, requests,
  board, composing, shownBoard, posting, composerError, minted,
  session, chosenBytes, inFlight, railRuns,
  twin, loading, viewers, engine, runtime, selectedRecord, twinAnswer, asking, placed,
  placing,
  manifest, row

Draft == INSTANCE NotationDraft WITH inFlight <- running
Inquiry == INSTANCE SpatialInquiryPage
Composer == INSTANCE MessageComposer
Page == INSTANCE ProductionPage
Globe == INSTANCE EarthTwin
Replay == INSTANCE ObservationReplay

ASSUME PartsAssumption ==
  /\ Draft!DraftAssumption
  /\ Composer!ComposerAssumption
  /\ Page!PageAssumption
  /\ Globe!TwinAssumption
  /\ Replay!ReplayAssumption

draftVars == <<saved, snapshot, pending, typed, running, conflict, confirmReload, hydrated,
               stored, validatedAt, accepted, discarded, setAside, unasked>>
inquiryVars == <<savedAnalyses, applied, answers, comparedAnswer, view, requests>>
composerVars == <<board, composing, shownBoard, posting, composerError, minted>>
pageVars == <<session, chosenBytes, inFlight, railRuns>>
globeVars == <<twin, loading, viewers, engine, runtime, selectedRecord, twinAnswer, asking,
               placed, placing>>
replayVars == <<manifest, row>>
partVars == <<part, vars, draftVars, inquiryVars, composerVars, pageVars, globeVars, replayVars>>

-----------------------------------------------------------------------------
NoDraft ==
  /\ saved = None /\ snapshot = None /\ pending = None /\ typed = None /\ running = None
  /\ conflict = None /\ confirmReload = None /\ hydrated = None /\ stored = None
  /\ validatedAt = None /\ accepted = None /\ discarded = None /\ setAside = None
  /\ unasked = None
NoInquiry ==
  /\ savedAnalyses = None /\ applied = None /\ answers = None /\ comparedAnswer = None
  /\ view = None /\ requests = None
NoComposer ==
  /\ board = None /\ composing = None /\ shownBoard = None /\ posting = None
  /\ composerError = None /\ minted = None
NoPage ==
  session = None /\ chosenBytes = None /\ inFlight = None /\ railRuns = None
NoGlobe ==
  /\ twin = None /\ loading = None /\ viewers = None /\ engine = None /\ runtime = None
  /\ selectedRecord = None /\ twinAnswer = None /\ asking = None /\ placed = None
  /\ placing = None
NoReplay == manifest = None /\ row = None

PartInit ==
  /\ part \in {"files", "draft", "inquiry", "composer", "page", "globe", "replay"}
  /\ Init
  /\ IF part = "draft" THEN Draft!Init ELSE NoDraft
  /\ IF part = "inquiry" THEN Inquiry!Init ELSE NoInquiry
  /\ IF part = "composer" THEN Composer!Init ELSE NoComposer
  /\ IF part = "page" THEN Page!Init ELSE NoPage
  /\ IF part = "globe" THEN Globe!Init ELSE NoGlobe
  /\ IF part = "replay" THEN Replay!Init ELSE NoReplay

PartNext ==
  /\ UNCHANGED part
  /\ part # "files" => UNCHANGED vars
  /\ part # "draft" => UNCHANGED draftVars
  /\ part # "inquiry" => UNCHANGED inquiryVars
  /\ part # "composer" => UNCHANGED composerVars
  /\ part # "page" => UNCHANGED pageVars
  /\ part # "globe" => UNCHANGED globeVars
  /\ part # "replay" => UNCHANGED replayVars
  /\ part = "files" => Next
  /\ part = "draft" => Draft!Next
  /\ part = "inquiry" => Inquiry!Next
  /\ part = "composer" => Composer!Next
  /\ part = "page" => Page!Next
  /\ part = "globe" => Globe!Next
  /\ part = "replay" => Replay!Next

PartSpec == PartInit /\ [][PartNext]_partVars

-----------------------------------------------------------------------------
(* The properties of the pages, which say what each of them means; that of  *)
(* immutable files is WriteOnceMapSpec.                                     *)

\* What a page shows is of what it asked for: the inquiry page and the globe.
PagesShowTheirOwn ==
  /\ part = "inquiry" => Inquiry!ShowsWhatIsApplied
  /\ part = "globe" => Globe!OneCurrentGlobe

\* What the production page sends and shows are receipts of the rail.
ReferencesAreReceipts == part = "page" => Page!ReferencesAreReceipts

\* A draft leaves the page by a save that has it or by a loss its author confirmed,
\* unless it was stale and kept, or reloaded without being asked about, each of
\* which is refuted by a run of its own (PendingAreRetained, DiscardIsConfirmed); it
\* is based on the version it was validated against; and a message whose post
\* failed is kept so that posting it again is still one message.
WorkIsKept ==
  /\ part = "draft" => Draft!WorkIsKept /\ Draft!DraftKeepsItsBase
  /\ part = "composer" => Composer!PostedOnce

\* The page of a replay draws what the report of the replay says.
ChainAgreesWithRow == part = "replay" => Replay!ChainAgreesWithRow

\* An answer is stored under the identity it was asked for (refuted, by a run
\* of its own).
AnswersAreOfTheirIdentity == part = "page" => Page!AnswersAreOfTheirIdentity

-----------------------------------------------------------------------------
(* For TLC: the five steps of the page, two records, and the symmetry.     *)
FiveSteps == <<"corpus", "source", "capture", "normalize", "build">>
TwoRecords == <<"x", "y">>
Symmetry == Permutations(Tasks) \cup Permutations(Contents)
=============================================================================
