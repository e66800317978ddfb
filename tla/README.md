# TLA+ models of NotationsOS

NotationsOS is a local-first TypeScript application with a small Rust kernel.
Most of its source is fixtures, catalogues and pages that read them. The parts
that can go wrong in ways a test hardly reaches are the ones that keep state on
disk between processes (the versioned notation store and its undo/redo kernel,
the agent board and the workers that serve it, and the rails that publish
immutable files referring to one another), and the pages that act on answers
which arrive after something else happened. This directory models those parts.

All paths below are relative to the root of the repository.

## 1. Inventory

| Component | State it keeps | Operations | Talks to | Hard behaviour |
| --- | --- | --- | --- | --- |
| Notation kernel, `native/state-kernel/src/lib.rs` | two maps, used identifiers, undo and redo stacks; all rebuilt by every call | five commands folded over an empty value | called as a child process by the store | inverse records applied long after they were made; limits and endpoints after undo/redo; identifiers of discarded branches |
| Notation store, `src/state-kernel/store.ts` | numbered immutable files and `writer.lock` | read, preview, save | kernel (child process, 10 s), immutable files | stale base, retry after a lost reply, kill between lock and release, a removed live lock, failed writes |
| Notation draft, `src/components/notations/NotationWorkspace.tsx` | pending commands, typed text, a copy of both in the tab, a conflict | preview, save, reload, keep drafts | notation store | a save whose answer is lost; another page that saves; a reload with unsaved work |
| Immutable files, `src/data-os/local-files.ts` | files that appear once | read, publish by create-only link | every store below | two publishers of one name, a kill before or after the link |
| Coordination ledger, `src/coordination/ledger.ts` | (a value) participants, messages, receipts | register, post, acknowledge | the store | idempotent repetition, threads, receipts |
| Coordination store, `src/coordination/store.ts` | `events.json` and `writer.lock` | read, execute | ledger | lost updates, a kill between rename and reply, a log that can no longer be replayed |
| Inbox, `src/coordination/inbox.ts` | none | a page of pending messages | board | a set that shrinks while it is paged through |
| Review workers, `src/coordination/*-review.ts` | none of their own; the board is their memory | one bounded pass | client, inbox, board | lost, delayed, repeated calls; two processes of one worker; results before receipts |
| Coordination clients, `clients/` | none | calls with retries | HTTP routes | a call that failed may still be executed |
| Message composer, `src/components/coordination/` | a draft and its request identity | edit, post, refresh | board | a post that was executed although it failed |
| Evidence rail, `src/data-os/`, census normalization | bytes, receipts, normalizations, builds | capture, normalize, build, inspect | immutable files, source policy | two makers of one record, bytes without a receipt, policy that ends in between |
| Production rail, `src/production/store.ts` | registrations, intents, artifacts, runs, `catalog.lock` | register, execute, inspect | immutable files | a kill between intent and run, a leaked lock, a failure after something was stored |
| Production workers, `src/production/worker.ts` | slots | start, time out, answer | child processes | children that do not close, answers after a timeout |
| Production page, `src/components/production/` | five steps with identities and answers | run a step, recover it | production rail | an answer of an identity that was replaced |
| Acquisition, `src/acquisition/` | intents, budget slots, receipts | capture, inspect | HTTP sources | budget spent without a request, readers of half a capture |
| Source contact, `src/acquisition/http.ts`, `samsara-http.ts` | a timer, two sockets, one promise | one request | name server, provider | a deadline and the events of two sockets in any order |
| GAT audits, `src/gat/` | reservations, artifacts, receipts, `audit.lock` | audit, inspect | an external engine (30 s) | a kill between reservation and receipt, a leaked lock |
| Computed runs, `src/compute/*-store.ts`, `src/observation/store.ts` | one immutable result per request | run, inspect | immutable files, evidence | two processes that compute at once; evidence that may no longer be used |
| Spatial analyses, `src/spatial/` | reservations and receipts | submit, inspect | immutable files, evidence | inspection that validates measures without a graph search |
| Spatial inquiry page, `src/components/spatial/` | two applied identities and their answers | apply, compare | spatial analyses | answers to what is no longer applied |
| Earth twin, `src/components/earth/EarthTwin.tsx` | engine session, selected record, placements | load, select, preview, place all | the globe engine | two sessions that load at once; a session that ends while it loads |
| Corpus database, `scripts/seed-db.ts`, `src/db/` | rows of corpora, releases, records, retractions | seed | the feed | no transaction, a seed killed half way or run twice |
| Corpus feed, `src/adapter/corpusSource.ts`, `feed.ts` | none | records, as-of queries, retractions of a release | the database, domain algorithms | one answer from many selects |
| Domain algorithms, `src/domain/` | none | as-of reads, corrections, the production path, the chain of a replay | fixtures | boundary instants, what was known when |
| Other adapters, fixtures, MCP, other pages | none that changes | reads | | |

What makes each correct:

* the kernel never reaches its internal error, undo and redo are exact, an
  identifier keeps its meaning;
* the store never writes a history it cannot load, never loses a confirmed save,
  never leaves a save unanswered because of another writer, and gives its lock
  back; the draft is kept until a save contains it or its author gives it up;
* a folder of immutable files is a map that only grows, whoever is killed;
* the board can always be replayed, stays coherent, and never loses a confirmed
  command while live locks are left alone; a worker never acknowledges a request
  without a result, never leaves two results, and answers every request
  eventually; a message is posted once;
* a rail works on a bound request at most once, tells one outcome of it, and
  every record it saves passes the inspection that its readers make of it;
* budgets bound what is contacted, slots bound the children that run, one engine
  runs at a time;
* a contact with a provider ends once, on time and with nothing left open;
* an answer about a knowledge time is decided by what was known then, and a
  seeded database answers as its fixture does;
* a page shows what it asked for, and judges what it is given as its maker did.

`PROJECT.json` lists every component with its status and every hazard at its
line, with the properties that would catch it.

## 2. Modules

| Module | Models | Implements |
| --- | --- | --- |
| `NotationKernel` | one `replay()` call, command by command | |
| `NotationHistory` | the kernel with two history variables | `UndoHistory` |
| `UndoHistory` | abstract: a list of snapshots and a cursor | |
| `NotationStore` | concurrent `save()` calls on one directory | `CompareAndAppend` |
| `CompareAndAppend` | abstract: an append-only log whose entry n names base n - 1 | |
| `NotationDraft` | the browser's draft over that store | |
| `ImmutableFiles` | concurrent reads and publications of one folder | `WriteOnceMap` |
| `WriteOnceMap` | abstract: a map that gives a name a content once | |
| `CoordinationLedger` | the rules of the board, as operators on a board | |
| `CoordinationStore` | concurrent `execute()` calls on one log file | `AppendOnlyBoard` |
| `AppendOnlyBoard` | abstract: a log that only grows, by accepted commands | |
| `ReviewWorker` | passes of either review worker over an unreliable client | |
| `MessageComposer` | the draft of a message and its request identity | |
| `EvidenceRail` | captures, normalizations and builds, made more than once at a time | |
| `ProductionRail` | `execute()` with its five kinds of commands | `RunsOnce` |
| `RunsOnce` | abstract: an identity is bound once, worked on once, has one outcome | |
| `ProductionWorkers` | worker processes, their slots and their timeouts | |
| `ProductionPage` | the five steps of the production page | |
| `SourceCapture` | captures and inspections by two connectors that share budgets | `RunsOnce` |
| `SourceContact` | one request of either connector, event by event | |
| `GatAudit` | audits, their engine and its lock | `RunsOnce` |
| `ComputedRuns` | the four stores that publish what they computed | |
| `SpatialAnalyses` | reserved analyses of a floor and their receipts | `RunsOnce` |
| `SpatialGraph` | the graph algorithm and the validation of its measures | |
| `AsOfCorpus` | queries, deliveries and retractions of a release, as operators on a corpus | |
| `CorpusFeed` | seeds that write a corpus row by row, and the selects of the feed | |
| `ObservationReplay` | the row of a replay report and the chain its page draws | |
| `SpatialInquiryPage`, `EarthTwin` | pages that ask while answers are on their way | |
| `Services` | `GatAudit`, `ComputedRuns`, `SpatialAnalyses`, `EvidenceRail`, `ProductionWorkers` and `SourceContact` side by side, with their properties | |
| `FilesAndPages` | `ImmutableFiles`, `NotationDraft`, `SpatialInquiryPage`, `MessageComposer`, `ProductionPage`, `EarthTwin` and `ObservationReplay` side by side, with their properties | |
| `NotationStoreProofs`, `CoordinationLedgerProofs`, `CoordinationStoreProofs`, `ReviewWorkerProofs`, `ProductionRailProofs` | proofs about the module each is named after | |
| `ServicesProofs` | proofs about `SourceCapture` and `Services` with its parts | |
| `FilesAndPagesProofs` | proofs about `FilesAndPages` with its parts | |
| `HistoriesProofs` | proofs about `NotationHistory`, `AsOfCorpus` and `CorpusFeed` | |
| `MC...` | instances for TLC, one `.cfg` per run | |

### NotationKernel and NotationHistory

A behaviour is one batch. `document` is the pair of BTreeMaps, with `None`
where an identifier is absent; `usedObjects`, `usedCommands`, `undo`, `redo` and
`revision` are the fields of `Replay` with the same names. Each command of
`accept` is an action: `Admit` is the check of the command identifier, `Commit`
is the tail that applies a new change, pushes it and clears `redo`, and `Settle`
is `self.validate()?; self.revision += 1`, part of every action. A refusal ends
the batch (`Refuse`), because `replay` returns the first error; which refusals a
state can meet is computed from the checks in their order. Identifier and text
formats are data: `Ids` and `Contents` are the values that pass. The label of a
relation is left out since no command reads or changes it.

`NotationHistory` adds what the code forgets: `timeline`, the documents that
undo and redo can still reach, and `origin`, what each identifier named when it
was created. With the cursor `Len(undo) + 1` the kernel refines `UndoHistory`,
in which an undo is just a move of a cursor over snapshots.

### NotationStore and NotationDraft

A task is one running `save()`. Its steps are the places where the code touches
the disk: the first load (`FirstLoad`), `openSync(..., 'wx')` (`TakeLock`), the
load and evaluation under the lock (`LockedLoad`), the create-only link
(`Publish`), the readback (`Verify`) and the `finally` block (`Release`). A
load lists the directory and then reads files that never change, so it is one
step; the same is why `read` and `preview` need no action. `lock` says which
task created the file, which the code does not know: `Release` deletes whatever
is there. `Crash` kills the process of a task at any step and leaves its lock
`Stale`. `RemoveLock` is the operator, external to the code; the constant
`LockRemoval` says whether only stale locks are removed, as the message of
`STATE_BUSY` asks, or live ones too. The history variable `intruded` says that a
live one was: what depends on the lock is claimed until then. The kernel may be
unavailable whenever it runs (10 s timeout, `runtime.ts:25`), and a publication
may fail before or after the link. `confirmed` is a history variable: every
success a client was told.

`NotationDraft` is the other side, `useNotationController`. Its store is a list
of command sets that it and other pages append to (`Serve`, `OthersSave`). One
request is in flight; its answer arrives, or is lost before or after it was
served (`Lose`). Every handler is an action together with the persistence effect
that follows it (`Persist`). A command is its identifier; `validatedAt`,
`accepted`, `discarded`, `setAside` and `unasked` are history variables; the last
three are the commands that went out of the draft without a save. `discarded`
are those whose loss was confirmed, in the dialog of a reload or of the browser.
`setAside` are those that keeping `STALE` drafts drops (line 433 restores the text
only, and the copy, which is not updated while a conflict is shown, is overwritten
then), `unasked` those that a reload drops unasked. `WorkIsKept` exempts all three,
so it says what the code keeps; that two of them should not be there is what the
runs `draft_stale` and `draft_discard` show.

### ImmutableFiles

A name is a link to an inode. `publishImmutableFile` looks for the name, writes a
temporary file part by part, links it create-only, reads the winner when somebody
was faster, and removes the temporary file; each is an action, each may fail,
and `Crash` may come between any two. A reading takes the parts there are, and
what is incomplete is `Torn`. The stores above it publish and read in one step,
which `WriteOnceMap` allows.

### CoordinationLedger and CoordinationStore

The ledger is pure, so it is a module of operators: `PostRefused` and `Post` and
so on, and `Refused` and `Applied` for a whole command. A board has the
definitions, the messages in their order (message n is `MSG-n`) and the
receipts. The store keeps a log of commands; `Board` applies them in turn to
the seed, the way `load()` does, and `Replayable` is what it refuses. The steps of
`execute()` are `TakeLock`, `Load` (load and apply), `Replace` (temporary file
and rename: only its writer sees the temporary file) and `Release`. The scope is
one, bound by the server. Times are left out.

### ReviewWorker and MessageComposer

One module for both workers, which differ in which messages they serve
(`Assigned`) and in what follows a post: the contract worker acknowledges when
the post returns, the candidate build worker reads the board back even when it
failed. `program` is chosen at first. A call puts its command `inflight`;
`Execute` lets the server execute it at any time, and again, also after the
caller gave up. That covers lost requests, lost answers, the client's retries
and late arrivals. What an inspection reports is any member of `Observations`,
so two processes may see different things. `Fail` ends a pass at any call. A
page is the set of its message numbers, worked off from the least (`Current`). The
board takes one command at a time, which `CoordinationStore` shows of the
repository behind it.

`MessageComposer` is the form: a request identity is made when a draft is first
posted, kept while the post fails, and dropped by an edit. A post may have been
executed although its answer says otherwise.

### ProductionRail, ProductionWorkers and ProductionPage

A task is one worker process. `Lookup` is the first reading, `Claim` the check
and `PublishIntent` the binding under `catalog.lock`; then the stages of the
command (`Register`, or `StoreBytes`, `BindAcquisition`, `BindMember`,
`PublishArtifact`, `VerifyArtifact`), the failure path, which looks for what was
stored (`Discover`), the run (`SaveRun`) and its reading (`ReadBack`).
`Readable` is the validation that `catalog()` makes of every saved run. The
system has no operation that continues an intent without a run, and the model
has none: it stays incomplete, and its identity refuses other commands.

`ProductionWorkers` is `runProductionWork` callback by callback: the timeout
settles the answer but keeps the slot until the child has closed.

`ProductionPage` is the client's session: a step is sent with the references of
earlier answers, answered, refused or lost, and recovered by a repetition or by a
new identity. An identity is a number of attempts. An answer or a refusal is
merged into what its step holds by then (lines 301-303): sending a step clears its
result and its error, but a late answer can put a result beside an error and a late
refusal an error beside a result, which stays an input of the later steps. The rail
is what a client sees of it, one run per identity.

### SourceCapture

Both connectors are one module, told apart by `store`. A capture reads the intent
and what follows it, publishes its intent, takes a slot of the minute and one of the
day, contacts the provider, stores the bytes and writes a receipt. An inspection
reads the same files in the order of the store, which is not the order they are
written in, and `Judge` is what it makes of them. Time moves either way, since a
clock can be set. The budget of a minute is keyed by the minute in which a capture
was started, not by that of its contact; so is the property. A publication may throw
before or after its link. The census store then looks for the owner of a slot and
throws on when it is its own or nobody's. `claim` of the GPS store
(`samsara-store.ts:118-122`) only looks whether there is a file, so it takes a slot
of its own for lost: `Misreads` goes on to the next slot of the day, or to a denial,
and `misread` remembers whose slot it was. An inspection of the GPS store reads the
evidence before the receipt (`samsara-store.ts:223`), so that it can refuse a
capture that finishes meanwhile; the next one accepts it.

### SourceContact

`fetchSourceBytes` and `fetchSamsaraHistoryBytes` are one promise that is settled
by the first of many events: the answer of the name server, the deadline, errors
of the request, and the response with its data, its end and its loss. Each is an
action, guarded only by what Node can emit, so they race in every order, also
after both sockets were destroyed. `Fail` and `End` are what settles. A URL, an
address and the headers are abstracted to being acceptable, a body to its length.
`connector` says whether a credential is sent; `exposed` is a history variable,
and `ChangeVerification` the rest of the process, which may turn the verification
of certificates off between the check at the start and the one before the request.

### AsOfCorpus and CorpusFeed

`AsOfCorpus` is `queryAsOf` with what it uses, `deliverableRecords` and
`retractionsSince`, as operators on a corpus, which is a set of records and a set
of retractions. The two clocks are integers. The loop over candidates is
`SetAside`, the reason a candidate does not answer, and `Newest` of the others.
What the policy of a release allows is a set of sources per viewer, since it is
evaluated at the cutoff of the release, which does not change.

`CorpusFeed` is the database under it. `InsertRow` is one `insert` of the seed
script, with `onConflictDoNothing`; a seed may be killed at any row (`StopSeed`),
started again, or run beside another. A request is one select after another, two
rounds of them for a release (`ReadRelease` to `ReadRetractions`), and each sees
the rows that are there then. The corpus an answer was computed from is part of
`reply`, so that the properties can speak of it.

What the model shows also bounds what can be claimed. Before a seed has ended, a
release can be served without records it will have, and a withdrawn record
without its withdrawal, since its retraction is inserted last; that is why
`SettledAnswersAreTheFixtures` begins at the end of a seed. A fixture that grew is
outside of it: `onConflictDoNothing` keeps the old row of a record whose
correction was added later. And a direct candidate that does not answer keeps
linked records from being tried (`corpus.ts:482`), which `QueryAsOf` says too.

### ObservationReplay

The report and the page judge the same stamps by separate code. The row is
`CompileRow`, with its blockers; the chain is `CalibrationState` and `PoseState`.
A manifest has two clocks, each with an alignment or none, one observation and a
point or none. Transforms, covariances and comparisons are left out.

### EvidenceRail, ComputedRuns, SpatialAnalyses and GatAudit

These publish records that are inspected by being made again, as of the time
they carry. In `EvidenceRail` and `ComputedRuns` nothing is reserved: several
tasks make a record of one identity at once, one of them wins the link, and the
others answer with the winner's or refuse. In `SpatialAnalyses` and `GatAudit` a
reservation comes first and a receipt last, and only the task that reserved
works on it; what is there in between is incomplete for good. Policies are
records with the operations they permit and the time until which they do, and
every decision is an operator of a record and a time, used by the makers and by
the inspections. `GatAudit` also has the engine: `audit.lock`, the child process,
its 30 seconds, and an operator who removes a lock, live or stale.

One answer of `SpatialAnalyses` is never inspected again: `completedAt` is not
compared with the source's policy when a receipt is written (`service.ts:91`), so
a source whose permission ends during the analysis leaves a receipt that
inspections refuse. `ReceiptsInspect` states that exception.

`SpatialGraph` is what an analysis computes: the breadth-first search of
`analysis.ts`, one space per step, in the graph of the passages known to be open
and in the graph of those that may be. `ValidMeasures` is what an inspection
demands of the result.

### SpatialInquiryPage and EarthTwin

An action is an event together with the effects that React runs after it. In the
first, applying two identities aborts the requests in flight and asks again; an
answer that was already being read arrives anyway. In the second an engine
session starts loading, is replaced, and finds out when the engine has loaded;
the time of the selected record and the drawn positions are carried into
whichever viewer is current.

### Services, FilesAndPages, MCHistories and MCNotationStore

Systems that share no state with one another are explored by one run. `Services`
and `FilesAndPages` INSTANCE each of them over variables of its own and choose
`part` at first; only that part has its initial state and makes steps, the
variables of the others are `Nil` (or `None`) and stay so. Their properties name
the part they are about, and those of the same kind are stated as one. A
behaviour of the composite is thus a behaviour of one part, which is what the
last sections of `ServicesProofs` and `FilesAndPagesProofs` prove, so that a
theorem about a part is a theorem about what the run explores. `MCServices` gives
the instances of `Services` for TLC. `MCHistories` does the same with the kernel,
the feed, the commands a production rail refuses (`refusals`) and the search of
`SpatialGraph` (`graphs`); the last two live in `v1`, `v2` and so on, as their
INSTANCE says. `MCNotationStore` does it with the notation store, registrations of
the production rail (`registrations`) and repeated passes of a worker (`reviews`):
the three systems whose liveness is checked, each under the fairness of its own
`FairSpec`. Audits and spatial analyses both implement `RunsOnce`, whose
variables they keep to themselves.

## 3. Runs

| Run | Instance | Shows |
| --- | --- | --- |
| `histories` | the kernel with 4 identifiers, 2 contents, at most 2 notations, 1 relation, 7 commands; 2 seeds and 15 questions over 9 rows; 13 production commands, most of which are refused; rings of five spaces | the kernel refines `UndoHistory`, identifiers keep their meaning, the internal error is unreachable; answers of the feed are decided by what was known then and are the fixture's after a seed; readers accept the graphs of an analysis and what refused commands leave |
| `notation_store` | 2 tasks, 3 batches of which two share a command, 2 versions, kills, stale and live locks removed; 2 workers with 4 registrations that compete for names and room, stale locks removed; either review program, 1 process, 3 messages, one of them skipped; weak fairness | loads always succeed; confirmed saves stay; refinement of `CompareAndAppend`; every lock is given back; one writer and no uncertain save until a live lock is removed; the catalog stays within the limits of its readers; every call ends; every request is answered and acknowledged |
| `coordination_store` | 2 tasks, 6 commands, log of 3, kills, failing writes, stale and live locks removed | the log replays to a coherent board; refinement of `AppendOnlyBoard` and confirmed commands in effect until a live lock is removed |
| `reviews` | either program, 2 processes, 2 observations, page size 1, failures | no receipt without its result; one result per request; a complete scan leaves nothing behind |
| `production_flow` | 2 workers, capture, normalization and build, a registration under the identity of the capture, 3 intents, kills, failures, live locks removed | saved runs pass their readers and hide nothing; refinement of `RunsOnce` |
| `captures` | 2 processes, two connectors, 3 instants, a slot per minute and per day, kills, failures | the budgets hold; whatever is left behind passes every inspection, a denial beside an own slot excepted; refinement of `RunsOnce` |
| `services` | the parts of `Services`: 2 calls each; 3 audits, evidence of 5 policies, 6 records of the evidence rail, 3 calls for 2 worker slots, a contact with a body of at most 3 bytes | audits, computed runs, evidence and analyses pass every later inspection; reserved work is done once; one run per request; one engine; every living child has a slot; contacts end clean |
| `files_and_pages` | 2 tasks, 1 name, 2 contents of 2 parts, kills, failures; the pages of `FilesAndPages`; every manifest over 2 timelines and 2 instants | refinement of `WriteOnceMap`: nothing torn is read, nothing is replaced; drafts are kept, pages show what they asked for, a message is posted once; the page of a replay agrees with its report |
| `draft_discard` | two draft commands, 3 versions | a finding, below |
| `draft_stale` | two draft commands, 3 versions | a finding, below |
| `page_identity` | five steps, 2 attempts, 2 contents | a finding, below |
| `samsara_history` | that of `captures` | a finding, below |

The bounds are small on purpose and large enough for the interesting cases.

* In the kernel seven commands suffice to create two notations and a relation,
  undo past the relation, and edit on a discarded branch; the limits 2 and 1 are
  met.
* In the notation store a batch can be sent, lost, grown and sent again; two
  versions make the second save depend on the first and reach the version limit;
  two tasks and a removed lock are two writers in their critical section.
* On the board the second definition of a participant, two different posts under
  one request identifier, a reply and a receipt meet every rule of the ledger,
  and the limits on definitions, messages and log entries are reached.
* In the worker, page size 1 makes every page boundary a place where the pending
  set changes, and `Limit` and `MaxPages` cut passes short.
* A name of immutable files is independent of other names; two parts are what
  it takes for a file to be incomplete, two tasks for one publisher to meet
  another; a reader that sees two publishers takes a third, which
  `FilesAreWrittenOnce` covers for any number.
* In the rails two tasks are two makers of one record, and every identity is
  asked for with two different commands. `RailTimes`, `RunTimes` and so on are
  1 to 2, and policies end at 2 or 3, so that a permission ends before, during
  or after the work. `MaxIntents` and `MaxRegistrations` are met. A capture has
  three instants, the last one in the next day and after the end of the policy. With
  one slot of the day, a request that takes its own for lost is denied by the day; that
  it may find another slot instead, and is contacted with two, needs more, which
  `BudgetIsKept` and `HistoryAlwaysValidates` cover for any number.
* The corpus has a record that is corrected and one that is withdrawn between the
  two releases, a linked sample, and a source delivered by the second release
  only; questions are asked about every instant at which one of these changes.
  Two seeds are one that is killed and one that overtakes or repeats it. A contact
  may be sent one byte more than the limit. Intervals of one and two instants and
  offsets of 0 and 1 meet both ends of every window.
* A ring of five spaces gives the search two ways to every space, over passages
  of every kind that differs. The draft has two commands and three versions, so
  that a save can be lost, followed by another page's, and reach the limit; the
  composer has four drafts; the production page two attempts per step and two
  contents; the globe three sessions and two records, one of which has no
  position.

Deadlock is not checked where the system may really stop: a batch of the kernel
and a search end, and so do the refused commands (`histories`), captures use their
identities up (`captures`, `samsara_history`), a contact is over (`services`), and the
attempts on a page are counted (`files_and_pages`, `draft_discard`, `draft_stale`,
`page_identity`). Everywhere else a task can always begin again.

### Findings

Four runs expect a violation. Each shows a behaviour of the code that a document
of the repository, or a check in the code itself, denies.

* `draft_discard`: `docs/LOCAL_NOTATION_STATE_KERNEL.md:50` says that a reload
  which discards unsaved commands asks for confirmation. When the first load of a
  page failed, the commands of an earlier page are in the tab's copy and not in
  memory, so the button at `NotationWorkspace.tsx:411` reloads at once and line 236
  clears the copy.
* `draft_stale`: the same line says that pending commands are retained until a save
  succeeds, and `ConflictPanel.tsx:49` that keeping the drafts keeps them copyable.
  "Keep working with these drafts" on a stale copy restores its text only
  (`NotationWorkspace.tsx:433`), and the copy is overwritten: its commands are gone.
* `samsara_history`: `docs/SAMSARA_CONNECTOR.md:63` says that budget bindings are
  rechecked on inspection, and `samsara-store.ts:134-139` throws
  `SAMSARA_BUDGET_HISTORY_INVALID` for a denied request that has a slot of its own,
  its minute while the day is not full or a slot of the day. `claim` makes such
  records: after a publication that threw past its link
  (`local-files.ts:116-124`, when the temporary file cannot be removed) it finds its
  own file and takes the slot for lost (line 121). The request can then be neither
  inspected nor asked for again.
* `page_identity`: `docs/PRODUCTION_PATH.md:27` says that a request whose step is
  renamed keeps its identity and its receipt. A recovery by a new identity
  renames all later steps, also one that is in flight, and
  `ProductionPath.tsx:301` stores an answer by its step alone: the receipt of the
  old identity appears under the new one.

Three more observations have no property. `EarthTwin.tsx:287` replaces all
placements when a placement of all records ends, those made meanwhile included.
`ProductionPath.tsx:271` lets a late answer of the inspector replace a newer one.
`productionPipeline.ts:198` says that a superseded filing counts only until its
supersession, but `queryFilingsAsOf` never looks at `supersedesId` and returns it
for every later time too.

### Fairness

The three systems of `MCNotationStore` are checked under fairness. That something
must happen is stated as what is never the case for ever: a lock held by a running
save, a call not yet answered, a request on the board without its acknowledgement.
`NotationStore` and `ProductionRail` assume weak fairness of each task's own
steps: a running process gets processor time, file calls return, and the kernel
child is killed after ten seconds. Nothing is assumed of clients, kills or the
operator. `ReviewWorker` assumes that passes are started again and again (the
workers are run in a loop by their operator; without that a request simply
waits), that a running pass goes on, and that the server executes the command a
live worker is waiting for unless the call fails. Failures are finitely many
(`MaxFailures`), and the board has room for the results: on a full board
(`ledger.ts:112`) no worker can answer.

## 4. Proofs

TLAPS proves these for every value of the constants, under the assumptions
stated in the modules (limits are natural numbers, `None` is none of the other
values, and so on).

* `HistoriesProofs`, the kernel. The inductive invariant says that the snapshots of
  `timeline` and the two stacks fit: consecutive snapshots differ by the record
  between them, forward and backward, `document` is the snapshot at the cursor,
  every snapshot is valid, and every identifier in a snapshot is used and names
  what `origin` says. The stacks alone are not inductive: that a redo is safe
  needs to know which document its record was taken from. From it follow
  `KernelTypeCorrect`, `InternalErrorUnreachable`, `IdentifiersKeepTheirMeaning`
  and `KernelImplementsUndoHistory`.
* `NotationStoreProofs`. The first invariant does not mention the lock: what a
  task knows from its load is a prefix of the files, because files never change;
  an evaluated request fits the version after that prefix; and a published
  request is in place. It gives `HistoryAlwaysLoads`, `ConfirmationsAreKept` and
  `StoreImplementsCompareAndAppend` whatever the operator removes. The second
  invariant says that, until a live lock is removed, tasks past their lock own
  it; it gives `LockAdmitsOneWriter` and `NoSaveIsUncertain`, without an
  assumption on `LockRemoval`.
* `CoordinationLedgerProofs`, about boards and commands alone. An accepted
  command keeps a coherent board coherent (`CommandsKeepCoherence`), is in effect
  afterwards (`CommandTakesEffect`), and takes no earlier command out of effect
  (`EffectsLast`). The last is the idempotency of retries: it needs that a board
  only grows, and that a full board or a second definition refuses new commands
  but never one that was applied.
* `CoordinationStoreProofs`. First, `Board(log)` is well defined and
  `Board(Append(log, c))` is one command more. Then, as in the notation store, an
  invariant that does not mention the lock: the file, and every log a task is
  about to replace it with, is `Good` (it can be replayed, to a coherent board).
  It gives `LogAlwaysReplays` and `BoardStaysCoherent` even when live locks are
  removed: updates may be lost, but what is left is a log. A second invariant
  says that, until a live lock is removed, a task past its lock owns it and the
  log it loaded is still the file. With `EffectsLast` this gives
  `ConfirmationsStayInEffect` and `StoreImplementsAppendOnlyBoard`.
* `HistoriesProofs`, corpora alone. An answer read from the whole corpus is the
  answer read from `UpTo`, the corpus of the records and retractions known at the
  knowledge time (`NoLookAhead`). A record keeps the id of a later correction or
  withdrawal, as it is delivered (`deliveredRecord.ts:38`), so the claim is not that
  an answer is silent about what follows but that nothing it decides (which record
  answers, its status, its refusal) depends on it: each operator of the query looks
  at a record or a retraction only beside a comparison with that time. Hence two
  releases that deliver alike answer an earlier question alike
  (`ReleasesKeepThePast`).
* `HistoriesProofs`, the feed. The inductive invariant says that whatever a seed has passed
  is stored, that all rows are once a seed has ended, and that a request has read
  part of the fixture, all of it when a seed had ended before it began. With
  `NoLookAhead` it gives `FeedLooksNoFurther`, and by itself
  `SeededFeedIsTheFixture`, for any fixture, questions and number of seeds. The
  hypothesis is `WellFormed`: instants are integers, there is a corpus, and no
  release is `Nil`.
* `ReviewWorkerProofs`. Messages and definitions on a board never change
  (`BoardGrows` of the ledger), so what a process knows of them stays true however
  late its command is executed. `WorkInv` says that the board is coherent, that a
  page holds messages of it, and which command a process waits for at each place.
  `ReceiptInv`, that whatever acknowledgement is on the board or in flight, the
  result of its request is on the board, gives `ReceiptsHaveResults`; `ResultInv`,
  that each result carries the identifier of its request, also in flight, gives
  `OneResultPerRequest` with the ledger's rule for request identifiers; `ScanInv`,
  that a request to be answered is on the page of a scan or behind its cursor,
  gives `CompleteScansLeaveNothing`. The last needs how a set
  is cut into pages, which `InboxLeavesNothingBehind` states. Two assumptions say
  what the workers rely on, since the board does not authenticate: no other client
  acknowledges (`ReceiptAssumption`) or posts (`ResultAssumption`) in the
  reviewer's name.
* `ProductionRailProofs`. `WorkInv` says that a worker past its claim is the only
  one on its request, which is bound to its command and has no run yet, and what
  has been made, put out and staged at each place. With it, the claim by a
  create-only intent alone, without the lock, gives `ProductionRunsOnce`. `ReadInv`
  adds what a reader will demand: registered sources fit, what is stored is the
  artifact of its command, a saved run is `GoodRun`, and a draft is at each place
  such that both its success and every failure from there would be. The catch block
  is the hard part: `FailedIsGood` follows `Failed` through every kind of command,
  with the retained output found, absent or unreadable, into the case analysis of
  `validateFailedOutcome`. That a run stays readable needs that artifacts, contents
  and registrations are never taken back (`Grows`). It gives
  `RunsShowTheirArtifacts`. `CapacityInv` says that between creating and removing
  `catalog.lock` a worker holds it, so that a count made there is still right when
  the intent or the registration is published. With the other two it gives
  `CatalogKeepsAnswering`, under the hypothesis that the operator removes no lock of
  a running reservation; the lock is only needed for the two limits, the rest holds
  without that hypothesis (`ReadInvAnswers`).
* `ServicesProofs`, captures. `CaptureInv` says that the call which published an
  intent is alone in working on it, what such a call has paid and stored at each of
  its places, what the files of each identity say together (nothing without an
  intent, no contact that is not paid for), and what each inspection has already
  read, in the order of its store. `Fits` is that a record passes its checks, or is
  the denial of a GPS request beside its own minute, which only an identity in
  `misread` has. It gives `BudgetIsKept`, where the slots of a day are counted by
  the injection of identities into slots (`DayIsBounded`), `HistoryAlwaysValidates`,
  for readers in the middle of a capture too, and `CapturesRunOnce`.
* `ServicesProofs`, the audits. `EngineInv` ties a running engine to `audit.lock`:
  whoever spawns holds the lock, and a killed call leaves its engine behind a stale
  one. `ClaimsInv` says that one call works on a reservation, the one that created
  it; `ReceiptsInv` that a receipt closes the reservation of its identity with the
  gates as they were judged, with both artifacts stored when it says `COMPLETED`.
  Neither reading is enough by itself: a receipt recomputes because what is
  retained stays (`GatesStay`), and a call knows at every later place what it
  judged at the gates (`RecordAt`). They give `OneEngineAtATime`,
  `AuditHistoryRecomputes` and `AuditsRunOnce`.
* `ServicesProofs`, the compute stores. Nothing is reserved, so the invariant
  `RunsInv` has to say of a run that is still to be published that it was made of
  its request and of evidence that was then allowed (`MadeOf`), and of every answer
  that it is the published run, made of the same request (`Answered`); the loser of
  a race answers with the winner's run only when it recomputes. It gives
  `RunsAreUnique` and `SavedRunsRecompute`.
* `ServicesProofs`, the spatial analyses. `ReservationsInv` says that a call at work
  created its reservation and is alone with it, `SourcesInv` that the layers it
  checked are still what they were. They give `AnalysisReceiptsInspect`, with the
  exception of a clock set back (`service.ts:91` compares no two of its readings of the
  clock, and no document promises an order), and `AnalysesRunOnce`.
* `ServicesProofs`, the evidence rail. `FileInv` says that a record has all that it
  refers to, the bytes of a capture included, `DraftInv` that a call which has not
  yet published found the same, `ToldInv` what callers heard. That an inspection
  succeeds later rests on `RailGrows`: neither bytes nor records are replaced, and
  policies are judged as of the time in the record. It gives `RailRecordsInspect`.
* `ServicesProofs`, the worker slots and a contact. `WorkersInv` counts the calls
  that hold a slot, and whoever has a child holds one, also after its timeout.
  `ContactInv` says that the deadline is armed exactly while the promise is
  pending, that no socket is open once it has failed, and how a body, its length and
  its end fit; `ContactFails` is the lemma that each of the ways to fail keeps it.
  They give `WorkersHaveSlots` and `ContactsClose`.
* `FilesAndPagesProofs`, immutable files. `FilesInv` says that a name leads to a
  complete file, that the temporary file of a call is its own and has no name while
  it is being written, that a reader has open what the name still leads to, and that
  a call about to answer `CREATED` linked its own file. None is inductive without
  the others: a link is safe because the file behind it is finished, which holds
  because nobody else writes it. It gives `FilesAreWrittenOnce`, the refinement of
  `WriteOnceMap`, for any number of calls, parts and kills; and
  `FilesOfAllPartsAreWrittenOnce`, the same of `FilesAndPages`.
* `FilesAndPagesProofs`, the draft. That no accepted command is lost (`WorkInv`) is
  inductive only with what every request in flight carries (`RequestInv`), with the
  copy in the tab (`CopyInv`), and with what is known before the first answer
  (`PhaseInv`): a restored copy is in the request, not in memory, until it has been
  validated. It gives `DraftsAreKept`, with the three exemptions of `WorkIsKept`.
  For the composer, `ComposerInv` says that what is posted is the draft on the form,
  and that a message on the board which has the number of the draft has its text and
  identity; it gives `MessagesArePostedOnce`. Together they are
  `DraftsAndMessagesAreKept`.
* `FilesAndPagesProofs`, the other pages. `InquiryInv` says that answers are kept with
  the ids they were asked for, `TwinInv` which session a viewer, a load and a
  placement belong to, `PageInv` that a step's result, if it has one, is a run of
  that step, whatever its error, and that what a command in flight refers to are receipts
  of completed runs, `ReplayInv` that the row
  was compiled of the manifest on the page. They give `PagesShowWhatTheyAskedFor`,
  `PageReferencesAreReceipts` and `ReplaysAgree`, where `RowsAgree` compares the
  two readings of one manifest, for any clock with integer instants.

The last sections of `ServicesProofs` and `FilesAndPagesProofs` put the parts
together. A behaviour of the composite either satisfies the specification of a
part or never is that part (`PartIsAudits`, `PartIsDraft` and so on), so that what
was proved of each part is an invariant, or an action property, of the whole:
these are the theorems that state the properties of the runs.

Type correctness is a theorem of its own where a module's `TypeOK` is one
(`KernelTypeCorrect`, `StoreTypeCorrect`, `FilesTypeCorrect`,
`BoardStoreTypeCorrect`, `WorkersTypeCorrect`, `RailTypeCorrect`,
`CaptureTypeCorrect`) and elsewhere the first conjunct of the inductive invariant
(`AuditsTypeOK`, `RunsTypeOK` and so on); it is not checked by a run again. The
feed, whose rows are arbitrary records, has none.

The assumptions on constants are what the code makes of its inputs or what its
constants are, and TLC evaluates them for the instances: `SeedAssumption` on the
constant of `seed.ts`; `CommandAssumption`, that commands have passed
`parseProductionCommand`; `RegisteredAssumption`, that the catalog can be listed
at first; `AbsentAssumption`, that an absent record is none of the others; and
`PartsAssumption`, which collects those of the parts: requests name sources,
times are integers, an absent value is none of the others.

Model-checked only:

* the liveness properties (`LockIsReleased`, and `EveryRequestIsAnswered` and
  `EveryCallIsAnswered` of `MCNotationStore`), since fairness and `ENABLED` are out
  of the prover's reach;
* `AnalysesAreReadable`, a conjunct of `ReadersAccept`: that the depths of a search are
  shortest ways, and that their sum is what is saved, is induction over the length
  of a way and over a fold;
* what a replay of the kernel or a digest computes for every input, which is
  induction over data too.

The other conjunct of `ReadersAccept`, for refused commands, is `CatalogKeepsAnswering`
with other constants.

## 5. Not modelled

* Parsing, schema checks, digests and encodings: two records are equal exactly
  when their contents are.
* HTTP routes, the MCP server, command lines, the shapes of the feed's payloads and
  the adapters of providers, which check one request and keep nothing; the Python
  client, which no worker here uses.
* The floating-point algorithms under `src/compute` and `src/domain`, which
  integer model checking does not reach. The stores around them are modelled.
* The cases and rulings of the seed script and of `caseSource.ts`, which are
  inserted and read the way the corpus is and have no clock to look past.
* Fixtures, catalogues, types and the pages that only render them.
* The compilers of projections and the comparison of two builds: pure functions
  of one input that store nothing.
* The inspector and the catalog list of the production page; the camera and the
  sun of the globe.
* Power loss: the code flushes files before it links or renames them and claims
  no more than recovery from a killed process (`local-files.ts:78-82`).

`PROJECT.json` gives the reason for each component.

## 6. Plan

1. The inspector of the production page, and the comparison of builds over
   `EvidenceRail`.
2. The cases and rulings of the feed, with their own selects.
3. The geometry of a placed point in `ObservationReplay`, as integers.
