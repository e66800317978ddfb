-------------------------- MODULE ProductionRail --------------------------
(***************************************************************************)
(* The local production rail, production/store.ts: execute() and catalog() *)
(* of worker processes on one evidence folder.  A request is bound by an   *)
(* intent before its stages run and closed by a run afterwards; both, and  *)
(* the artifact a request makes in between, are immutable files            *)
(* (ImmutableFiles), so publishing one is a step that succeeds, or fails   *)
(* without or with the file being there.  catalog.lock only guards         *)
(* counting and publishing.                                                *)
(*                                                                         *)
(* An artifact is known by the request that makes it; digests, which       *)
(* repeat it, and instants, of which every artifact carries the one of its *)
(* intent, are left out.  Reading fails now and then, but nothing is       *)
(* corrupted for good, and what a source permits does not change.          *)
(***************************************************************************)
EXTENDS Naturals, Sequences, FiniteSets

CONSTANTS
  Tasks,            \* execute() calls that may run at the same time
  Commands,         \* the commands clients send
  Names,            \* identifiers of corpora and sources
  Registered,       \* the corpora and sources that are registered at first
  None,             \* no command, no record
  Decoded,          \* "CANDIDATE", "REJECTED" or "UNREADABLE", by content
  MaxIntents,       \* 128 requests
  MaxRegistrations, \* 64 corpora, and 64 sources
  MayFail,          \* whether calls of the file system may fail
  MayCrash,         \* whether a process may be killed
  LockRemoval       \* which locks the operator removes: {}, {"stale"}, or
                    \* {"stale", "live"}

IntentIds == {c.id : c \in Commands}

SourceContents == DOMAIN Decoded

\* References to what a command reads and makes, the stages it reports, and the
\* runs it can end with.
Refs == {"CORPUS", "SOURCE"} \X Names
          \cup {"CONTENT"} \X SourceContents
          \cup {"ACQUISITION", "NORMALIZATION", "CANDIDATE_BUILD"} \X IntentIds

StageNames ==
  {"REGISTRATION", "CAPTURE", "EVIDENCE_INSPECTION", "EXTRACTION", "NORMALIZATION",
   "CANDIDATE_ASSEMBLY", "BUILD_INSPECTION"}

Stages == [stage : StageNames,
           state : {"COMPLETED", "QUARANTINED", "NOT_RUN", "FAILED"},
           outputs : Seq(Refs)]

Codes ==
  {"none", "STAGE_FAILED", "PRODUCTION_BUSY", "STORED_RECORD_INVALID", "CATALOG_CAPACITY",
   "REGISTRATION_CONFLICT", "REFERENCE_NOT_FOUND", "REFERENCE_MISMATCH", "PURPOSE_NOT_DECLARED",
   "OPERATION_UNAVAILABLE", "INGEST_DISALLOWED", "DERIVATION_DISALLOWED", "MEMBER_NOT_ELIGIBLE",
   "SOURCE_BINDING_MISMATCH", "SOURCE_IDENTITY_CONFLICT", "EVIDENCE_INTEGRITY_FAILED",
   "DEPENDENCY_INTEGRITY_FAILED"}

Said == {"yes", "no", "UNCONFIRMED"}

Runs == [outputs : Seq(Refs), stages : Seq(Stages), code : Codes,
         state : {"none", "COMPLETED", "QUARANTINED", "FAILED"},
         artifact : Said, receipt : Said, additional : BOOLEAN]

Artifacts ==
  [kind : {"ACQUISITION"}, source : Names, content : SourceContents]
    \cup [kind : {"NORMALIZATION"}, source : Names, acquisition : IntentIds,
          decoded : {"CANDIDATE", "REJECTED", "UNREADABLE"}]
    \cup [kind : {"CANDIDATE_BUILD"}, members : Seq(IntentIds)]

\* parseProductionCommand: what it lets through.
IsSpec(spec) ==
  /\ spec # None
  /\ spec.kind \in {"CORPUS", "SOURCE"}
  /\ spec.kind = "SOURCE" => spec.corpus \in Names

IsCommand(c) ==
  \/ c.kind = "REGISTER" /\ c.name \in Names /\ IsSpec(c.spec)
  \/ c.kind = "ACQUIRE" /\ c.source \in Names /\ c.content \in SourceContents
  \/ c.kind = "NORMALIZE" /\ c.source \in Names /\ c.acquisition \in IntentIds
  \/ c.kind = "BUILD_CANDIDATES" /\ c.corpus \in Names /\ c.members \in Seq(IntentIds) \ {<< >>}

ASSUME CommandAssumption ==
  /\ \A c \in Commands : IsCommand(c)
  /\ Decoded \in [SourceContents -> {"CANDIDATE", "REJECTED", "UNREADABLE"}]
  /\ None \notin Commands
  /\ None \notin Runs
  /\ None \notin Artifacts

\* The catalog at first is one that can be listed.
ASSUME RegisteredAssumption ==
  /\ DOMAIN Registered \subseteq Names
  /\ IsFiniteSet(DOMAIN Registered)
  /\ \A kind \in {"CORPUS", "SOURCE"} :
       Cardinality({n \in DOMAIN Registered : Registered[n].kind = kind}) <= MaxRegistrations
  /\ \A n \in DOMAIN Registered :
       LET spec == Registered[n] IN
       /\ IsSpec(spec)
       /\ spec.kind = "SOURCE" =>
            /\ spec.corpus \in DOMAIN Registered
            /\ Registered[spec.corpus].kind = "CORPUS"
            /\ spec.adapter = Registered[spec.corpus].record

ASSUME RailAssumption ==
  /\ MaxIntents \in Nat
  /\ MaxRegistrations \in Nat
  /\ MayFail \in BOOLEAN
  /\ MayCrash \in BOOLEAN
  /\ LockRemoval \subseteq {"stale", "live"}

\* States of catalog.lock other than being held by a task.
Free == "free"
Stale == "stale"

ASSUME RailTasksAreNotLockStates == Free \notin Tasks /\ Stale \notin Tasks

VARIABLES
  intents,          \* the command each request identity is bound to, or None
  runs,             \* the run of each request identity, or None
  registry,         \* what is registered under each name, or None
  contents,         \* the contents in the object store
  made,             \* the capture, normalization or build of each request
  lock,             \* Free, Stale, or the task that created catalog.lock
  pc,               \* where each task is
  command,          \* the command each task serves
  draft,            \* the outputs, stages and failure of the run being made
  starts,           \* history: how often the stages of a request were started
  told              \* history: the commands and runs told to clients

stored == <<intents, runs, registry, contents, made>>
vars == <<stored, lock, pc, command, draft, starts, told>>

-----------------------------------------------------------------------------
(* Registrations, artifacts and references to them.                        *)
Known(kind, n) == registry[n] # None /\ registry[n].kind = kind

Count(kind) == Cardinality({n \in Names : Known(kind, n)})

IntentCount == Cardinality({i \in IntentIds : intents[i] # None})

\* A source fits the corpus it names: fixed adapter, class and coverage.
Binds(spec) ==
  /\ Known("CORPUS", spec.corpus)
  /\ spec.adapter = registry[spec.corpus].record

Usable(s) == Known("SOURCE", s) /\ Binds(registry[s])

Declares(corpus, purpose) == purpose \in registry[corpus].uses

Permits(s, operation, purpose) == <<operation, purpose>> \in registry[s].allows

Ref(kind, id) == <<kind, id>>

\* What a command makes.
Artifact(c) ==
  CASE c.kind = "ACQUIRE" ->
         [kind |-> "ACQUISITION", source |-> c.source, content |-> c.content]
    [] c.kind = "NORMALIZE" ->
         [kind |-> "NORMALIZATION", source |-> c.source, acquisition |-> c.acquisition,
          decoded |-> Decoded[made[c.acquisition].content]]
    [] c.kind = "BUILD_CANDIDATES" -> [kind |-> "CANDIDATE_BUILD", members |-> c.members]

Own(c) ==
  CASE c.kind = "REGISTER" -> << Ref(c.spec.kind, c.name) >>
    [] c.kind = "ACQUIRE" -> << Ref("ACQUISITION", c.id) >>
    [] c.kind = "NORMALIZE" -> << Ref("NORMALIZATION", c.id) >>
    [] c.kind = "BUILD_CANDIDATES" -> << Ref("CANDIDATE_BUILD", c.id) >>

Upstream(c) ==
  CASE c.kind \in {"REGISTER", "ACQUIRE"} -> << >>
    [] c.kind = "NORMALIZE" -> << Ref("ACQUISITION", c.acquisition) >>
    [] c.kind = "BUILD_CANDIDATES" ->
         [i \in DOMAIN c.members |-> Ref("NORMALIZATION", c.members[i])]

\* discoverRetained: what a request left behind that can be verified.
Retained(c) ==
  IF c.kind = "REGISTER" THEN IF registry[c.name] = c.spec THEN Own(c) ELSE << >>
  ELSE IF made[c.id] # None THEN Own(c)
  ELSE IF c.kind = "ACQUIRE" /\ c.content \in contents THEN << Ref("CONTENT", c.content) >>
  ELSE << >>

Exists(ref) ==
  CASE ref[1] \in {"CORPUS", "SOURCE"} -> Known(ref[1], ref[2])
    [] ref[1] = "CONTENT" -> ref[2] \in contents
    [] OTHER -> made[ref[2]] # None /\ made[ref[2]].kind = ref[1]

Kinds(refs) == {refs[i][1] : i \in DOMAIN refs}

HasReceipt(refs) == Kinds(refs) \cap {"ACQUISITION", "NORMALIZATION", "CANDIDATE_BUILD"} # {}

HasArtifact(refs) == HasReceipt(refs) \/ "CONTENT" \in Kinds(refs)

-----------------------------------------------------------------------------
(* Runs, and the checks a reader makes of them.                            *)
Stage(name, state, refs) == [stage |-> name, state |-> state, outputs |-> refs]
Done(name, refs) == Stage(name, "COMPLETED", refs)

\* The stages of a command that did not fail.
FinalStages(c) ==
  CASE c.kind = "REGISTER" -> << Done("REGISTRATION", Own(c)) >>
    [] c.kind = "ACQUIRE" -> << Done("CAPTURE", Own(c)), Stage("EXTRACTION", "NOT_RUN", << >>) >>
    [] c.kind = "NORMALIZE" ->
         LET decoded == made[c.id].decoded IN
         << Done("EVIDENCE_INSPECTION", Upstream(c)),
            Stage("EXTRACTION",
                  IF decoded = "UNREADABLE" THEN "QUARANTINED" ELSE "COMPLETED", Own(c)),
            Stage("NORMALIZATION",
                  CASE decoded = "CANDIDATE" -> "COMPLETED"
                    [] decoded = "REJECTED" -> "QUARANTINED"
                    [] decoded = "UNREADABLE" -> "NOT_RUN", Own(c)) >>
    [] c.kind = "BUILD_CANDIDATES" ->
         << Done("CANDIDATE_ASSEMBLY", Own(c)), Done("BUILD_INSPECTION", Own(c)) >>

FinalState(c) ==
  IF c.kind = "NORMALIZE" /\ made[c.id].decoded # "CANDIDATE" THEN "QUARANTINED" ELSE "COMPLETED"

\* validateOutcome, of a run that did not fail.
FinishedAsExpected(c, r) ==
  /\ r.outputs = Upstream(c) \o Own(c)
  /\ Retained(c) = Own(c) /\ (c.kind # "REGISTER" => made[c.id] = Artifact(c))
  /\ r.stages = FinalStages(c)
  /\ r.state = FinalState(c)

\* validateFailedOutcome: the stages before the failed one, and the outputs,
\* that a failure of this command can have left.
FailedAsExpected(c, r) ==
  LET n == Len(r.stages)
      prefix == SubSeq(r.stages, 1, n - 1)
      failed == r.stages[n].stage
      built == Kinds(r.outputs) \cap {"CANDIDATE_BUILD"} # {}
      k == IF built THEN Len(r.outputs) - 1 ELSE Len(r.outputs) IN
  CASE c.kind = "REGISTER" -> prefix = << >> /\ failed = "REGISTRATION" /\ r.outputs = << >>
    [] c.kind = "ACQUIRE" ->
         /\ prefix = << >> /\ failed = "CAPTURE"
         /\ r.outputs # << >> => r.code = "STAGE_FAILED" /\
              r.outputs \in {Retained(c), << Ref("CONTENT", c.content) >>}
         /\ r.code = "INGEST_DISALLOWED" => ~ Permits(c.source, "INGEST", c.purpose)
    [] c.kind = "NORMALIZE" ->
         \/ prefix = << >> /\ failed = "EVIDENCE_INSPECTION" /\ r.outputs = << >>
         \/ /\ prefix = << Done("EVIDENCE_INSPECTION", Upstream(c)) >>
            /\ failed = "NORMALIZATION"
            /\ r.outputs \in {Upstream(c), Upstream(c) \o Retained(c)}
            /\ Len(r.outputs) = 2 =>
                 ~ r.additional /\ r.code \in {"STAGE_FAILED", "DEPENDENCY_INTEGRITY_FAILED"}
            /\ r.code = "DERIVATION_DISALLOWED" => ~ Permits(c.source, "DERIVE", c.purpose)
    [] c.kind = "BUILD_CANDIDATES" ->
         /\ k <= Len(c.members) /\ SubSeq(r.outputs, 1, k) = SubSeq(Upstream(c), 1, k)
         /\ built => k = Len(c.members) /\ ~ r.additional /\ << r.outputs[k + 1] >> = Retained(c)
         /\ \/ /\ prefix = << >> /\ failed = "CANDIDATE_ASSEMBLY"
               /\ built => r.code = "STAGE_FAILED"
            \/ /\ prefix = << Done("CANDIDATE_ASSEMBLY", IF built THEN Own(c) ELSE << >>) >>
               /\ failed = "BUILD_INSPECTION"
               /\ k = Len(c.members) /\ (built \/ r.additional)
         /\ r.code = "MEMBER_NOT_ELIGIBLE" =>
              ~ built /\ k > 0 /\ made[c.members[k]].decoded # "CANDIDATE"

\* run(): what execute() and catalog() accept as the run of command c.
Readable(c, r) ==
  /\ \A i \in DOMAIN r.outputs : Exists(r.outputs[i])
  /\ \/ r.state # "FAILED" /\ FinishedAsExpected(c, r)
     \/ /\ r.state = "FAILED"
        /\ (r.receipt = "yes") = HasReceipt(r.outputs)
        /\ (r.artifact = "yes") = HasArtifact(r.outputs)
        /\ r.additional => c.kind \in {"NORMALIZE", "BUILD_CANDIDATES"}
        /\ FailedAsExpected(c, r)

-----------------------------------------------------------------------------
At(t, place) == pc[t] = place
Goto(t, place) == pc' = [pc EXCEPT ![t] = place]

NoDraft == [outputs |-> << >>, stages |-> << >>, code |-> "none", state |-> "none",
            artifact |-> "no", receipt |-> "no", additional |-> FALSE]

\* The call is over: its caller got an answer that is not a run.
Rest(t) ==
  /\ Goto(t, "idle")
  /\ command' = [command EXCEPT ![t] = None]
  /\ draft' = [draft EXCEPT ![t] = NoDraft]

Refuse(t) == Rest(t) /\ UNCHANGED told

Answer(t, r) == Rest(t) /\ told' = told \cup {<<command[t], r>>}

Proceed(t, place) == Goto(t, place) /\ UNCHANGED <<command, draft, told>>

\* Go on, with what has been put out so far.
Note(t, place, outputs, stages) ==
  /\ Goto(t, place)
  /\ draft' = [draft EXCEPT ![t].outputs = outputs, ![t].stages = stages]
  /\ UNCHANGED <<command, told>>

\* The stage throws, with these outputs: the catch block is next.
FailWith(t, code, outputs) ==
  /\ Goto(t, "failed")
  /\ draft' = [draft EXCEPT ![t].code = code, ![t].outputs = outputs]
  /\ UNCHANGED <<command, told>>

Fail(t, code) == FailWith(t, code, draft[t].outputs)

-----------------------------------------------------------------------------
(* execute(): lookup and claim.                                            *)

\* A client sends a command, for the first time or again.
Begin(t, c) ==
  /\ At(t, "idle")
  /\ Goto(t, "lookup")
  /\ command' = [command EXCEPT ![t] = c]
  /\ UNCHANGED <<stored, lock, draft, starts, told>>

\* A command that is refused before it is claimed.
Unclaimable(c) ==
  /\ c.kind = "REGISTER"
  /\ \/ c.spec.kind = "SOURCE" /\ ~ Binds(c.spec)
     \/ registry[c.name] = None /\ Count(c.spec.kind) >= MaxRegistrations

\* A prior intent answers for the request: REQUEST_CONFLICT, its run, or
\* OPERATION_INCOMPLETE.
Lookup(t) ==
  /\ At(t, "lookup")
  /\ LET c == command[t] IN
       \/ MayFail /\ Refuse(t)
       \/ intents[c.id] \notin {None, c} /\ Refuse(t)
       \/ /\ intents[c.id] = c
          /\ IF runs[c.id] # None /\ Readable(c, runs[c.id])
             THEN Answer(t, runs[c.id]) ELSE Refuse(t)
       \/ intents[c.id] = None /\ Unclaimable(c) /\ Refuse(t)
       \/ intents[c.id] = None /\ ~ Unclaimable(c) /\ Proceed(t, "claim")
  /\ UNCHANGED <<stored, lock, starts>>

\* Without a claim, the command is looked up again if there is an intent now.
Again(t) ==
  IF intents[command[t].id] # None THEN Proceed(t, "lookup") ELSE Refuse(t)

\* Mutant: a reservation does not mind that catalog.lock exists.
TakeLockAnyway(t) ==
  /\ lock' = t
  /\ \/ At(t, "claim") /\ Proceed(t, "claiming")
     \/ At(t, "register") /\ Proceed(t, "registering")
  /\ UNCHANGED <<stored, starts>>

\* Mutant: a reservation waits for catalog.lock to go away.
TakeLockWaiting(t) ==
  /\ lock = Free
  /\ lock' = t
  /\ \/ At(t, "claim") /\ Proceed(t, "claiming")
     \/ At(t, "register") /\ Proceed(t, "registering")
  /\ UNCHANGED <<stored, starts>>

\* reserved(): open(catalog.lock, 'wx'), for the intent and for a registration.
TakeLock(t) ==
  /\ \/ /\ lock = Free /\ IntentCount <= MaxIntents
        /\ lock' = t
        /\ \/ At(t, "claim") /\ Proceed(t, "claiming")
           \/ At(t, "register") /\ Proceed(t, "registering")
     \/ /\ lock # Free \/ IntentCount > MaxIntents \/ MayFail
        /\ UNCHANGED lock
        /\ \/ At(t, "claim") /\ Again(t)
           \/ At(t, "register") /\ Fail(t, "PRODUCTION_BUSY")
  /\ UNCHANGED <<stored, starts>>

Claim(t) ==
  /\ At(t, "claiming")
  /\ \/ /\ intents[command[t].id] # None \/ IntentCount >= MaxIntents \/ MayFail
        /\ Proceed(t, "unclaimed")
     \/ /\ intents[command[t].id] = None /\ IntentCount < MaxIntents
        /\ Proceed(t, "intending")
  /\ UNCHANGED <<stored, lock, starts>>

\* Mutant: whoever finds the intent there has claimed the request too.
PublishIntentUnnoticed(t) ==
  /\ At(t, "intending")
  /\ intents' = IF intents[command[t].id] = None
                THEN [intents EXCEPT ![command[t].id] = command[t]] ELSE intents
  /\ Proceed(t, "claimed")
  /\ UNCHANGED <<runs, registry, contents, made, lock, starts>>

\* The intent is published, create-only.
PublishIntent(t) ==
  /\ At(t, "intending")
  /\ \/ /\ intents[command[t].id] = None
        /\ intents' = [intents EXCEPT ![command[t].id] = command[t]]
        /\ \E place \in {"claimed"} \cup (IF MayFail THEN {"unclaimed"} ELSE {}) : Proceed(t, place)
     \/ /\ intents[command[t].id] # None \/ MayFail
        /\ UNCHANGED intents
        /\ Proceed(t, "unclaimed")
  /\ UNCHANGED <<runs, registry, contents, made, lock, starts>>

\* lock.close() and unlink: whoever created the file now there.  When it is
\* gone, or cannot be removed, that error replaces the outcome.
Unlink == lock # Free /\ lock' = Free
UnlinkFails ==
  \/ lock = Free /\ UNCHANGED lock
  \/ lock # Free /\ MayFail /\ lock' = Stale

ReleaseClaim(t) ==
  /\ \/ /\ At(t, "claimed") /\ Unlink
        /\ starts' = [starts EXCEPT ![command[t].id] = @ + 1]
        /\ Proceed(t, "stage")
     \/ At(t, "claimed") /\ UnlinkFails /\ Again(t) /\ UNCHANGED starts
     \/ At(t, "unclaimed") /\ (Unlink \/ UnlinkFails) /\ Again(t) /\ UNCHANGED starts
  /\ UNCHANGED stored

-----------------------------------------------------------------------------
(* execute(): the stages.                                                  *)

\* What has to hold before a command reads or publishes anything of its own.
Requirement(c) ==
  LET from(corpus, more) ==
        IF ~ Declares(corpus, c.purpose) THEN "PURPOSE_NOT_DECLARED" ELSE more
      of(source, more) ==
        IF ~ Usable(source) THEN "REFERENCE_NOT_FOUND" ELSE from(registry[source].corpus, more)
  IN CASE c.kind = "REGISTER" -> "OK"
       [] c.kind = "BUILD_CANDIDATES" ->
            IF ~ Known("CORPUS", c.corpus) THEN "REFERENCE_NOT_FOUND"
            ELSE from(c.corpus, IF registry[c.corpus].record = "Carrier" THEN "OK"
                                ELSE "OPERATION_UNAVAILABLE")
       [] c.kind = "ACQUIRE" ->
            of(c.source, IF Permits(c.source, "INGEST", c.purpose) THEN "OK"
                         ELSE "INGEST_DISALLOWED")
       [] c.kind = "NORMALIZE" ->
            of(c.source, IF Exists(Upstream(c)[1]) THEN "OK" ELSE "REFERENCE_NOT_FOUND")

BeginStage(t) ==
  /\ At(t, "stage")
  /\ LET c == command[t] IN
       \/ Requirement(c) # "OK" /\ Fail(t, Requirement(c))
       \/ MayFail /\ Fail(t, "STORED_RECORD_INVALID")
       \/ /\ Requirement(c) = "OK"
          /\ \/ c.kind = "REGISTER" /\ Proceed(t, "register")
             \/ c.kind = "ACQUIRE" /\ Proceed(t, "bytes")
             \/ c.kind = "NORMALIZE" /\
                  Note(t, "bind", Upstream(c), << Done("EVIDENCE_INSPECTION", Upstream(c)) >>)
             \/ c.kind = "BUILD_CANDIDATES" /\ Proceed(t, "bind")
  /\ UNCHANGED <<stored, lock, starts>>

\* registerReserved, under catalog.lock.
Register(t) ==
  /\ At(t, "registering")
  /\ LET c == command[t]
         refusal ==
           IF registry[c.name] \notin {None, c.spec} THEN "REGISTRATION_CONFLICT"
           ELSE IF registry[c.name] = None /\ Count(c.spec.kind) >= MaxRegistrations
           THEN "CATALOG_CAPACITY" ELSE "none" IN
       \/ /\ refusal = "none"
          /\ registry' = [registry EXCEPT ![c.name] = c.spec]
          /\ Proceed(t, "registered")
       \/ \E code \in {refusal} \cup IF MayFail THEN {"STAGE_FAILED"} ELSE {} :
            /\ code # "none"
            /\ draft' = [draft EXCEPT ![t].code = code]
            /\ Goto(t, "registered")
            /\ UNCHANGED <<registry, command, told>>
  /\ UNCHANGED <<intents, runs, contents, made, lock, starts>>

Finish(t) ==
  LET c == command[t] IN
  /\ Goto(t, "save")
  /\ draft' = [draft EXCEPT ![t].outputs = Upstream(c) \o Own(c), ![t].stages = FinalStages(c),
                            ![t].state = FinalState(c), ![t].artifact = "yes", ![t].receipt = "yes"]
  /\ UNCHANGED <<command, told>>

ReleaseRegistration(t) ==
  /\ At(t, "registered")
  /\ \/ Unlink /\ draft[t].code = "none" /\ Finish(t)
     \/ Unlink /\ draft[t].code # "none" /\ Fail(t, draft[t].code)
     \/ UnlinkFails /\ Fail(t, "STAGE_FAILED")
  /\ UNCHANGED <<stored, starts>>

\* LocalEvidenceIntake.capture: the bytes first, then the receipt.
StoreBytes(t) ==
  /\ At(t, "bytes")
  /\ \/ contents' = contents \cup {command[t].content} /\ Proceed(t, "publish")
     \/ MayFail /\ contents' \in {contents, contents \cup {command[t].content}}
                /\ Fail(t, "STAGE_FAILED")
  /\ UNCHANGED <<intents, runs, registry, made, lock, starts>>

\* The check between the inspection of the acquisition and its normalization.
BindAcquisition(t) ==
  /\ At(t, "bind")
  /\ LET c == command[t]
         code == IF made[c.acquisition].source # c.source THEN "SOURCE_BINDING_MISMATCH"
                 ELSE IF registry[c.source].adapter # "Carrier" THEN "OPERATION_UNAVAILABLE"
                 ELSE IF ~ Permits(c.source, "DERIVE", c.purpose) THEN "DERIVATION_DISALLOWED"
                 ELSE "OK" IN
       /\ c.kind = "NORMALIZE"
       /\ IF code = "OK" THEN Proceed(t, "publish") ELSE Fail(t, code)
  /\ UNCHANGED <<stored, lock, starts>>

\* The members of a build are inspected in their order; a reference is an
\* output as soon as it is known to be exact.
BindMember(t) ==
  /\ At(t, "bind")
  /\ LET c == command[t]
         m == c.members[Len(draft[t].outputs) + 1]
         listed == SubSeq(Upstream(c), 1, Len(draft[t].outputs) + 1)
         code == IF ~ Exists(Ref("NORMALIZATION", m)) THEN "REFERENCE_MISMATCH"
                 ELSE IF made[m].decoded # "CANDIDATE" THEN "MEMBER_NOT_ELIGIBLE"
                 ELSE IF registry[made[m].source].corpus # c.corpus THEN "SOURCE_BINDING_MISMATCH"
                 ELSE IF ~ Permits(made[m].source, "DERIVE", c.purpose) THEN "DERIVATION_DISALLOWED"
                 ELSE "OK" IN
       /\ c.kind = "BUILD_CANDIDATES"
       /\ \/ code = "OK" /\ Note(t, IF listed = Upstream(c) THEN "publish" ELSE "bind", listed, << >>)
          \/ code = "REFERENCE_MISMATCH" /\ Fail(t, code)
          \/ code \notin {"OK", "REFERENCE_MISMATCH"} /\ FailWith(t, code, listed)
          \/ MayFail /\ Fail(t, "STAGE_FAILED")
          \/ MayFail /\ code # "REFERENCE_MISMATCH" /\ FailWith(t, "EVIDENCE_INTEGRITY_FAILED", listed)
  /\ UNCHANGED <<stored, lock, starts>>

\* The receipt of a capture, a normalization or a build is published; a build
\* may also find that its members name one subject differently.
PublishArtifact(t) ==
  /\ At(t, "publish")
  /\ LET c == command[t]
         done == [made EXCEPT ![c.id] = Artifact(c)]
         assembled == << Done("CANDIDATE_ASSEMBLY", Own(c)) >> IN
       \/ /\ made' = done
          /\ \/ c.kind # "BUILD_CANDIDATES" /\ Proceed(t, "verify")
             \/ c.kind = "BUILD_CANDIDATES" /\ Note(t, "verify", Upstream(c) \o Own(c), assembled)
       \/ MayFail /\ made' \in {made, done} /\ Fail(t, "STAGE_FAILED")
       \/ /\ c.kind = "BUILD_CANDIDATES" /\ Len(c.members) > 1
          /\ Fail(t, "SOURCE_IDENTITY_CONFLICT") /\ UNCHANGED made
  /\ UNCHANGED <<intents, runs, registry, contents, lock, starts>>

\* ... and inspected again before it counts.
VerifyArtifact(t) ==
  /\ At(t, "verify")
  /\ \/ Finish(t)
     \/ MayFail /\ Fail(t, IF command[t].kind = "ACQUIRE" THEN "EVIDENCE_INTEGRITY_FAILED"
                           ELSE "DEPENDENCY_INTEGRITY_FAILED")
  /\ UNCHANGED <<stored, lock, starts>>

-----------------------------------------------------------------------------
(* execute(): the catch block and the run.                                 *)
Active(c, stages) ==
  CASE c.kind = "REGISTER" -> "REGISTRATION"
    [] c.kind = "ACQUIRE" -> "CAPTURE"
    [] c.kind = "NORMALIZE" -> IF stages = << >> THEN "EVIDENCE_INSPECTION" ELSE "NORMALIZATION"
    [] c.kind = "BUILD_CANDIDATES" ->
         IF stages = << >> THEN "CANDIDATE_ASSEMBLY" ELSE "BUILD_INSPECTION"

\* filter(): the references of refs that are not in gone, in their order.
Without(refs, gone) ==
  LET kept == {i \in DOMAIN refs : \A j \in DOMAIN gone : gone[j] # refs[i]} IN
  [n \in 1 .. Cardinality(kept) |->
     refs[CHOOSE i \in kept : Cardinality({j \in kept : j < i}) = n - 1]]

\* The FAILED run: a failed stage without outputs, and what the request
\* retained; unread says that it could not be read.
Failed(c, d, unread) ==
  LET derives == c.kind \in {"NORMALIZE", "BUILD_CANDIDATES"}
      captures == c.kind = "ACQUIRE" /\ d.code = "STAGE_FAILED"
      outputs == IF unread /\ derives THEN Without(d.outputs, Own(c))
                 ELSE IF ~ unread /\ (derives \/ captures)
                 THEN d.outputs \o Without(Retained(c), d.outputs) ELSE d.outputs
      before == [i \in DOMAIN d.stages |->
                   IF unread /\ derives
                   THEN [d.stages[i] EXCEPT !.outputs = Without(@, Own(c))] ELSE d.stages[i]]
      said(is) == IF unread /\ captures THEN "UNCONFIRMED" ELSE IF is THEN "yes" ELSE "no"
  IN [outputs |-> outputs, code |-> d.code, state |-> "FAILED",
      stages |-> Append(before, Stage(Active(c, d.stages), "FAILED", << >>)),
      artifact |-> said(HasArtifact(outputs)), receipt |-> said(HasReceipt(outputs)),
      additional |-> unread /\ derives]

\* Mutant: nothing is looked for when the stage failed.
DiscoverNothing(t) ==
  /\ At(t, "failed")
  /\ Goto(t, "save")
  /\ LET c == command[t]
         d == draft[t]
         said(is) == IF is THEN "yes" ELSE "no" IN
     draft' = [draft EXCEPT ![t] =
       [d EXCEPT !.state = "FAILED", !.artifact = said(HasArtifact(d.outputs)),
                 !.receipt = said(HasReceipt(d.outputs)),
                 !.stages = Append(@, Stage(Active(c, @), "FAILED", << >>))]]
  /\ UNCHANGED <<stored, lock, command, starts, told>>

\* Mutant: an output that cannot be read stays in the stages.
DiscoverLeavingStages(t) ==
  /\ At(t, "failed")
  /\ Goto(t, "save")
  /\ LET c == command[t]
         d == draft[t] IN
     \E unread \in {FALSE, MayFail} :
       draft' = [draft EXCEPT ![t] =
                   [Failed(c, d, unread) EXCEPT
                      !.stages = Append(d.stages, Stage(Active(c, d.stages), "FAILED", << >>))]]
  /\ UNCHANGED <<stored, lock, command, starts, told>>

Discover(t) ==
  /\ At(t, "failed")
  /\ Goto(t, "save")
  /\ \E unread \in {FALSE, MayFail} :
       draft' = [draft EXCEPT ![t] = Failed(command[t], @, unread)]
  /\ UNCHANGED <<stored, lock, command, starts, told>>

\* The run is published, unless the clock went back since the intent.
SaveRun(t) ==
  /\ At(t, "save")
  /\ LET i == command[t].id IN
       \/ /\ runs[i] = None
          /\ runs' = [runs EXCEPT ![i] = draft[t]]
          /\ Proceed(t, "saved")
       \/ (runs[i] # None \/ MayFail) /\ UNCHANGED runs /\ Refuse(t)
  /\ UNCHANGED <<intents, registry, contents, made, lock, starts>>

\* ... and read back before it is answered.
ReadBack(t) ==
  /\ At(t, "saved")
  /\ LET c == command[t] IN
       \/ Readable(c, runs[c.id]) /\ Answer(t, runs[c.id])
       \/ (~ Readable(c, runs[c.id]) \/ MayFail) /\ Refuse(t)
  /\ UNCHANGED <<stored, lock, starts>>

-----------------------------------------------------------------------------
(* Failures and the operator.                                              *)

\* The worker process is killed: by its timeout, by an output limit, or with
\* the server.
Crash(t) ==
  /\ MayCrash
  /\ ~ At(t, "idle")
  /\ Refuse(t)
  /\ lock' = IF lock = t THEN Stale ELSE lock
  /\ UNCHANGED <<stored, starts>>

RemoveLock ==
  /\ \/ lock = Stale /\ "stale" \in LockRemoval
     \/ lock \in Tasks /\ "live" \in LockRemoval
  /\ lock' = Free
  /\ UNCHANGED <<stored, pc, command, draft, starts, told>>

-----------------------------------------------------------------------------
Init ==
  /\ intents = [i \in IntentIds |-> None]
  /\ runs = [i \in IntentIds |-> None]
  /\ registry = [n \in Names |-> IF n \in DOMAIN Registered THEN Registered[n] ELSE None]
  /\ contents = {}
  /\ made = [i \in IntentIds |-> None]
  /\ lock = Free
  /\ pc = [t \in Tasks |-> "idle"]
  /\ command = [t \in Tasks |-> None]
  /\ draft = [t \in Tasks |-> NoDraft]
  /\ starts = [i \in IntentIds |-> 0]
  /\ told = {}

Step(t) ==
  \/ Lookup(t) \/ TakeLock(t) \/ Claim(t) \/ PublishIntent(t) \/ ReleaseClaim(t)
  \/ BeginStage(t) \/ Register(t) \/ ReleaseRegistration(t) \/ StoreBytes(t)
  \/ BindAcquisition(t) \/ BindMember(t) \/ PublishArtifact(t) \/ VerifyArtifact(t)
  \/ Discover(t) \/ SaveRun(t) \/ ReadBack(t)

Next ==
  \/ \E t \in Tasks : (\E c \in Commands : Begin(t, c)) \/ Step(t) \/ Crash(t)
  \/ RemoveLock

Spec == Init /\ [][Next]_vars

\* A worker that is not killed gets on with its command.
FairSpec == Spec /\ \A t \in Tasks : WF_vars(Step(t))

-----------------------------------------------------------------------------
(* Type invariant.                                                         *)
Places ==
  {"idle", "lookup", "claim", "claiming", "intending", "claimed", "unclaimed", "stage",
   "register", "registering", "registered", "bytes", "bind", "publish", "verify", "failed",
   "save", "saved"}

TypeOK ==
  /\ intents \in [IntentIds -> Commands \cup {None}]
  /\ runs \in [IntentIds -> Runs \cup {None}]
  /\ DOMAIN registry = Names
  /\ contents \subseteq SourceContents
  /\ made \in [IntentIds -> Artifacts \cup {None}]
  /\ lock \in Tasks \cup {Free, Stale}
  /\ pc \in [Tasks -> Places]
  /\ command \in [Tasks -> Commands \cup {None}]
  /\ draft \in [Tasks -> Runs]
  /\ starts \in [IntentIds -> Nat]
  /\ \A t \in Tasks : At(t, "idle") <=> command[t] = None

-----------------------------------------------------------------------------
(* Safety.                                                                 *)

\* The catalog can be listed: it is within its limits, its sources fit their
\* corpora, and every saved run, whatever failed while it was made, passes the
\* reader's checks of stages, outputs and retention
\* (docs/FAILED_RUN_INTEGRITY.md).  One run that did not would make catalog()
\* refuse for good.
CatalogAnswers ==
  /\ IntentCount <= MaxIntents
  /\ \A kind \in {"CORPUS", "SOURCE"} : Count(kind) <= MaxRegistrations
  /\ \A n \in Names :
       Known("SOURCE", n) => Binds(registry[n])
  /\ \A i \in IntentIds : runs[i] # None => Readable(intents[i], runs[i])

\* "If normalization/build publication succeeds before a later failure, the run
\* remains FAILED but exposes the verified additional output reference"
\* (docs/LOCAL_PRODUCTION_WORKFLOW.md): a saved run hides no artifact its own
\* request retained, unless it says that retention is unconfirmed, or that a
\* capture did not verify.
RunsHideNoArtifact ==
  \A i \in IntentIds :
    LET r == runs[i] IN
    r # None /\ made[i] # None =>
      \/ r.additional \/ r.receipt = "UNCONFIRMED"
      \/ r.code = "EVIDENCE_INTEGRITY_FAILED"
      \/ \E k \in DOMAIN r.outputs : r.outputs[k] = Own(intents[i])[1]

\* An identical retry finds the run of the first execution and never executes
\* again; an intent without a run is not resumed (OPERATION_INCOMPLETE).  This
\* holds even when the operator removes the lock of a running reservation.
Contract == INSTANCE RunsOnce WITH Ids <- IntentIds, bound <- intents, outcome <- runs

RunsOnceSpec == Contract!Spec

=============================================================================
