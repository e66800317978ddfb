----------------------- MODULE ProductionRailProofs -----------------------
(***************************************************************************)
(* Proofs about the local production rail, for any number of workers, any  *)
(* commands and registrations, and any limits.                             *)
(***************************************************************************)
EXTENDS ProductionRail, FiniteSetTheorems, SequenceTheorems, TLAPS

-----------------------------------------------------------------------------
(* Commands, references and stages.                                        *)

LEMMA CommandFields ==
  ASSUME NEW c \in Commands
  PROVE  /\ c.id \in IntentIds
         /\ c # None
         /\ c.kind \in {"REGISTER", "ACQUIRE", "NORMALIZE", "BUILD_CANDIDATES"}
         /\ c.kind = "REGISTER" =>
              c.name \in Names /\ IsSpec(c.spec) /\ c.spec.kind \in {"CORPUS", "SOURCE"}
         /\ c.kind = "ACQUIRE" => c.source \in Names /\ c.content \in SourceContents
         /\ c.kind = "NORMALIZE" => c.source \in Names /\ c.acquisition \in IntentIds
         /\ c.kind = "BUILD_CANDIDATES" =>
              /\ c.corpus \in Names
              /\ c.members \in Seq(IntentIds) /\ c.members # << >>
<1>1. c.id \in IntentIds
  BY DEF IntentIds
<1>2. c # None /\ IsCommand(c)
  BY CommandAssumption
<1> QED BY <1>1, <1>2 DEF IsCommand, IsSpec

LEMMA OwnRef ==
  ASSUME NEW c \in Commands
  PROVE  /\ Own(c) \in Seq(Refs)
         /\ Len(Own(c)) = 1
         /\ Own(c)[1] \in Refs
         /\ Own(c) = << Own(c)[1] >>
         /\ c.kind = "REGISTER" => Own(c)[1] = <<c.spec.kind, c.name>>
         /\ c.kind = "ACQUIRE" => Own(c)[1] = <<"ACQUISITION", c.id>>
         /\ c.kind = "NORMALIZE" => Own(c)[1] = <<"NORMALIZATION", c.id>>
         /\ c.kind = "BUILD_CANDIDATES" => Own(c)[1] = <<"CANDIDATE_BUILD", c.id>>
<1>1. PICK kind \in {"CORPUS", "SOURCE", "ACQUISITION", "NORMALIZATION", "CANDIDATE_BUILD"}, n \in Names \cup IntentIds :
        /\ Own(c) = << <<kind, n>> >>
        /\ <<kind, n>> \in Refs
        /\ c.kind = "REGISTER" => kind = c.spec.kind /\ n = c.name
        /\ c.kind = "ACQUIRE" => kind = "ACQUISITION" /\ n = c.id
        /\ c.kind = "NORMALIZE" => kind = "NORMALIZATION" /\ n = c.id
        /\ c.kind = "BUILD_CANDIDATES" => kind = "CANDIDATE_BUILD" /\ n = c.id
  <2>1. CASE c.kind = "REGISTER"
    BY <2>1, CommandFields DEF Own, Ref, Refs
  <2>2. CASE c.kind = "ACQUIRE"
    BY <2>2, CommandFields DEF Own, Ref, Refs
  <2>3. CASE c.kind = "NORMALIZE"
    BY <2>3, CommandFields DEF Own, Ref, Refs
  <2>4. CASE c.kind = "BUILD_CANDIDATES"
    BY <2>4, CommandFields DEF Own, Ref, Refs
  <2> QED BY <2>1, <2>2, <2>3, <2>4, CommandFields
<1> QED BY <1>1

LEMMA UpstreamRefs ==
  ASSUME NEW c \in Commands
  PROVE  /\ Upstream(c) \in Seq(Refs)
         /\ c.kind \in {"REGISTER", "ACQUIRE"} => Upstream(c) = << >>
         /\ c.kind = "NORMALIZE" =>
              /\ Upstream(c) = << <<"ACQUISITION", c.acquisition>> >>
              /\ Len(Upstream(c)) = 1
              /\ Upstream(c)[1] = <<"ACQUISITION", c.acquisition>>
         /\ c.kind = "BUILD_CANDIDATES" =>
              /\ Len(Upstream(c)) = Len(c.members)
              /\ Len(c.members) \in Nat \ {0}
              /\ \A k \in 1 .. Len(c.members) :
                   Upstream(c)[k] = <<"NORMALIZATION", c.members[k]>> /\ c.members[k] \in IntentIds
<1>1. CASE c.kind \in {"REGISTER", "ACQUIRE"}
  BY <1>1 DEF Upstream
<1>2. CASE c.kind = "NORMALIZE"
  <2>1. <<"ACQUISITION", c.acquisition>> \in Refs
    BY <1>2, CommandFields DEF Refs
  <2> QED BY <1>2, <2>1 DEF Upstream, Ref
<1>3. CASE c.kind = "BUILD_CANDIDATES"
  <2> DEFINE n == Len(c.members)
  <2>1. c.members \in Seq(IntentIds) /\ n \in Nat \ {0} /\ DOMAIN c.members = 1 .. n
    BY <1>3, CommandFields, EmptySeq, LenProperties
  <2>2. \A k \in 1 .. n : c.members[k] \in IntentIds /\ <<"NORMALIZATION", c.members[k]>> \in Refs
    BY <2>1 DEF Refs
  <2>3. Upstream(c) = [k \in 1 .. n |-> <<"NORMALIZATION", c.members[k]>>]
    BY <1>3, <2>1 DEF Upstream, Ref
  <2> HIDE DEF n
  <2>4. Upstream(c) \in Seq(Refs) /\ Len(Upstream(c)) = n
    BY <2>1, <2>2, <2>3
  <2> QED BY <1>3, <2>1, <2>2, <2>3, <2>4 DEF n
<1> QED BY <1>1, <1>2, <1>3, CommandFields

\* References that a command puts out are references, in whatever number.
LEMMA OutputRefs ==
  ASSUME NEW c \in Commands
  PROVE  /\ Upstream(c) \o Own(c) \in Seq(Refs)
         /\ Len(Upstream(c) \o Own(c)) = Len(Upstream(c)) + 1
         /\ \A k \in 1 .. Len(Upstream(c)) : (Upstream(c) \o Own(c))[k] = Upstream(c)[k]
         /\ (Upstream(c) \o Own(c))[Len(Upstream(c)) + 1] = Own(c)[1]
         /\ c.kind \in {"REGISTER", "ACQUIRE"} => Upstream(c) \o Own(c) = Own(c)
<1>1. Upstream(c) \in Seq(Refs) /\ Own(c) \in Seq(Refs) /\ Len(Own(c)) = 1
      /\ Len(Upstream(c)) \in Nat
  BY UpstreamRefs, OwnRef, LenProperties
<1>2. /\ Upstream(c) \o Own(c) \in Seq(Refs)
      /\ Len(Upstream(c) \o Own(c)) = Len(Upstream(c)) + 1
      /\ \A k \in 1 .. Len(Upstream(c)) + 1 : (Upstream(c) \o Own(c))[k] =
           IF k <= Len(Upstream(c)) THEN Upstream(c)[k] ELSE Own(c)[k - Len(Upstream(c))]
  BY <1>1, ConcatProperties
<1>3. c.kind \in {"REGISTER", "ACQUIRE"} => Upstream(c) \o Own(c) = Own(c)
  BY <1>1, UpstreamRefs, ConcatEmptySeq
<1> QED BY <1>1, <1>2, <1>3

LEMMA ArtifactTypes ==
  ASSUME NEW c \in Commands, c.kind # "REGISTER",
         c.kind = "NORMALIZE" =>
           /\ made \in [IntentIds -> Artifacts \cup {None}]
           /\ made[c.acquisition] # None
           /\ made[c.acquisition].kind = "ACQUISITION"
  PROVE  /\ Artifact(c) \in Artifacts
         /\ Artifact(c) # None
         /\ c.kind = "ACQUIRE" => Artifact(c).kind = "ACQUISITION"
         /\ c.kind = "NORMALIZE" =>
              /\ Artifact(c).kind = "NORMALIZATION"
              /\ Artifact(c).decoded \in {"CANDIDATE", "REJECTED", "UNREADABLE"}
         /\ c.kind = "BUILD_CANDIDATES" => Artifact(c).kind = "CANDIDATE_BUILD"
<1>1. CASE c.kind = "ACQUIRE"
  BY <1>1, CommandFields, CommandAssumption DEF Artifact, Artifacts
<1>2. CASE c.kind = "NORMALIZE"
  <2>1. made[c.acquisition] \in Artifacts /\ made[c.acquisition].kind = "ACQUISITION"
    BY <1>2, CommandFields
  <2>2. made[c.acquisition].content \in SourceContents
    BY <2>1 DEF Artifacts
  <2>3. Decoded[made[c.acquisition].content] \in {"CANDIDATE", "REJECTED", "UNREADABLE"}
    BY <2>2, CommandAssumption
  <2> QED BY <1>2, <2>3, CommandFields, CommandAssumption DEF Artifact, Artifacts
<1>3. CASE c.kind = "BUILD_CANDIDATES"
  BY <1>3, CommandFields, CommandAssumption DEF Artifact, Artifacts
<1> QED BY <1>1, <1>2, <1>3, CommandFields

StageStates == {"COMPLETED", "QUARANTINED", "NOT_RUN", "FAILED"}

LEMMA StageTypes ==
  ASSUME NEW name \in StageNames, NEW state \in StageStates, NEW refs \in Seq(Refs)
  PROVE  Stage(name, state, refs) \in Stages /\ Done(name, refs) \in Stages
BY DEF Done, Stage, Stages, StageStates

\* One, two or three stages are a sequence of stages.
LEMMA FewStages ==
  ASSUME NEW a \in Stages, NEW b \in Stages, NEW e \in Stages
  PROVE  <<a>> \in Seq(Stages) /\ <<a, b>> \in Seq(Stages) /\ <<a, b, e>> \in Seq(Stages)
OBVIOUS

LEMMA FinalStagesTypes ==
  ASSUME NEW c \in Commands,
         c.kind = "NORMALIZE" => made[c.id].decoded \in {"CANDIDATE", "REJECTED", "UNREADABLE"}
  PROVE  /\ FinalStages(c) \in Seq(Stages)
         /\ FinalState(c) \in {"COMPLETED", "QUARANTINED"}
<1>1. Own(c) \in Seq(Refs) /\ Upstream(c) \in Seq(Refs) /\ << >> \in Seq(Refs)
  BY OwnRef, UpstreamRefs
<1>2. FinalState(c) \in {"COMPLETED", "QUARANTINED"}
  BY DEF FinalState
<1>4. CASE c.kind = "REGISTER"
  <2>1. Done("REGISTRATION", Own(c)) \in Stages
    BY <1>1, StageTypes DEF StageNames, StageStates
  <2> QED BY <1>2, <1>4, <2>1, FewStages DEF FinalStages
<1>5. CASE c.kind = "ACQUIRE"
  <2>1. Done("CAPTURE", Own(c)) \in Stages /\ Stage("EXTRACTION", "NOT_RUN", << >>) \in Stages
    BY <1>1, StageTypes DEF StageNames, StageStates
  <2> QED BY <1>2, <1>5, <2>1, FewStages DEF FinalStages
<1>6. CASE c.kind = "NORMALIZE"
  <2>1. PICK d \in {"CANDIDATE", "REJECTED", "UNREADABLE"} : made[c.id].decoded = d
    BY <1>6
  <2> DEFINE extracted == IF d = "UNREADABLE" THEN "QUARANTINED" ELSE "COMPLETED"
             normalized == CASE d = "CANDIDATE" -> "COMPLETED"
                             [] d = "REJECTED" -> "QUARANTINED"
                             [] d = "UNREADABLE" -> "NOT_RUN"
  <2>2. extracted \in StageStates /\ normalized \in StageStates
    BY DEF StageStates
  <2>3. FinalStages(c) = << Done("EVIDENCE_INSPECTION", Upstream(c)),
                            Stage("EXTRACTION", extracted, Own(c)),
                            Stage("NORMALIZATION", normalized, Own(c)) >>
    BY <1>6, <2>1 DEF FinalStages
  <2> HIDE DEF extracted, normalized
  <2>4. /\ Done("EVIDENCE_INSPECTION", Upstream(c)) \in Stages
        /\ Stage("EXTRACTION", extracted, Own(c)) \in Stages
        /\ Stage("NORMALIZATION", normalized, Own(c)) \in Stages
    BY <1>1, <2>2, StageTypes DEF StageNames, StageStates
  <2> QED BY <1>2, <2>3, <2>4, FewStages
<1>7. CASE c.kind = "BUILD_CANDIDATES"
  <2>1. Done("CANDIDATE_ASSEMBLY", Own(c)) \in Stages /\ Done("BUILD_INSPECTION", Own(c)) \in Stages
    BY <1>1, StageTypes DEF StageNames, StageStates
  <2> QED BY <1>2, <1>7, <2>1, FewStages DEF FinalStages
<1> QED BY <1>4, <1>5, <1>6, <1>7, CommandFields

-----------------------------------------------------------------------------
(* Without, when what it keeps comes first.                                *)

LEMMA WithoutPrefix ==
  ASSUME NEW refs \in Seq(Refs), NEW gone \in Seq(Refs), NEW k \in 0 .. Len(refs),
         \A i \in 1 .. k : \A j \in 1 .. Len(gone) : gone[j] # refs[i],
         \A i \in k + 1 .. Len(refs) : \E j \in 1 .. Len(gone) : gone[j] = refs[i]
  PROVE  Without(refs, gone) = SubSeq(refs, 1, k)
<1> DEFINE kept == {i \in DOMAIN refs : \A j \in DOMAIN gone : gone[j] # refs[i]}
<1>1. /\ Len(refs) \in Nat /\ DOMAIN refs = 1 .. Len(refs)
      /\ DOMAIN gone = 1 .. Len(gone)
      /\ \A i \in 1 .. Len(refs) : refs[i] \in Refs
  BY LenProperties, ElementOfSeq
<1>2. kept = 1 .. k
  <2>1. \A i \in 1 .. Len(refs) : i \in 1 .. k \/ i \in k + 1 .. Len(refs)
    BY <1>1
  <2>2. \A i \in 1 .. k : i \in 1 .. Len(refs)
    BY <1>1
  <2>3. \A i \in k + 1 .. Len(refs) : i \notin 1 .. k
    BY <1>1
  <2> QED BY <1>1, <2>1, <2>2, <2>3
<1>3. Cardinality(kept) = k
  <2>1. Cardinality(1 .. k) = k
    BY <1>1, FS_Interval
  <2> QED BY <1>2, <2>1
<1>4. ASSUME NEW n \in 1 .. k
      PROVE  (CHOOSE i \in kept : Cardinality({j \in kept : j < i}) = n - 1) = n
  <2>1. ASSUME NEW i \in 1 .. k
        PROVE  Cardinality({j \in kept : j < i}) = i - 1
    <3>1. {j \in kept : j < i} = 1 .. i - 1
      BY <1>1, <1>2
    <3>2. Cardinality(1 .. i - 1) = i - 1
      BY <1>1, FS_Interval
    <3> QED BY <3>1, <3>2
  <2>2. n \in kept /\ Cardinality({j \in kept : j < n}) = n - 1
    BY <1>2, <2>1
  <2>3. ASSUME NEW i \in kept, Cardinality({j \in kept : j < i}) = n - 1
        PROVE  i = n
    <3>1. i \in 1 .. k /\ i - 1 = n - 1
      BY <1>2, <2>1, <2>3
    <3> QED BY <3>1, <1>1
  <2> HIDE DEF kept
  <2> QED BY <2>2, <2>3
<1>5. Without(refs, gone) = [n \in 1 .. k |-> refs[n]]
  <2>1. Without(refs, gone) =
          [n \in 1 .. Cardinality(kept) |->
             refs[CHOOSE i \in kept : Cardinality({j \in kept : j < i}) = n - 1]]
    BY DEF Without
  <2> HIDE DEF kept
  <2> QED BY <1>3, <1>4, <2>1
<1>6. /\ SubSeq(refs, 1, k) \in Seq(Refs)
      /\ Len(SubSeq(refs, 1, k)) = k
      /\ \A n \in 1 .. k : SubSeq(refs, 1, k)[n] = refs[n]
  <2>1. \A i \in 1 .. k : refs[i] \in Refs
    BY <1>1
  <2>2. /\ SubSeq(refs, 1, k) \in Seq(Refs)
        /\ Len(SubSeq(refs, 1, k)) = IF 1 <= k THEN k - 1 + 1 ELSE 0
        /\ \A i \in 1 .. k - 1 + 1 : SubSeq(refs, 1, k)[i] = refs[1 + i - 1]
    BY <2>1, SubSeqProperties
  <2>3. \A n \in 1 .. k : n \in 1 .. k - 1 + 1 /\ 1 + n - 1 = n
    OBVIOUS
  <2> QED BY <2>2, <2>3
<1>7. SubSeq(refs, 1, k) = [n \in 1 .. k |-> refs[n]]
  <2>1. DOMAIN SubSeq(refs, 1, k) = 1 .. k /\ SubSeq(refs, 1, k) \in [1 .. k -> Refs]
    BY <1>6, LenProperties
  <2> QED BY <1>6, <2>1
<1> QED BY <1>5, <1>7

\* When there is nothing to leave out, everything stays.
LEMMA WithoutNothing ==
  ASSUME NEW refs \in Seq(Refs), NEW gone \in Seq(Refs),
         \A i \in 1 .. Len(refs), j \in 1 .. Len(gone) : gone[j] # refs[i]
  PROVE  Without(refs, gone) = refs
<1>1. Len(refs) \in Nat /\ Len(refs) \in 0 .. Len(refs)
  BY LenProperties
<1>2. \A i \in Len(refs) + 1 .. Len(refs) : FALSE
  BY <1>1
<1>3. Without(refs, gone) = SubSeq(refs, 1, Len(refs))
  BY <1>1, <1>2, WithoutPrefix
<1> QED BY <1>3, SubSeqFull

\* A reference that is already there is not put out again.
LEMMA WithoutItself ==
  ASSUME NEW c \in Commands, NEW gone \in Seq(Refs), NEW j \in 1 .. Len(gone),
         gone[j] = Own(c)[1]
  PROVE  Without(Own(c), gone) = << >>
<1>1. Own(c) \in Seq(Refs) /\ Len(Own(c)) = 1 /\ 0 \in 0 .. Len(Own(c))
  BY OwnRef
<1>2. \A i \in 0 + 1 .. Len(Own(c)) : \E k \in 1 .. Len(gone) : gone[k] = Own(c)[i]
  BY <1>1
<1>3. \A i \in 1 .. 0 : FALSE
  OBVIOUS
<1>4. Without(Own(c), gone) = SubSeq(Own(c), 1, 0)
  BY <1>1, <1>2, <1>3, WithoutPrefix
<1> QED BY <1>4, SubSeqEmpty

\* The reference of what a command makes is none of those it reads.
LEMMA OwnIsNotUpstream ==
  ASSUME NEW c \in Commands, NEW k \in 1 .. Len(Upstream(c))
  PROVE  Upstream(c)[k] # Own(c)[1]
<1>1. CASE c.kind \in {"REGISTER", "ACQUIRE"}
  BY <1>1, UpstreamRefs
<1>2. CASE c.kind = "NORMALIZE"
  <2>1. Len(Upstream(c)) = 1
    BY <1>2, UpstreamRefs
  <2>2. k = 1
    BY <2>1
  <2> QED BY <1>2, <2>2, UpstreamRefs, OwnRef
<1>3. CASE c.kind = "BUILD_CANDIDATES"
  BY <1>3, UpstreamRefs, OwnRef
<1> QED BY <1>1, <1>2, <1>3, CommandFields

LEMMA WithoutOwn ==
  ASSUME NEW c \in Commands
  PROVE  /\ Without(Upstream(c) \o Own(c), Own(c)) = Upstream(c)
         /\ Without(Own(c), Upstream(c) \o Own(c)) = << >>
         /\ Without(Own(c), Own(c)) = << >>
<1> DEFINE all == Upstream(c) \o Own(c)
           n == Len(Upstream(c))
<1>1. /\ Upstream(c) \in Seq(Refs) /\ Own(c) \in Seq(Refs) /\ all \in Seq(Refs)
      /\ n \in Nat /\ Len(all) = n + 1 /\ Len(Own(c)) = 1
      /\ \A k \in 1 .. n : all[k] = Upstream(c)[k]
      /\ all[n + 1] = Own(c)[1]
  BY UpstreamRefs, OwnRef, OutputRefs, LenProperties
<1>2. Without(all, Own(c)) = SubSeq(all, 1, n)
  <2>1. \A i \in 1 .. n : \A j \in 1 .. Len(Own(c)) : Own(c)[j] # all[i]
    BY <1>1, OwnIsNotUpstream
  <2>2. \A i \in n + 1 .. Len(all) : \E j \in 1 .. Len(Own(c)) : Own(c)[j] = all[i]
    BY <1>1
  <2>3. n \in 0 .. Len(all)
    BY <1>1
  <2> HIDE DEF all, n
  <2> QED BY <1>1, <2>1, <2>2, <2>3, WithoutPrefix
<1>3. SubSeq(all, 1, n) = Upstream(c)
  <2>1. CASE n = 0
    <3>1. SubSeq(all, 1, 0) = << >>
      BY SubSeqEmpty
    <3>2. Upstream(c) = << >>
      BY <2>1, <1>1, EmptySeq
    <3> QED BY <2>1, <3>1, <3>2
  <2>2. CASE n # 0
    <3>1. 1 \in 1 .. n /\ n \in 1 .. n
      BY <1>1, <2>2
    <3>2. SubSeq(all, 1, n) = SubSeq(Upstream(c), 1, n)
      BY <1>1, <3>1, SubSeqOfConcat1
    <3> QED BY <1>1, <3>2, SubSeqFull
  <2> QED BY <2>1, <2>2
<1>4. Without(Own(c), all) = << >>
  <2>1. n + 1 \in 1 .. Len(all)
    BY <1>1
  <2> QED BY <1>1, <2>1, WithoutItself
<1>5. Without(Own(c), Own(c)) = << >>
  <2>1. 1 \in 1 .. Len(Own(c))
    BY <1>1
  <2> QED BY <1>1, <2>1, WithoutItself
<1> QED BY <1>2, <1>3, <1>4, <1>5

-----------------------------------------------------------------------------
(* What a worker that has claimed a request knows, at each of its places.  *)

Working(t) ==
  pc[t] \in {"claimed", "stage", "register", "registering", "registered", "bytes", "bind",
             "publish", "verify", "failed", "save"}

\* No two workers have claimed the same request.
WorksAlone ==
  \A t, u \in Tasks : Working(t) /\ Working(u) /\ command[t].id = command[u].id => t = u

\* Nothing has been put out yet.
Untouched(t) ==
  pc[t] \in {"idle", "lookup", "claim", "claiming", "intending", "claimed", "unclaimed", "stage",
             "register", "registering", "bytes"}

HasAcquisition(c) == made[c.acquisition] # None /\ made[c.acquisition].kind = "ACQUISITION"

Inspected(c) == << Done("EVIDENCE_INSPECTION", Upstream(c)) >>
Assembled(c) == << Done("CANDIDATE_ASSEMBLY", Own(c)) >>

\* What it has put out when it fails.
FailedShape(c, d) ==
  LET has(outputs, stages) == d.outputs = outputs /\ d.stages = stages IN
  CASE c.kind \in {"REGISTER", "ACQUIRE"} -> has(<< >>, << >>)
    [] c.kind = "NORMALIZE" ->
         \/ has(<< >>, << >>) /\ made[c.id] = None
         \/ has(Upstream(c), Inspected(c))
    [] OTHER ->
         \/ \E k \in 0 .. Len(c.members) : has(SubSeq(Upstream(c), 1, k), << >>)
         \/ has(Upstream(c) \o Own(c), Assembled(c)) /\ made[c.id] # None

\* ... and before.
Shape(t) ==
  LET c == command[t]
      d == draft[t]
      has(outputs, stages) == d.outputs = outputs /\ d.stages = stages IN
  /\ At(t, "registered") => c.kind = "REGISTER" /\ has(<< >>, << >>)
  /\ At(t, "bind") /\ c.kind = "NORMALIZE" => has(Upstream(c), Inspected(c))
  /\ At(t, "bind") /\ c.kind = "BUILD_CANDIDATES" =>
       /\ Len(d.outputs) < Len(c.members)
       /\ has(SubSeq(Upstream(c), 1, Len(d.outputs)), << >>)
  /\ At(t, "publish") =>
       CASE c.kind = "ACQUIRE" -> has(<< >>, << >>)
         [] c.kind = "NORMALIZE" -> has(Upstream(c), Inspected(c))
         [] OTHER -> has(Upstream(c), << >>)
  /\ At(t, "verify") =>
       CASE c.kind = "ACQUIRE" -> has(<< >>, << >>)
         [] c.kind = "NORMALIZE" -> has(Upstream(c), Inspected(c))
         [] OTHER -> has(Upstream(c) \o Own(c), Assembled(c))
  /\ At(t, "failed") => FailedShape(c, d)

Progress(t) ==
  LET c == command[t] IN
  /\ intents[c.id] = c
  /\ runs[c.id] = None
  /\ starts[c.id] = IF At(t, "claimed") THEN 0 ELSE 1
  /\ At(t, "register") \/ At(t, "registering") => c.kind = "REGISTER"
  /\ At(t, "bytes") => c.kind = "ACQUIRE"
  /\ At(t, "bind") => c.kind \in {"NORMALIZE", "BUILD_CANDIDATES"}
  /\ At(t, "publish") \/ At(t, "verify") => c.kind # "REGISTER"
  /\ (At(t, "bind") \/ At(t, "publish") \/ At(t, "verify")) /\ c.kind = "NORMALIZE" =>
       HasAcquisition(c)
  /\ pc[t] \notin {"verify", "failed", "save"} \/ c.kind = "REGISTER" => made[c.id] = None
  /\ At(t, "verify") => made[c.id] = Artifact(c)
  /\ made[c.id] # None => made[c.id] = Artifact(c)
  /\ made[c.id] # None /\ c.kind = "NORMALIZE" => HasAcquisition(c)
  /\ Shape(t)

CallInv(t) ==
  /\ Untouched(t) => draft[t] = NoDraft
  /\ Working(t) => Progress(t)
  /\ At(t, "saved") => intents[command[t].id] = command[t] /\ runs[command[t].id] # None

IdentityInv(i) ==
  /\ starts[i] \in {0, 1}
  /\ intents[i] # None => intents[i].id = i
  /\ intents[i] = None => starts[i] = 0 /\ runs[i] = None /\ made[i] = None

WorkInv ==
  /\ TypeOK
  /\ WorksAlone
  /\ \A t \in Tasks : CallInv(t)
  /\ \A i \in IntentIds : IdentityInv(i)

-----------------------------------------------------------------------------
(* The run of a request that fails.                                        *)

LEMMA PrefixOfRefs ==
  ASSUME NEW refs \in Seq(Refs), NEW k \in 0 .. Len(refs)
  PROVE  /\ SubSeq(refs, 1, k) \in Seq(Refs)
         /\ Len(SubSeq(refs, 1, k)) = k
         /\ \A n \in 1 .. k : SubSeq(refs, 1, k)[n] = refs[n]
<1>1. Len(refs) \in Nat /\ \A i \in 1 .. Len(refs) : refs[i] \in Refs
  BY LenProperties, ElementOfSeq
<1>2. \A i \in 1 .. k : i \in 1 .. Len(refs)
  BY <1>1
<1>3. /\ SubSeq(refs, 1, k) \in Seq(Refs)
      /\ Len(SubSeq(refs, 1, k)) = IF 1 <= k THEN k - 1 + 1 ELSE 0
      /\ \A i \in 1 .. k - 1 + 1 : SubSeq(refs, 1, k)[i] = refs[1 + i - 1]
  BY <1>1, <1>2, SubSeqProperties
<1>4. \A n \in 1 .. k : n \in 1 .. k - 1 + 1 /\ 1 + n - 1 = n
  OBVIOUS
<1> QED BY <1>3, <1>4

LEMMA RetainedRefs ==
  ASSUME NEW c \in Commands
  PROVE  /\ Retained(c) \in Seq(Refs)
         /\ c.kind # "REGISTER" /\ made[c.id] # None => Retained(c) = Own(c)
         /\ c.kind \in {"NORMALIZE", "BUILD_CANDIDATES"} /\ made[c.id] = None => Retained(c) = << >>
         /\ c.kind = "ACQUIRE" /\ made[c.id] = None =>
              Retained(c) = IF c.content \in contents THEN << <<"CONTENT", c.content>> >> ELSE << >>
         /\ c.kind = "ACQUIRE" => <<"CONTENT", c.content>> \in Refs
<1>1. Own(c) \in Seq(Refs) /\ << >> \in Seq(Refs)
  BY OwnRef
<1>2. c.kind = "ACQUIRE" => <<"CONTENT", c.content>> \in Refs
  BY CommandFields DEF Refs
<1>3. c.kind = "ACQUIRE" => << <<"CONTENT", c.content>> >> \in Seq(Refs)
  BY <1>2
<1>4. c.kind = "REGISTER" => Retained(c) \in {Own(c), << >>}
  BY DEF Retained
<1>5. c.kind # "REGISTER" =>
        Retained(c) = IF made[c.id] # None THEN Own(c)
                      ELSE IF c.kind = "ACQUIRE" /\ c.content \in contents
                      THEN << <<"CONTENT", c.content>> >> ELSE << >>
  BY DEF Retained, Ref
<1> QED BY <1>1, <1>2, <1>3, <1>4, <1>5, CommandFields

\* Outputs that are not all there contain nothing of their own.
LEMMA OutputsBeforeOwn ==
  ASSUME NEW c \in Commands, c.kind \in {"NORMALIZE", "BUILD_CANDIDATES"},
         NEW d \in Runs, FailedShape(c, d)
  PROVE  \/ d.outputs = Upstream(c) \o Own(c)
         \/ /\ d.outputs # Upstream(c) \o Own(c)
            /\ Len(d.outputs) \in 0 .. Len(Upstream(c))
            /\ d.outputs = SubSeq(Upstream(c), 1, Len(d.outputs))
            /\ \A k \in 1 .. Len(d.outputs) :
                 d.outputs[k] = Upstream(c)[k] /\ d.outputs[k] # Own(c)[1]
<1> SUFFICES ASSUME NEW k \in 0 .. Len(Upstream(c)), d.outputs = SubSeq(Upstream(c), 1, k)
             PROVE  /\ d.outputs # Upstream(c) \o Own(c)
                    /\ Len(d.outputs) = k
                    /\ \A i \in 1 .. k : d.outputs[i] = Upstream(c)[i] /\ d.outputs[i] # Own(c)[1]
  <2>1. CASE c.kind = "NORMALIZE"
    <3>1. Upstream(c) \in Seq(Refs) /\ Len(Upstream(c)) = 1
      BY <2>1, UpstreamRefs
    <3>2. d.outputs = << >> \/ d.outputs = Upstream(c)
      BY <2>1 DEF FailedShape
    <3>3. SubSeq(Upstream(c), 1, 0) = << >> /\ SubSeq(Upstream(c), 1, 1) = Upstream(c)
      BY <3>1, SubSeqEmpty, SubSeqFull
    <3>4. 0 \in 0 .. Len(Upstream(c)) /\ 1 \in 0 .. Len(Upstream(c))
      BY <3>1
    <3> QED BY <3>2, <3>3, <3>4
  <2>2. CASE c.kind = "BUILD_CANDIDATES"
    <3>1. Len(Upstream(c)) = Len(c.members)
      BY <2>2, UpstreamRefs
    <3>2. \/ \E k \in 0 .. Len(c.members) : d.outputs = SubSeq(Upstream(c), 1, k)
          \/ d.outputs = Upstream(c) \o Own(c)
      BY <2>2 DEF FailedShape
    <3> QED BY <3>1, <3>2
  <2> QED BY <2>1, <2>2
<1>1. Upstream(c) \in Seq(Refs) /\ Len(Upstream(c)) \in Nat
      /\ Len(Upstream(c) \o Own(c)) = Len(Upstream(c)) + 1
  BY UpstreamRefs, OutputRefs, LenProperties
<1>2. Len(d.outputs) = k /\ \A i \in 1 .. k : d.outputs[i] = Upstream(c)[i]
  BY <1>1, PrefixOfRefs
<1>3. \A i \in 1 .. k : i \in 1 .. Len(Upstream(c))
  BY <1>1
<1>4. d.outputs # Upstream(c) \o Own(c)
  BY <1>1, <1>2
<1> QED BY <1>2, <1>3, <1>4, OwnIsNotUpstream

\* The outputs and the stages of a failed normalization or build.
LEMMA FailedDerivation ==
  ASSUME NEW c \in Commands, c.kind \in {"NORMALIZE", "BUILD_CANDIDATES"},
         NEW d \in Runs, FailedShape(c, d), NEW unread \in BOOLEAN
  PROVE  LET r == Failed(c, d, unread)
             all == Upstream(c) \o Own(c) IN
         /\ r.outputs = IF unread THEN IF d.outputs = all THEN Upstream(c) ELSE d.outputs
                        ELSE IF made[c.id] # None /\ d.outputs # all THEN d.outputs \o Own(c)
                        ELSE d.outputs
         /\ r.stages = Append(IF unread /\ c.kind = "BUILD_CANDIDATES" /\ d.stages # << >>
                              THEN << Done("CANDIDATE_ASSEMBLY", << >>) >> ELSE d.stages,
                              Stage(Active(c, d.stages), "FAILED", << >>))
<1> DEFINE all == Upstream(c) \o Own(c)
           before == [i \in DOMAIN d.stages |->
                   IF unread THEN [d.stages[i] EXCEPT !.outputs = Without(@, Own(c))]
                   ELSE d.stages[i]]
<1>1. /\ Upstream(c) \in Seq(Refs) /\ Own(c) \in Seq(Refs) /\ all \in Seq(Refs)
      /\ Len(Upstream(c)) \in Nat /\ Len(Own(c)) = 1 /\ Len(all) = Len(Upstream(c)) + 1
      /\ all[Len(Upstream(c)) + 1] = Own(c)[1]
      /\ Own(c) = << Own(c)[1] >>
      /\ d.outputs \in Seq(Refs) /\ d.stages \in Seq(Stages)
      /\ << >> \in Seq(Refs)
  BY UpstreamRefs, OwnRef, OutputRefs, LenProperties DEF Runs
<1>2. d.outputs = all \/ \A k \in 1 .. Len(d.outputs) : d.outputs[k] # Own(c)[1]
  BY OutputsBeforeOwn
<1>3. Retained(c) = IF made[c.id] # None THEN Own(c) ELSE << >>
  BY RetainedRefs
<1>4. unread => Without(d.outputs, Own(c)) = IF d.outputs = all THEN Upstream(c) ELSE d.outputs
  <2>1. CASE d.outputs = all
    BY <2>1, WithoutOwn
  <2>2. CASE d.outputs # all
    <3>1. \A i \in 1 .. Len(d.outputs), j \in 1 .. Len(Own(c)) : Own(c)[j] # d.outputs[i]
      BY <1>1, <1>2, <2>2
    <3> HIDE DEF all
    <3> QED BY <1>1, <2>2, <3>1, WithoutNothing
  <2> QED BY <2>1, <2>2
<1>5. d.outputs \o Without(Retained(c), d.outputs) =
        IF made[c.id] # None /\ d.outputs # all THEN d.outputs \o Own(c) ELSE d.outputs
  <2>1. CASE made[c.id] = None
    <3>1. \A i \in 1 .. Len(<< >>), j \in 1 .. Len(d.outputs) : d.outputs[j] # << >>[i]
      BY EmptySeq
    <3>2. Without(<< >>, d.outputs) = << >>
      BY <1>1, <3>1, WithoutNothing
    <3> QED BY <1>1, <1>3, <2>1, <3>2, ConcatEmptySeq
  <2>2. CASE made[c.id] # None /\ d.outputs = all
    BY <1>1, <1>3, <2>2, WithoutOwn, ConcatEmptySeq
  <2>3. CASE made[c.id] # None /\ d.outputs # all
    <3>1. \A i \in 1 .. Len(Own(c)), j \in 1 .. Len(d.outputs) : d.outputs[j] # Own(c)[i]
      BY <1>1, <1>2, <2>3
    <3>2. Without(Own(c), d.outputs) = Own(c)
      BY <1>1, <3>1, WithoutNothing
    <3> QED BY <1>3, <2>3, <3>2
  <2> QED BY <2>1, <2>2, <2>3
<1>6. before = IF unread /\ c.kind = "BUILD_CANDIDATES" /\ d.stages # << >>
               THEN << Done("CANDIDATE_ASSEMBLY", << >>) >> ELSE d.stages
  <2>1. CASE ~ unread
    <3>1. d.stages = [i \in DOMAIN d.stages |-> d.stages[i]]
      BY <1>1
    <3> QED BY <2>1, <3>1
  <2>2. CASE d.stages = << >>
    <3>1. DOMAIN d.stages = {}
      BY <2>2
    <3> QED BY <2>2, <3>1
  <2>3. CASE unread /\ c.kind = "NORMALIZE" /\ d.stages # << >>
    <3>1. d.stages = Inspected(c)
      BY <2>3 DEF FailedShape
    <3>2. Without(Upstream(c), Own(c)) = Upstream(c)
      <4>1. \A i \in 1 .. Len(Upstream(c)), j \in 1 .. Len(Own(c)) : Own(c)[j] # Upstream(c)[i]
        BY <1>1, OwnIsNotUpstream
      <4> QED BY <1>1, <4>1, WithoutNothing
    <3>3. [Done("EVIDENCE_INSPECTION", Upstream(c)) EXCEPT !.outputs = Without(@, Own(c))]
            = Done("EVIDENCE_INSPECTION", Upstream(c))
      BY <3>2 DEF Done, Stage
    <3> DEFINE e == Done("EVIDENCE_INSPECTION", Upstream(c))
    <3>4. d.stages = <<e>> /\ before = [i \in DOMAIN <<e>> |-> <<e>>[i]]
      <4>1. d.stages = <<e>>
        BY <3>1 DEF Inspected
      <4>2. DOMAIN <<e>> = {1} /\ <<e>>[1] = e
        OBVIOUS
      <4>3. before = [i \in {1} |-> [<<e>>[i] EXCEPT !.outputs = Without(@, Own(c))]]
        BY <2>3, <4>1, <4>2
      <4> HIDE DEF e, before
      <4>4. before = [i \in {1} |-> <<e>>[i]]
        BY <3>3, <4>2, <4>3 DEF e
      <4> QED BY <4>1, <4>2, <4>4
    <3> HIDE DEF e, before
    <3>5. before = <<e>>
      BY <3>4
    <3> QED BY <2>3, <3>4, <3>5
  <2>4. CASE unread /\ c.kind = "BUILD_CANDIDATES" /\ d.stages # << >>
    <3>1. d.stages = Assembled(c)
      BY <2>4 DEF FailedShape
    <3> DEFINE e == Done("CANDIDATE_ASSEMBLY", Own(c))
               f == Done("CANDIDATE_ASSEMBLY", << >>)
    <3>2. [e EXCEPT !.outputs = Without(@, Own(c))] = f
      BY WithoutOwn DEF Done, Stage
    <3>3. d.stages = <<e>>
      BY <3>1 DEF Assembled
    <3>4. DOMAIN <<e>> = {1} /\ <<e>>[1] = e
      OBVIOUS
    <3>5. before = [i \in {1} |-> [<<e>>[i] EXCEPT !.outputs = Without(@, Own(c))]]
      BY <2>4, <3>3, <3>4
    <3> HIDE DEF e, before, f
    <3>6. before = [i \in {1} |-> f]
      BY <3>2, <3>4, <3>5
    <3>7. before = <<f>>
      BY <3>6
    <3> QED BY <2>4, <3>7 DEF f
  <2> QED BY <2>1, <2>2, <2>3, <2>4
<1>7. /\ Failed(c, d, unread).outputs =
           IF unread THEN Without(d.outputs, Own(c))
           ELSE d.outputs \o Without(Retained(c), d.outputs)
      /\ Failed(c, d, unread).stages = Append(before, Stage(Active(c, d.stages), "FAILED", << >>))
  BY DEF Failed
<1> HIDE DEF all, before
<1> QED BY <1>4, <1>5, <1>6, <1>7 DEF all

\* Those of a failed registration or capture.
LEMMA FailedPlainly ==
  ASSUME NEW c \in Commands, c.kind \in {"REGISTER", "ACQUIRE"},
         NEW d \in Runs, FailedShape(c, d), NEW unread \in BOOLEAN
  PROVE  LET r == Failed(c, d, unread) IN
         /\ r.outputs = IF ~ unread /\ c.kind = "ACQUIRE" /\ d.code = "STAGE_FAILED"
                        THEN Retained(c) ELSE << >>
         /\ r.stages = Append(<< >>, Stage(Active(c, << >>), "FAILED", << >>))
<1>1. d.outputs = << >> /\ d.stages = << >>
  BY DEF FailedShape
<1>2. Retained(c) \in Seq(Refs) /\ << >> \in Seq(Refs)
  BY RetainedRefs, EmptySeq
<1>3. << >> \o Without(Retained(c), << >>) = Retained(c)
  <2>1. \A i \in 1 .. Len(Retained(c)), j \in 1 .. Len(<< >>) : << >>[j] # Retained(c)[i]
    BY EmptySeq
  <2>2. Without(Retained(c), << >>) = Retained(c)
    BY <1>2, <2>1, WithoutNothing
  <2> QED BY <1>2, <2>2, ConcatEmptySeq
<1>4. Failed(c, d, unread).outputs =
        IF ~ unread /\ c.kind = "ACQUIRE" /\ d.code = "STAGE_FAILED"
        THEN d.outputs \o Without(Retained(c), d.outputs) ELSE d.outputs
  BY DEF Failed
<1>5. Failed(c, d, unread).stages =
        Append([i \in DOMAIN d.stages |-> d.stages[i]],
               Stage(Active(c, d.stages), "FAILED", << >>))
  BY DEF Failed
<1>6. [i \in DOMAIN << >> |-> << >>[i]] = << >>
  OBVIOUS
<1> QED BY <1>1, <1>3, <1>4, <1>5, <1>6

\* What it says of itself.
LEMMA FailedSays ==
  ASSUME NEW c \in Commands, NEW d, NEW unread \in BOOLEAN
  PROVE  LET r == Failed(c, d, unread)
             derives == c.kind \in {"NORMALIZE", "BUILD_CANDIDATES"}
             unconfirmed == unread /\ c.kind = "ACQUIRE" /\ d.code = "STAGE_FAILED" IN
         /\ r.code = d.code
         /\ r.state = "FAILED"
         /\ r.additional \in BOOLEAN
         /\ r.additional <=> unread /\ derives
         /\ r.artifact \in Said /\ r.receipt \in Said
         /\ unconfirmed => r.receipt = "UNCONFIRMED" /\ r.artifact = "UNCONFIRMED"
         /\ ~ unconfirmed => /\ r.receipt = "yes" <=> HasReceipt(r.outputs)
                             /\ r.artifact = "yes" <=> HasArtifact(r.outputs)
BY DEF Failed, Said

LEMMA ActiveIsAStage ==
  ASSUME NEW c \in Commands, NEW stages
  PROVE  Active(c, stages) \in StageNames
BY CommandFields DEF Active, StageNames

LEMMA FailedTypes ==
  ASSUME NEW c \in Commands, NEW d \in Runs, FailedShape(c, d), NEW unread \in BOOLEAN
  PROVE  Failed(c, d, unread) \in Runs
<1> DEFINE r == Failed(c, d, unread)
           e == Stage(Active(c, d.stages), "FAILED", << >>)
           f == Stage(Active(c, << >>), "FAILED", << >>)
<1>1. << >> \in Seq(Refs) /\ << >> \in Seq(Stages)
  BY EmptySeq
<1>2. e \in Stages /\ f \in Stages /\ Done("CANDIDATE_ASSEMBLY", << >>) \in Stages
  <2>1. Active(c, d.stages) \in StageNames /\ Active(c, << >>) \in StageNames
        /\ "CANDIDATE_ASSEMBLY" \in StageNames /\ "FAILED" \in StageStates
        /\ "COMPLETED" \in StageStates
    BY ActiveIsAStage DEF StageNames, StageStates
  <2> QED BY <1>1, <2>1, StageTypes
<1>3. /\ Upstream(c) \in Seq(Refs) /\ Own(c) \in Seq(Refs) /\ Retained(c) \in Seq(Refs)
      /\ d.outputs \in Seq(Refs) /\ d.stages \in Seq(Stages) /\ d.code \in Codes
  BY UpstreamRefs, OwnRef, RetainedRefs DEF Runs
<1>4. r.outputs \in Seq(Refs) /\ r.stages \in Seq(Stages)
  <2> HIDE DEF e, f
  <2>1. CASE c.kind \in {"REGISTER", "ACQUIRE"}
    <3>1. r.outputs \in {Retained(c), << >>} /\ r.stages = Append(<< >>, f)
      BY <2>1, FailedPlainly DEF f
    <3>2. Append(<< >>, f) \in Seq(Stages)
      BY <1>1, <1>2, AppendProperties
    <3> QED BY <1>1, <1>3, <3>1, <3>2
  <2>2. CASE c.kind \in {"NORMALIZE", "BUILD_CANDIDATES"}
    <3>1. r.outputs \in {Upstream(c), d.outputs, d.outputs \o Own(c)}
      BY <2>2, FailedDerivation
    <3>2. d.outputs \o Own(c) \in Seq(Refs)
      BY <1>3, ConcatProperties
    <3>3. \/ r.stages = Append(<< Done("CANDIDATE_ASSEMBLY", << >>) >>, e)
          \/ r.stages = Append(d.stages, e)
      <4> DEFINE cut == unread /\ c.kind = "BUILD_CANDIDATES" /\ d.stages # << >>
      <4>1. r.stages = Append(IF cut THEN << Done("CANDIDATE_ASSEMBLY", << >>) >>
                              ELSE d.stages, e)
        BY <2>2, FailedDerivation DEF e
      <4> HIDE DEF cut, r
      <4> QED BY <4>1
    <3>4. << Done("CANDIDATE_ASSEMBLY", << >>) >> \in Seq(Stages)
      BY <1>2, FewStages
    <3>5. \A before \in Seq(Stages) : Append(before, e) \in Seq(Stages)
      BY <1>2, AppendProperties
    <3> QED BY <1>3, <3>1, <3>2, <3>3, <3>4, <3>5
  <2> QED BY <2>1, <2>2, CommandFields
<1>5. /\ r.code = d.code /\ r.state = "FAILED" /\ r.additional \in BOOLEAN
      /\ r.artifact \in Said /\ r.receipt \in Said
  BY FailedSays
<1>6. r = [outputs |-> r.outputs, code |-> r.code, state |-> r.state, stages |-> r.stages,
           artifact |-> r.artifact, receipt |-> r.receipt, additional |-> r.additional]
  BY DEF Failed
<1> HIDE DEF r
<1>7. "FAILED" \in {"none", "COMPLETED", "QUARANTINED", "FAILED"}
  OBVIOUS
<1>8. r \in Runs
  BY <1>3, <1>4, <1>5, <1>6, <1>7 DEF Runs
<1> QED BY <1>8 DEF r

-----------------------------------------------------------------------------
(* Types.                                                                  *)

LEMMA CallHasCommand ==
  ASSUME WorkInv, NEW t \in Tasks, ~ At(t, "idle")
  PROVE  command[t] \in Commands /\ command[t].id \in IntentIds /\ draft[t] \in Runs
BY CommandFields DEF WorkInv, TypeOK

LEMMA WorkingFacts ==
  ASSUME WorkInv, NEW t \in Tasks, Working(t)
  PROVE  command[t] \in Commands /\ command[t].id \in IntentIds /\ draft[t] \in Runs /\ Progress(t)
<1>1. ~ At(t, "idle")
  BY DEF Working, At
<1> QED BY <1>1, CallHasCommand DEF WorkInv, CallInv

\* What may change in the rows of the processes.
Rows ==
  /\ pc' \in [Tasks -> Places]
  /\ command' \in [Tasks -> Commands \cup {None}]
  /\ draft' \in [Tasks -> Runs]
  /\ \A t \in Tasks : (pc'[t] = "idle") <=> (command'[t] = None)

LEMMA NoDraftTypes == NoDraft \in Runs
<1>1. << >> \in Seq(Refs) /\ << >> \in Seq(Stages)
  BY EmptySeq
<1> QED BY <1>1 DEF NoDraft, Runs, Codes, Said

LEMMA RestRows ==
  ASSUME TypeOK, NEW t \in Tasks, Rest(t)
  PROVE  Rows
BY NoDraftTypes DEF TypeOK, Rest, Goto, At, Rows, Places

LEMMA ProceedRows ==
  ASSUME TypeOK, NEW t \in Tasks, ~ At(t, "idle"),
         NEW place \in Places \ {"idle"}, Goto(t, place), command' = command, draft' \in [Tasks -> Runs]
  PROVE  Rows
BY DEF TypeOK, Goto, At, Rows

LEMMA NoteTypes ==
  ASSUME TypeOK, NEW t \in Tasks, NEW place, NEW outputs \in Seq(Refs), NEW stages \in Seq(Stages),
         Note(t, place, outputs, stages)
  PROVE  draft' \in [Tasks -> Runs]
<1>1. [draft[t] EXCEPT !.outputs = outputs, !.stages = stages] \in Runs
  <2>1. draft[t] \in Runs
    BY DEF TypeOK
  <2> QED BY <2>1 DEF Runs
<1>2. draft' = [draft EXCEPT ![t] = [draft[t] EXCEPT !.outputs = outputs, !.stages = stages]]
  BY DEF Note
<1> HIDE DEF Runs
<1> QED BY <1>1, <1>2 DEF TypeOK

LEMMA FailTypes ==
  ASSUME TypeOK, NEW t \in Tasks, NEW outputs \in Seq(Refs), NEW code \in Codes,
         FailWith(t, code, outputs)
  PROVE  draft' \in [Tasks -> Runs]
<1>1. [draft[t] EXCEPT !.code = code, !.outputs = outputs] \in Runs
  <2>1. draft[t] \in Runs
    BY DEF TypeOK
  <2> QED BY <2>1 DEF Runs
<1>2. draft' = [draft EXCEPT ![t] = [draft[t] EXCEPT !.code = code, !.outputs = outputs]]
  BY DEF FailWith
<1> QED BY <1>1, <1>2 DEF TypeOK

LEMMA FailRows ==
  ASSUME TypeOK, NEW t \in Tasks, ~ At(t, "idle"), NEW code \in Codes, Fail(t, code)
  PROVE  Rows
<1>1. draft[t].outputs \in Seq(Refs) /\ FailWith(t, code, draft[t].outputs)
  BY DEF TypeOK, Fail, Runs
<1>2. draft' \in [Tasks -> Runs]
  BY <1>1, FailTypes
<1>3. Goto(t, "failed") /\ command' = command
  BY <1>1 DEF FailWith
<1> QED BY <1>2, <1>3, ProceedRows DEF Places

\* Every step, one by one.
LEMMA LookupTypes ==
  ASSUME WorkInv, NEW t \in Tasks, Lookup(t) \/ ReadBack(t) \/ Crash(t)
  PROVE  TypeOK'
<1>1. ~ At(t, "idle") /\ TypeOK
  BY DEF WorkInv, Lookup, ReadBack, Crash, At
<1>2. Rest(t) \/ (Goto(t, "claim") /\ UNCHANGED <<command, draft>>)
  BY DEF Lookup, ReadBack, Crash, Refuse, Answer, Proceed
<1>3. Rows
  <2>1. CASE Rest(t)
    BY <1>1, <2>1, RestRows
  <2>2. CASE Goto(t, "claim") /\ UNCHANGED <<command, draft>>
    BY <1>1, <2>2, ProceedRows DEF Places, TypeOK
  <2> QED BY <1>2, <2>1, <2>2
<1>4. UNCHANGED <<stored, starts>> /\ lock' \in Tasks \cup {Free, Stale}
  BY <1>1 DEF Lookup, ReadBack, Crash, TypeOK
<1> QED BY <1>1, <1>3, <1>4 DEF TypeOK, Rows, At, stored

LEMMA AgainRows ==
  ASSUME TypeOK, NEW t \in Tasks, ~ At(t, "idle"), Again(t)
  PROVE  Rows
<1>1. CASE Refuse(t)
  BY <1>1, RestRows DEF Refuse
<1>2. CASE Proceed(t, "lookup")
  BY <1>2, ProceedRows DEF Proceed, Places, TypeOK
<1> QED BY <1>1, <1>2 DEF Again

LEMMA ClaimTypes ==
  ASSUME WorkInv, NEW t \in Tasks,
         TakeLock(t) \/ Claim(t) \/ PublishIntent(t) \/ ReleaseClaim(t)
  PROVE  TypeOK'
<1>1. ~ At(t, "idle") /\ TypeOK
  BY DEF WorkInv, TakeLock, Claim, PublishIntent, ReleaseClaim, At
<1>2. command[t] \in Commands /\ command[t].id \in IntentIds
  BY <1>1, CallHasCommand
<1>3. \A place \in Places \ {"idle"} : Proceed(t, place) => Rows
  BY <1>1, ProceedRows DEF Proceed, TypeOK
<1>4. CASE TakeLock(t)
  <2>1. Rows
    <3>1. Fail(t, "PRODUCTION_BUSY") => Rows
      BY <1>1, FailRows DEF Codes
    <3>2. Again(t) => Rows
      BY <1>1, AgainRows
    <3>3. "claiming" \in Places \ {"idle"} /\ "registering" \in Places \ {"idle"}
      BY DEF Places
    <3> QED BY <1>3, <1>4, <3>1, <3>2, <3>3 DEF TakeLock
  <2>2. UNCHANGED <<stored, starts>> /\ lock' \in Tasks \cup {Free, Stale}
    BY <1>1, <1>4 DEF TakeLock, TypeOK
  <2> QED BY <1>1, <2>1, <2>2 DEF TypeOK, Rows, At, stored
<1>5. CASE Claim(t)
  <2>1. Rows
    BY <1>3, <1>5 DEF Claim, Places
  <2>2. UNCHANGED <<stored, starts, lock>>
    BY <1>5 DEF Claim
  <2> QED BY <1>1, <2>1, <2>2 DEF TypeOK, Rows, At, stored
<1>6. CASE PublishIntent(t)
  <2>1. Rows
    <3>1. "claimed" \in Places \ {"idle"} /\ "unclaimed" \in Places \ {"idle"}
      BY DEF Places
    <3>2. Proceed(t, "claimed") \/ Proceed(t, "unclaimed")
      BY <1>6 DEF PublishIntent
    <3> QED BY <1>3, <3>1, <3>2
  <2>2. UNCHANGED <<runs, registry, contents, made, lock, starts>>
        /\ intents' \in [IntentIds -> Commands \cup {None}]
    BY <1>1, <1>2, <1>6 DEF PublishIntent, TypeOK
  <2> QED BY <1>1, <2>1, <2>2 DEF TypeOK, Rows, At
<1>7. CASE ReleaseClaim(t)
  <2>1. Rows
    <3>1. Again(t) => Rows
      BY <1>1, AgainRows
    <3>2. "stage" \in Places \ {"idle"}
      BY DEF Places
    <3> QED BY <1>3, <1>7, <3>1, <3>2 DEF ReleaseClaim
  <2>2. UNCHANGED stored /\ lock' \in Tasks \cup {Free, Stale} /\ starts' \in [IntentIds -> Nat]
    BY <1>1, <1>2, <1>7 DEF ReleaseClaim, Unlink, UnlinkFails, TypeOK
  <2> QED BY <1>1, <2>1, <2>2 DEF TypeOK, Rows, At, stored
<1> QED BY <1>4, <1>5, <1>6, <1>7

LEMMA FinishTypes ==
  ASSUME WorkInv, NEW t \in Tasks, Working(t), Finish(t),
         command[t].kind = "NORMALIZE" =>
           made[command[t].id].decoded \in {"CANDIDATE", "REJECTED", "UNREADABLE"}
  PROVE  Rows
<1>1. PICK c \in Commands, d \in Runs : c = command[t] /\ d = draft[t]
  BY WorkingFacts
<1>2. TypeOK /\ ~ At(t, "idle")
  BY DEF WorkInv, Working, At
<1> DEFINE e == [d EXCEPT !.outputs = Upstream(c) \o Own(c), !.stages = FinalStages(c),
                          !.state = FinalState(c), !.artifact = "yes", !.receipt = "yes"]
<1>3. e \in Runs
  <2>1. Upstream(c) \o Own(c) \in Seq(Refs) /\ FinalStages(c) \in Seq(Stages)
        /\ FinalState(c) \in {"COMPLETED", "QUARANTINED"}
    BY <1>1, OutputRefs, FinalStagesTypes
  <2> QED BY <2>1 DEF Runs, Said
<1>4. draft' = [draft EXCEPT ![t] = e]
  BY <1>1 DEF Finish
<1> HIDE DEF e
<1>5. draft' \in [Tasks -> Runs]
  BY <1>2, <1>3, <1>4 DEF TypeOK
<1> QED BY <1>2, <1>5, ProceedRows DEF Finish, Places

LEMMA RegisterTypes ==
  ASSUME WorkInv, NEW t \in Tasks, Register(t) \/ ReleaseRegistration(t)
  PROVE  TypeOK'
<1>1. ~ At(t, "idle") /\ Working(t) /\ TypeOK
  BY DEF WorkInv, Register, ReleaseRegistration, At, Working
<1>2. PICK c \in Commands, d \in Runs : c = command[t] /\ d = draft[t]
  BY <1>1, WorkingFacts
<1>3. CASE Register(t)
  <2>1. c.kind = "REGISTER" /\ c.name \in Names
    <3>1. c.kind = "REGISTER"
      BY <1>1, <1>2, <1>3, WorkingFacts DEF Register, Progress
    <3> QED BY <3>1, CommandFields
  <2>2. DOMAIN registry' = Names /\ UNCHANGED <<intents, runs, contents, made, lock, starts>>
    BY <1>1, <1>2, <1>3, <2>1 DEF Register, TypeOK
  <2>3. draft' \in [Tasks -> Runs] /\ command' = command /\ Goto(t, "registered")
    <3>1. CASE Proceed(t, "registered")
      BY <1>1, <3>1 DEF Proceed, TypeOK
    <3>2. CASE ~ Proceed(t, "registered")
      <4>1. PICK code : /\ draft' = [draft EXCEPT ![t].code = code]
                        /\ code \in {"REGISTRATION_CONFLICT", "CATALOG_CAPACITY", "STAGE_FAILED"}
                        /\ command' = command /\ Goto(t, "registered")
        BY <1>3, <3>2 DEF Register
      <4>2. [d EXCEPT !.code = code] \in Runs
        BY <4>1 DEF Runs, Codes
      <4>3. draft' = [draft EXCEPT ![t] = [d EXCEPT !.code = code]]
        BY <1>2, <4>1
      <4> HIDE DEF Runs
      <4> QED BY <1>1, <4>1, <4>2, <4>3 DEF TypeOK
    <3> QED BY <3>1, <3>2
  <2>4. Rows
    BY <1>1, <2>3, ProceedRows DEF Places
  <2> QED BY <1>1, <2>2, <2>4 DEF TypeOK, Rows, At
<1>4. CASE ReleaseRegistration(t)
  <2>1. Rows
    <3>1. command[t].kind = "REGISTER"
      BY <1>1, <1>4, WorkingFacts DEF ReleaseRegistration, Progress, Shape
    <3>2. Finish(t) => Rows
      BY <1>1, <3>1, FinishTypes
    <3>3. draft[t].code \in Codes /\ "STAGE_FAILED" \in Codes
      BY <1>2 DEF Runs, Codes
    <3>4. \A code \in Codes : Fail(t, code) => Rows
      BY <1>1, FailRows
    <3> QED BY <1>4, <3>2, <3>3, <3>4 DEF ReleaseRegistration
  <2>2. UNCHANGED <<stored, starts>> /\ lock' \in Tasks \cup {Free, Stale}
    BY <1>1, <1>4 DEF ReleaseRegistration, Unlink, UnlinkFails, TypeOK
  <2> QED BY <1>1, <2>1, <2>2 DEF TypeOK, Rows, At, stored
<1> QED BY <1>3, <1>4

\* The refusals of a stage and of a binding are codes.
LEMMA RequirementIsACode ==
  ASSUME NEW c \in Commands
  PROVE  Requirement(c) = "OK" \/ Requirement(c) \in Codes
<1>1. CASE c.kind = "REGISTER"
  BY <1>1 DEF Requirement
<1>2. CASE c.kind = "BUILD_CANDIDATES"
  BY <1>2 DEF Requirement, Codes
<1>3. CASE c.kind = "ACQUIRE"
  BY <1>3 DEF Requirement, Codes
<1>4. CASE c.kind = "NORMALIZE"
  BY <1>4 DEF Requirement, Codes
<1> QED BY <1>1, <1>2, <1>3, <1>4, CommandFields

LEMMA BeginStageTypes ==
  ASSUME WorkInv, NEW t \in Tasks, BeginStage(t)
  PROVE  TypeOK'
<1>1. ~ At(t, "idle") /\ Working(t) /\ TypeOK
  BY DEF WorkInv, BeginStage, At, Working
<1>2. PICK c \in Commands : c = command[t]
  BY <1>1, WorkingFacts
<1>3. Rows
  <2>1. \A code \in Codes : Fail(t, code) => Rows
    BY <1>1, FailRows
  <2>2. \A place \in Places \ {"idle"} : Proceed(t, place) => Rows
    BY <1>1, ProceedRows DEF Proceed, TypeOK
  <2>3. ASSUME c.kind = "NORMALIZE", Note(t, "bind", Upstream(c), Inspected(c))
        PROVE  Rows
    <3>1. "EVIDENCE_INSPECTION" \in StageNames /\ "COMPLETED" \in StageStates
      BY DEF StageNames, StageStates
    <3>2. Upstream(c) \in Seq(Refs) /\ Inspected(c) \in Seq(Stages)
      BY <3>1, UpstreamRefs, StageTypes, FewStages DEF Inspected
    <3>3. draft' \in [Tasks -> Runs]
      BY <1>1, <2>3, <3>2, NoteTypes
    <3> QED BY <1>1, <2>3, <3>3, ProceedRows DEF Note, Places
  <2>4. "STORED_RECORD_INVALID" \in Codes /\ {"register", "bytes", "bind"} \subseteq Places \ {"idle"}
    BY DEF Codes, Places
  <2>5. \/ \E code \in Codes : Fail(t, code)
        \/ \E place \in {"register", "bytes", "bind"} : Proceed(t, place)
        \/ c.kind = "NORMALIZE" /\ Note(t, "bind", Upstream(c), Inspected(c))
    BY <1>2, <2>4, RequirementIsACode DEF BeginStage, Inspected
  <2> QED BY <2>1, <2>2, <2>3, <2>4, <2>5
<1>4. UNCHANGED <<stored, lock, starts>>
  BY DEF BeginStage
<1> QED BY <1>1, <1>3, <1>4 DEF TypeOK, Rows, At, stored

LEMMA CaptureTypes ==
  ASSUME WorkInv, NEW t \in Tasks, StoreBytes(t) \/ VerifyArtifact(t)
  PROVE  TypeOK'
<1>1. ~ At(t, "idle") /\ Working(t) /\ TypeOK
  BY DEF WorkInv, StoreBytes, VerifyArtifact, At, Working
<1>2. PICK c \in Commands : c = command[t] /\ c.id \in IntentIds
  BY <1>1, WorkingFacts
<1>3. \A code \in Codes : Fail(t, code) => Rows
  BY <1>1, FailRows
<1>4. CASE StoreBytes(t)
  <2>1. c.kind = "ACQUIRE" /\ c.content \in SourceContents
    <3>1. c.kind = "ACQUIRE"
      BY <1>1, <1>2, <1>4, WorkingFacts DEF StoreBytes, Progress
    <3> QED BY <3>1, CommandFields
  <2>2. contents' \subseteq SourceContents /\ UNCHANGED <<intents, runs, registry, made, lock, starts>>
    BY <1>1, <1>2, <1>4, <2>1 DEF StoreBytes, TypeOK
  <2>3. Rows
    <3>1. Proceed(t, "publish") => Rows
      BY <1>1, ProceedRows DEF Proceed, TypeOK, Places
    <3>2. "STAGE_FAILED" \in Codes
      BY DEF Codes
    <3> QED BY <1>3, <1>4, <3>1, <3>2 DEF StoreBytes
  <2> QED BY <1>1, <2>2, <2>3 DEF TypeOK, Rows, At
<1>5. CASE VerifyArtifact(t)
  <2>1. c.kind = "NORMALIZE" => made[c.id].decoded \in {"CANDIDATE", "REJECTED", "UNREADABLE"}
    <3>1. made[c.id] = Artifact(c) /\ c.kind # "REGISTER" /\ (c.kind = "NORMALIZE" => HasAcquisition(c))
      BY <1>1, <1>2, <1>5, WorkingFacts DEF VerifyArtifact, Progress
    <3> QED BY <1>1, <3>1, ArtifactTypes DEF HasAcquisition, TypeOK
  <2>2. Finish(t) => Rows
    BY <1>1, <1>2, <2>1, FinishTypes
  <2>3. Rows
    <3>1. "EVIDENCE_INTEGRITY_FAILED" \in Codes /\ "DEPENDENCY_INTEGRITY_FAILED" \in Codes
      BY DEF Codes
    <3> QED BY <1>3, <1>5, <2>2, <3>1 DEF VerifyArtifact
  <2>4. UNCHANGED <<stored, lock, starts>>
    BY <1>5 DEF VerifyArtifact
  <2> QED BY <1>1, <2>3, <2>4 DEF TypeOK, Rows, At, stored
<1> QED BY <1>4, <1>5

\* One more member of a build has been inspected.
LEMMA ListedMembers ==
  ASSUME WorkInv, NEW t \in Tasks, BindMember(t)
  PROVE  LET c == command[t]
             k == Len(draft[t].outputs)
             listed == SubSeq(Upstream(c), 1, k + 1) IN
         /\ c.kind = "BUILD_CANDIDATES" /\ c \in Commands
         /\ k \in Nat /\ k + 1 \in 1 .. Len(c.members)
         /\ Len(Upstream(c)) = Len(c.members) /\ Upstream(c) \in Seq(Refs)
         /\ draft[t].outputs = SubSeq(Upstream(c), 1, k)
         /\ draft[t].stages = << >>
         /\ listed \in Seq(Refs) /\ Len(listed) = k + 1
         /\ c.members[k + 1] \in IntentIds
<1>1. Working(t) /\ At(t, "bind")
  BY DEF BindMember, At, Working
<1>2. PICK c \in Commands, d \in Runs : c = command[t] /\ d = draft[t]
  BY <1>1, WorkingFacts
<1>3. c.kind = "BUILD_CANDIDATES"
  BY <1>2 DEF BindMember
<1>4. /\ Len(d.outputs) < Len(c.members)
      /\ d.outputs = SubSeq(Upstream(c), 1, Len(d.outputs)) /\ d.stages = << >>
  BY <1>1, <1>2, <1>3, WorkingFacts DEF Progress, Shape
<1>5. Len(d.outputs) \in Nat
  BY LenProperties DEF Runs
<1>6. Len(Upstream(c)) = Len(c.members) /\ Upstream(c) \in Seq(Refs) /\ Len(c.members) \in Nat
      /\ \A k \in 1 .. Len(c.members) : c.members[k] \in IntentIds
  BY <1>3, UpstreamRefs
<1>7. Len(d.outputs) + 1 \in 1 .. Len(c.members) /\ Len(d.outputs) + 1 \in 0 .. Len(Upstream(c))
  BY <1>4, <1>5, <1>6
<1>8. SubSeq(Upstream(c), 1, Len(d.outputs) + 1) \in Seq(Refs)
      /\ Len(SubSeq(Upstream(c), 1, Len(d.outputs) + 1)) = Len(d.outputs) + 1
  BY <1>6, <1>7, PrefixOfRefs
<1> QED BY <1>2, <1>3, <1>4, <1>5, <1>6, <1>7, <1>8

LEMMA BindTypes ==
  ASSUME WorkInv, NEW t \in Tasks, BindAcquisition(t) \/ BindMember(t)
  PROVE  TypeOK'
<1>1. ~ At(t, "idle") /\ Working(t) /\ TypeOK
  BY DEF WorkInv, BindAcquisition, BindMember, At, Working
<1>2. \A code \in Codes : Fail(t, code) => Rows
  BY <1>1, FailRows
<1>3. UNCHANGED <<stored, lock, starts>>
  BY DEF BindAcquisition, BindMember
<1>4. Rows
  <2>1. CASE BindAcquisition(t)
    <3>1. Proceed(t, "publish") => Rows
      BY <1>1, ProceedRows DEF Proceed, TypeOK, Places
    <3>2. Proceed(t, "publish") \/ \E code \in Codes : Fail(t, code)
      BY <2>1 DEF BindAcquisition, Codes
    <3> QED BY <1>2, <3>1, <3>2
  <2>2. CASE BindMember(t)
    <3>1. PICK listed \in Seq(Refs) :
            listed = SubSeq(Upstream(command[t]), 1, Len(draft[t].outputs) + 1)
      BY <2>2, ListedMembers
    <3>2. \A code \in Codes : FailWith(t, code, listed) => Rows
      BY <1>1, <3>1, FailTypes, ProceedRows DEF FailWith, Places
    <3>3. \A place \in {"publish", "bind"} : Note(t, place, listed, << >>) => Rows
      <4>1. << >> \in Seq(Stages)
        BY EmptySeq
      <4> QED BY <1>1, <3>1, <4>1, NoteTypes, ProceedRows DEF Note, Places
    <3>4. \/ \E place \in {"publish", "bind"} : Note(t, place, listed, << >>)
          \/ \E code \in Codes : FailWith(t, code, listed) \/ Fail(t, code)
      BY <2>2, <3>1 DEF BindMember, Codes
    <3> QED BY <1>2, <3>2, <3>3, <3>4
  <2> QED BY <2>1, <2>2
<1> QED BY <1>1, <1>3, <1>4 DEF TypeOK, Rows, At, stored

LEMMA PublishArtifactTypes ==
  ASSUME WorkInv, NEW t \in Tasks, PublishArtifact(t)
  PROVE  /\ TypeOK'
         /\ Artifact(command[t]) \in Artifacts /\ Artifact(command[t]) # None
<1>1. ~ At(t, "idle") /\ Working(t) /\ TypeOK
  BY DEF WorkInv, PublishArtifact, At, Working
<1>2. PICK c \in Commands : c = command[t] /\ c.id \in IntentIds
  BY <1>1, WorkingFacts
<1>3. Artifact(c) \in Artifacts /\ Artifact(c) # None
  <2>1. c.kind # "REGISTER" /\ (c.kind = "NORMALIZE" => HasAcquisition(c))
    BY <1>1, <1>2, WorkingFacts DEF PublishArtifact, Progress
  <2> QED BY <1>1, <2>1, ArtifactTypes DEF HasAcquisition, TypeOK
<1>4. made' \in [IntentIds -> Artifacts \cup {None}] /\ UNCHANGED <<intents, runs, registry, contents, lock, starts>>
  BY <1>1, <1>2, <1>3 DEF PublishArtifact, TypeOK
<1>5. Rows
  <2>1. \A code \in Codes : Fail(t, code) => Rows
    BY <1>1, FailRows
  <2>2. Proceed(t, "verify") => Rows
    BY <1>1, ProceedRows DEF Proceed, TypeOK, Places
  <2>3. Note(t, "verify", Upstream(c) \o Own(c), Assembled(c)) => Rows
    <3>1. Upstream(c) \o Own(c) \in Seq(Refs) /\ Assembled(c) \in Seq(Stages)
      <4>1. "CANDIDATE_ASSEMBLY" \in StageNames /\ "COMPLETED" \in StageStates
        BY DEF StageNames, StageStates
      <4> QED BY <4>1, OutputRefs, OwnRef, StageTypes, FewStages DEF Assembled
    <3> QED BY <1>1, <3>1, NoteTypes, ProceedRows DEF Note, Places
  <2>4. "STAGE_FAILED" \in Codes /\ "SOURCE_IDENTITY_CONFLICT" \in Codes
    BY DEF Codes
  <2> QED BY <1>2, <2>1, <2>2, <2>3, <2>4 DEF PublishArtifact, Assembled
<1> QED BY <1>1, <1>2, <1>3, <1>4, <1>5 DEF TypeOK, Rows, At

LEMMA RunTypes ==
  ASSUME WorkInv, NEW t \in Tasks, Discover(t) \/ SaveRun(t)
  PROVE  TypeOK'
<1>1. ~ At(t, "idle") /\ Working(t) /\ TypeOK
  BY DEF WorkInv, Discover, SaveRun, At, Working
<1>2. PICK c \in Commands, d \in Runs : c = command[t] /\ d = draft[t] /\ c.id \in IntentIds
  BY <1>1, WorkingFacts
<1>3. CASE Discover(t)
  <2>1. FailedShape(c, d)
    BY <1>1, <1>2, <1>3, WorkingFacts DEF Discover, Progress, Shape
  <2>2. PICK unread \in BOOLEAN : draft' = [draft EXCEPT ![t] = Failed(c, d, unread)]
    BY <1>2, <1>3, RailAssumption DEF Discover
  <2>3. Failed(c, d, unread) \in Runs
    BY <2>1, FailedTypes
  <2>4. draft' \in [Tasks -> Runs]
    BY <1>1, <2>2, <2>3 DEF TypeOK
  <2>5. Rows
    BY <1>1, <1>3, <2>4, ProceedRows DEF Discover, Places
  <2> QED BY <1>1, <1>3, <2>5 DEF TypeOK, Rows, At, stored, Discover
<1>4. CASE SaveRun(t)
  <2>1. Rows
    BY <1>1, <1>4, ProceedRows, RestRows DEF SaveRun, Proceed, Refuse, TypeOK, Places
  <2>2. runs' \in [IntentIds -> Runs \cup {None}]
        /\ UNCHANGED <<intents, registry, contents, made, lock, starts>>
    BY <1>1, <1>2, <1>4 DEF SaveRun, TypeOK
  <2> QED BY <1>1, <2>1, <2>2 DEF TypeOK, Rows, At
<1> QED BY <1>3, <1>4

LEMMA BeginTypes ==
  ASSUME WorkInv, NEW t \in Tasks, NEW c \in Commands, Begin(t, c)
  PROVE  TypeOK'
<1>1. TypeOK /\ c # None
  BY CommandFields DEF WorkInv
<1> QED BY <1>1 DEF TypeOK, Begin, Goto, At, Places, stored

LEMMA TypeStep == WorkInv /\ [Next]_vars => TypeOK'
<1> SUFFICES ASSUME WorkInv, [Next]_vars PROVE TypeOK'
  OBVIOUS
<1>1. TypeOK
  BY DEF WorkInv
<1>2. CASE UNCHANGED vars
  BY <1>1, <1>2 DEF TypeOK, vars, stored, At
<1>3. CASE RemoveLock
  BY <1>1, <1>3 DEF TypeOK, RemoveLock, stored, At
<1>4. ASSUME NEW t \in Tasks, Step(t)
      PROVE  TypeOK'
  BY <1>4, LookupTypes, ClaimTypes, BeginStageTypes, RegisterTypes, CaptureTypes, BindTypes,
     PublishArtifactTypes, RunTypes DEF Step
<1> QED BY <1>2, <1>3, <1>4, BeginTypes, LookupTypes DEF Next

-----------------------------------------------------------------------------
(* What a step of one worker leaves alone.                                 *)

Touches(t) ==
  LET i == command[t].id IN
  /\ \A u \in Tasks \ {t} : pc'[u] = pc[u] /\ command'[u] = command[u] /\ draft'[u] = draft[u]
  /\ \A j \in IntentIds \ {i} : /\ intents'[j] = intents[j] /\ runs'[j] = runs[j]
                                /\ starts'[j] = starts[j] /\ made'[j] = made[j]
  /\ \A j \in IntentIds : /\ intents[j] # None => intents'[j] = intents[j]
                          /\ runs[j] # None => runs'[j] # None
                          /\ made[j] # None => made'[j] = made[j]
  /\ ~ Working(t) => UNCHANGED <<runs, starts, made>>

\* An artifact stays what it is.
LEMMA ArtifactStays ==
  ASSUME NEW c \in Commands, c.kind # "REGISTER",
         \A j \in IntentIds : made[j] # None => made'[j] = made[j],
         c.kind = "NORMALIZE" => HasAcquisition(c)
  PROVE  Artifact(c)' = Artifact(c) /\ (c.kind = "NORMALIZE" => HasAcquisition(c)')
<1>1. c.kind = "NORMALIZE" => made'[c.acquisition] = made[c.acquisition]
  BY CommandFields DEF HasAcquisition
<1>2. (c.kind = "NORMALIZE" => HasAcquisition(c)')
  BY <1>1 DEF HasAcquisition
<1>3. CASE c.kind = "ACQUIRE"
  BY <1>2, <1>3 DEF Artifact
<1>4. CASE c.kind = "NORMALIZE"
  BY <1>1, <1>2, <1>4 DEF Artifact
<1>5. CASE c.kind = "BUILD_CANDIDATES"
  BY <1>2, <1>5 DEF Artifact
<1> QED BY <1>3, <1>4, <1>5, CommandFields

LEMMA TouchesKeeps ==
  ASSUME WorkInv, TypeOK', NEW t \in Tasks, Touches(t), CallInv(t)',
         \A i \in IntentIds : i = command[t].id => IdentityInv(i)',
         Working(t)' => /\ command'[t] = command[t]
                        /\ Working(t) \/ intents[command[t].id] = None
  PROVE  WorkInv'
<1>1. ASSUME NEW j \in IntentIds, j # command[t].id
      PROVE  IdentityInv(j)'
  <2>1. IdentityInv(j)
    BY DEF WorkInv
  <2> QED BY <1>1, <2>1 DEF Touches, IdentityInv
<1>2. ASSUME NEW u \in Tasks \ {t}
      PROVE  CallInv(u)'
  <2>1. CallInv(u) /\ pc'[u] = pc[u] /\ command'[u] = command[u] /\ draft'[u] = draft[u]
    BY DEF Touches, WorkInv
  <2>2. ASSUME Working(u)
        PROVE  Progress(u)'
    <3>1. PICK c \in Commands, d \in Runs : c = command[u] /\ d = draft[u] /\ c.id \in IntentIds
      BY <2>2, WorkingFacts
    <3>2. Progress(u) /\ c # None
      BY <2>2, WorkingFacts, CommandFields
    <3>3. c.id = command[t].id => ~ Working(t)
      BY <2>2, <3>1 DEF WorkInv, WorksAlone
    <3>4. /\ intents'[c.id] = intents[c.id] /\ runs'[c.id] = runs[c.id]
          /\ starts'[c.id] = starts[c.id] /\ made'[c.id] = made[c.id]
      BY <3>1, <3>2, <3>3 DEF Touches, Progress
    <3>5. \A j \in IntentIds : made[j] # None => made'[j] = made[j]
      BY DEF Touches
    <3>6. c.kind = "NORMALIZE" /\ HasAcquisition(c) => HasAcquisition(c)'
      BY <3>5, ArtifactStays
    <3>7. /\ At(u, "verify") => Artifact(c)' = Artifact(c)
          /\ made[c.id] # None => Artifact(c)' = Artifact(c)
      BY <3>1, <3>2, <3>5, ArtifactStays DEF Progress
    <3>8. FailedShape(c, d) => FailedShape(c, d)'
      BY <3>4 DEF FailedShape
    <3>9. Shape(u)'
      BY <2>1, <3>1, <3>2, <3>8 DEF Progress, Shape, At
    <3> QED BY <2>1, <3>1, <3>2, <3>4, <3>6, <3>7, <3>9 DEF Progress, At
  <2>3. ASSUME At(u, "saved")
        PROVE  intents'[command[u].id] = command[u] /\ runs'[command[u].id] # None
    <3>1. command[u] \in Commands /\ command[u].id \in IntentIds /\ command[u] # None
      BY <2>3, CallHasCommand, CommandFields DEF At
    <3> QED BY <2>1, <2>3, <3>1 DEF CallInv, Touches
  <2> QED BY <2>1, <2>2, <2>3 DEF CallInv, Untouched, Working, At
<1>3. WorksAlone'
  <2> SUFFICES ASSUME NEW u \in Tasks, NEW v \in Tasks, Working(u)', Working(v)',
                      command'[u].id = command'[v].id, u # v
               PROVE  FALSE
    BY DEF WorksAlone
  <2>1. \A w \in Tasks \ {t} : Working(w)' => Working(w) /\ command'[w] = command[w]
    BY DEF Touches, Working
  <2>2. \A w \in Tasks : Working(w) => intents[command[w].id] # None
    BY WorkingFacts, CommandFields DEF Progress
  <2> QED BY <2>1, <2>2 DEF WorkInv, WorksAlone
<1>4. \A j \in IntentIds : IdentityInv(j)'
  BY <1>1
<1> QED BY <1>2, <1>3, <1>4 DEF WorkInv

\* A step that changes no file and ends the call.
LEMMA RestKeeps ==
  ASSUME WorkInv, TypeOK', NEW t \in Tasks, Rest(t), UNCHANGED <<stored, starts>>
  PROVE  WorkInv'
<1>1. pc'[t] = "idle" /\ draft'[t] = NoDraft
  BY DEF WorkInv, TypeOK, Rest, Goto
<1>2. CallInv(t)' /\ ~ Working(t)'
  BY <1>1 DEF CallInv, Untouched, Working, At
<1>3. Touches(t)
  BY DEF Touches, Rest, Goto, WorkInv, TypeOK, stored
<1>4. \A i \in IntentIds : IdentityInv(i)'
  BY DEF WorkInv, IdentityInv, stored
<1> QED BY <1>2, <1>3, <1>4, TouchesKeeps

\* A step that goes on to a place where nothing is claimed yet.
LEMMA ProceedKeeps ==
  ASSUME WorkInv, TypeOK', NEW t \in Tasks, Untouched(t), UNCHANGED <<stored, starts>>,
         NEW place \in {"lookup", "claim", "claiming", "intending", "unclaimed"},
         Goto(t, place), draft' = draft, \A u \in Tasks \ {t} : command'[u] = command[u]
  PROVE  WorkInv'
<1>1. pc'[t] = place /\ draft'[t] = NoDraft
  BY DEF WorkInv, TypeOK, Goto, CallInv
<1>2. CallInv(t)' /\ ~ Working(t)'
  BY <1>1 DEF CallInv, Working, At
<1>3. Touches(t)
  BY DEF Touches, Goto, WorkInv, TypeOK, stored
<1>4. \A i \in IntentIds : IdentityInv(i)'
  BY DEF WorkInv, IdentityInv, stored
<1> QED BY <1>2, <1>3, <1>4, TouchesKeeps

LEMMA LookupKeeps ==
  ASSUME WorkInv, TypeOK', NEW t \in Tasks, Lookup(t) \/ ReadBack(t) \/ Crash(t)
  PROVE  WorkInv'
<1>1. UNCHANGED <<stored, starts>>
  BY DEF Lookup, ReadBack, Crash
<1>2. CASE Rest(t)
  BY <1>1, <1>2, RestKeeps
<1>3. CASE Lookup(t) /\ Proceed(t, "claim")
  <2>1. Untouched(t)
    BY <1>3 DEF Lookup, Untouched, At
  <2> QED BY <1>1, <1>3, <2>1, ProceedKeeps DEF Proceed
<1> QED BY <1>2, <1>3 DEF Lookup, ReadBack, Crash, Refuse, Answer

LEMMA BeginKeeps ==
  ASSUME WorkInv, TypeOK', NEW t \in Tasks, NEW c \in Commands, Begin(t, c)
  PROVE  WorkInv'
<1>1. Untouched(t) /\ \A u \in Tasks \ {t} : command'[u] = command[u]
  BY DEF WorkInv, TypeOK, Begin, Untouched, At
<1> QED BY <1>1, ProceedKeeps DEF Begin

LEMMA AgainKeeps ==
  ASSUME WorkInv, TypeOK', NEW t \in Tasks, Untouched(t), Again(t), UNCHANGED <<stored, starts>>
  PROVE  WorkInv'
BY RestKeeps, ProceedKeeps DEF Again, Refuse, Proceed

LEMMA ClaimKeeps ==
  ASSUME WorkInv, TypeOK', NEW t \in Tasks, Claim(t) \/ (TakeLock(t) /\ At(t, "claim"))
  PROVE  WorkInv'
<1>1. UNCHANGED <<stored, starts>> /\ Untouched(t)
  BY DEF Claim, TakeLock, Untouched, At
<1>2. CASE Again(t)
  BY <1>1, <1>2, AgainKeeps
<1>3. CASE \E place \in {"claiming", "intending", "unclaimed"} : Proceed(t, place)
  BY <1>1, <1>3, ProceedKeeps DEF Proceed
<1> QED BY <1>2, <1>3 DEF Claim, TakeLock, At

\* The request is claimed: nobody else has an intent of this identity.
LEMMA PublishIntentKeeps ==
  ASSUME WorkInv, TypeOK', NEW t \in Tasks, PublishIntent(t)
  PROVE  WorkInv'
<1>1. ~ At(t, "idle") /\ Untouched(t) /\ ~ Working(t) /\ At(t, "intending")
  BY DEF PublishIntent, At, Untouched, Working
<1>2. PICK c \in Commands : c = command[t] /\ c.id \in IntentIds /\ c # None
  BY <1>1, CallHasCommand, CommandFields
<1>3. UNCHANGED <<runs, registry, contents, made, starts, command, draft>>
  BY DEF PublishIntent, Proceed
<1>4. CASE Proceed(t, "unclaimed") /\ UNCHANGED intents
  BY <1>1, <1>3, <1>4, ProceedKeeps DEF Proceed, stored
<1>5. CASE intents[c.id] = None /\ intents' = [intents EXCEPT ![c.id] = c]
           /\ \E place \in {"claimed", "unclaimed"} : Goto(t, place)
  <2>1. intents'[c.id] = c /\ \A j \in IntentIds \ {c.id} : intents'[j] = intents[j]
    BY <1>2, <1>5 DEF WorkInv, TypeOK
  <2>2. pc'[t] \in {"claimed", "unclaimed"} /\ \A u \in Tasks \ {t} : pc'[u] = pc[u]
    BY <1>5 DEF WorkInv, TypeOK, Goto
  <2>3. starts[c.id] = 0 /\ runs[c.id] = None /\ made[c.id] = None
    BY <1>2, <1>5 DEF WorkInv, IdentityInv
  <2>4. IdentityInv(c.id)'
    BY <1>2, <1>3, <2>1, <2>3 DEF IdentityInv
  <2>5. Touches(t)
    BY <1>2, <1>3, <1>5, <2>1, <2>2 DEF Touches
  <2>6. draft[t] = NoDraft
    BY <1>1 DEF WorkInv, CallInv
  <2>7. CallInv(t)'
    <3>1. Shape(t)'
      BY <2>2 DEF Shape, At
    <3>2. Working(t)' => Progress(t)'
      BY <1>2, <1>3, <2>1, <2>2, <2>3, <3>1 DEF Progress, At, Working
    <3> QED BY <1>3, <2>2, <2>6, <3>2 DEF CallInv, At
  <2> QED BY <1>2, <1>3, <1>5, <2>4, <2>5, <2>7, TouchesKeeps
<1>6. \/ Proceed(t, "unclaimed") /\ UNCHANGED intents
      \/ /\ intents[c.id] = None /\ intents' = [intents EXCEPT ![c.id] = c]
         /\ \E place \in {"claimed", "unclaimed"} : Goto(t, place)
  BY <1>2 DEF PublishIntent, Proceed
<1> QED BY <1>4, <1>5, <1>6

LEMMA ReleaseClaimKeeps ==
  ASSUME WorkInv, TypeOK', NEW t \in Tasks, ReleaseClaim(t)
  PROVE  WorkInv'
<1>1. Untouched(t) /\ UNCHANGED stored
  BY DEF ReleaseClaim, Untouched, At
<1>2. CASE Again(t) /\ UNCHANGED starts
  BY <1>1, <1>2, AgainKeeps
<1>3. CASE At(t, "claimed") /\ Proceed(t, "stage")
           /\ starts' = [starts EXCEPT ![command[t].id] = @ + 1]
  <2>1. Working(t)
    BY <1>3 DEF Working, At
  <2>2. PICK c \in Commands : c = command[t] /\ c.id \in IntentIds /\ Progress(t)
    BY <2>1, WorkingFacts
  <2>3. starts[c.id] = 0 /\ intents[c.id] = c /\ c # None
    BY <1>3, <2>2, CommandFields DEF Progress
  <2>4. starts'[c.id] = 1 /\ \A j \in IntentIds \ {c.id} : starts'[j] = starts[j]
    BY <1>3, <2>2, <2>3 DEF WorkInv, TypeOK
  <2>5. pc'[t] = "stage" /\ (\A u \in Tasks \ {t} : pc'[u] = pc[u])
        /\ UNCHANGED <<intents, runs, registry, contents, made, command, draft>>
    BY <1>1, <1>3 DEF WorkInv, TypeOK, Proceed, Goto, stored
  <2>6. IdentityInv(c.id)'
    BY <2>2, <2>3, <2>4, <2>5 DEF IdentityInv, WorkInv
  <2>7. Touches(t)
    BY <2>1, <2>2, <2>4, <2>5 DEF Touches
  <2>8. CallInv(t)'
    <3>1. Shape(t)'
      BY <2>5 DEF Shape, At
    <3>2. draft[t] = NoDraft
      BY <1>1 DEF WorkInv, CallInv
    <3>3. Progress(t)'
      BY <1>3, <2>2, <2>4, <2>5, <3>1 DEF Progress, At
    <3> QED BY <2>5, <3>2, <3>3 DEF CallInv, At
  <2> QED BY <2>1, <2>2, <2>5, <2>6, <2>7, <2>8, TouchesKeeps
<1> QED BY <1>2, <1>3 DEF ReleaseClaim

\* The artifact of a request is published: there is none of it before.
Publishes(t) ==
  LET c == command[t] IN
  /\ c.kind # "REGISTER"
  /\ c.kind = "NORMALIZE" => HasAcquisition(c)
  /\ made[c.id] = None
  /\ made' = [made EXCEPT ![c.id] = Artifact(c)]

\* A step of a worker that has claimed its request.
LEMMA WorkKeeps ==
  ASSUME WorkInv, TypeOK', NEW t \in Tasks, Working(t), UNCHANGED <<intents, runs, starts, command>>,
         \A u \in Tasks \ {t} : pc'[u] = pc[u] /\ draft'[u] = draft[u],
         made' = made \/ Publishes(t),
         CallInv(t)'
  PROVE  WorkInv'
<1>1. PICK c \in Commands : c = command[t] /\ c.id \in IntentIds /\ Progress(t)
  BY WorkingFacts
<1>2. intents[c.id] # None
  BY <1>1, CommandFields DEF Progress
<1>3. Touches(t)
  BY <1>1 DEF Touches, Publishes, WorkInv, TypeOK
<1>4. IdentityInv(c.id)'
  BY <1>1, <1>2 DEF WorkInv, IdentityInv
<1> QED BY <1>1, <1>3, <1>4, TouchesKeeps

\* What stays true of its request.
LEMMA RequestStays ==
  ASSUME WorkInv, NEW t \in Tasks, Working(t), ~ At(t, "claimed"),
         UNCHANGED <<intents, runs, starts, command>>,
         made' = made \/ Publishes(t)
  PROVE  /\ intents'[command[t].id] = command[t]
         /\ runs'[command[t].id] = None
         /\ starts'[command[t].id] = 1
         /\ \A c \in Commands : c = command[t] =>
              /\ HasAcquisition(c) /\ c.kind = "NORMALIZE" => HasAcquisition(c)'
              /\ c.kind = "REGISTER" => made'[c.id] = None
              /\ made'[c.id] # None => made'[c.id] = Artifact(c)'
              /\ made'[c.id] # None /\ c.kind = "NORMALIZE" => HasAcquisition(c)'
              /\ Publishes(t) => made'[c.id] = Artifact(c)' /\ Artifact(c)' = Artifact(c)
<1>1. PICK c \in Commands : c = command[t] /\ c.id \in IntentIds /\ Progress(t)
  BY WorkingFacts
<1>2. intents[c.id] = c /\ runs[c.id] = None /\ starts[c.id] = 1
  BY <1>1 DEF Progress
<1>3. \A j \in IntentIds : made[j] # None => made'[j] = made[j]
  BY <1>1 DEF Publishes, WorkInv, TypeOK
<1>4. c.kind = "NORMALIZE" /\ HasAcquisition(c) => HasAcquisition(c)'
  BY <1>3, ArtifactStays
<1>5. c.kind # "REGISTER" /\ (c.kind = "NORMALIZE" => HasAcquisition(c)) => Artifact(c)' = Artifact(c)
  BY <1>3, ArtifactStays
<1>6. CASE made' = made
  <2>1. /\ c.kind = "REGISTER" => made[c.id] = None
        /\ made[c.id] # None => made[c.id] = Artifact(c)
        /\ made[c.id] # None /\ c.kind = "NORMALIZE" => HasAcquisition(c)
    BY <1>1 DEF Progress
  <2>2. ~ Publishes(t) \/ (made[c.id] = None /\ made'[c.id] = Artifact(c))
    BY <1>1 DEF Publishes, WorkInv, TypeOK
  <2> QED BY <1>1, <1>2, <1>4, <1>5, <1>6, <2>1, <2>2 DEF Publishes
<1>7. CASE Publishes(t)
  <2>1. made'[c.id] = Artifact(c) /\ c.kind # "REGISTER" /\ (c.kind = "NORMALIZE" => HasAcquisition(c))
    BY <1>1, <1>7 DEF Publishes, WorkInv, TypeOK
  <2> QED BY <1>1, <1>2, <1>4, <1>5, <2>1
<1> QED BY <1>6, <1>7

LEMMA FailKeeps ==
  ASSUME WorkInv, TypeOK', NEW t \in Tasks, Working(t), ~ At(t, "claimed"),
         NEW code, NEW outputs, FailWith(t, code, outputs), UNCHANGED <<intents, runs, starts>>,
         made' = made \/ Publishes(t),
         \A c \in Commands, e \in Runs :
           c = command[t] /\ e.outputs = outputs /\ e.stages = draft[t].stages => FailedShape(c, e)'
  PROVE  WorkInv'
<1>1. PICK c \in Commands, d \in Runs : c = command[t] /\ d = draft[t] /\ c.id \in IntentIds
  BY WorkingFacts
<1>2. command' = command /\ pc'[t] = "failed"
      /\ \A u \in Tasks \ {t} : pc'[u] = pc[u] /\ draft'[u] = draft[u]
  BY DEF FailWith, Goto, WorkInv, TypeOK
<1>3. PICK e \in Runs : e = draft'[t] /\ e.outputs = outputs /\ e.stages = draft[t].stages
  <2>1. draft'[t] \in Runs
    BY DEF TypeOK
  <2>2. draft'[t] = [d EXCEPT !.code = code, !.outputs = outputs]
    BY <1>1 DEF FailWith, WorkInv, TypeOK
  <2>3. draft'[t].outputs = outputs /\ draft'[t].stages = d.stages
    BY <2>2 DEF Runs
  <2> QED BY <1>1, <2>1, <2>3
<1>4. FailedShape(c, e)'
  BY <1>1, <1>3
<1>5. Shape(t)'
  BY <1>1, <1>2, <1>3, <1>4 DEF Shape, At
<1>6. /\ intents'[c.id] = c /\ runs'[c.id] = None /\ starts'[c.id] = 1
      /\ c.kind = "REGISTER" => made'[c.id] = None
      /\ made'[c.id] # None => made'[c.id] = Artifact(c)'
      /\ made'[c.id] # None /\ c.kind = "NORMALIZE" => HasAcquisition(c)'
  BY <1>1, <1>2, RequestStays
<1>7. Progress(t)'
  BY <1>1, <1>2, <1>5, <1>6 DEF Progress, At
<1>8. CallInv(t)'
  BY <1>2, <1>7 DEF CallInv, Untouched, At
<1> QED BY <1>2, <1>8, WorkKeeps

\* It fails before it has put out anything.
LEMMA FailEmptyKeeps ==
  ASSUME WorkInv, TypeOK', NEW t \in Tasks, Working(t), ~ At(t, "claimed"),
         NEW code, Fail(t, code), UNCHANGED <<intents, runs, starts, made>>,
         draft[t].outputs = << >>, draft[t].stages = << >>,
         command[t].kind = "NORMALIZE" => made[command[t].id] = None
  PROVE  WorkInv'
<1>1. FailWith(t, code, << >>)
  BY DEF Fail
<1>2. ASSUME NEW c \in Commands, NEW e \in Runs, c = command[t], e.outputs = << >>,
             e.stages = << >>
      PROVE  FailedShape(c, e)'
  <2>1. CASE c.kind = "BUILD_CANDIDATES"
    <3>1. 0 \in 0 .. Len(c.members)
      BY <2>1, UpstreamRefs
    <3>2. SubSeq(Upstream(c), 1, 0) = << >>
      BY SubSeqEmpty
    <3> QED BY <1>2, <2>1, <3>1, <3>2 DEF FailedShape
  <2>2. CASE c.kind # "BUILD_CANDIDATES"
    BY <1>2, <2>2, CommandFields DEF FailedShape
  <2> QED BY <2>1, <2>2
<1> QED BY <1>1, <1>2, FailKeeps

\* It goes on to a place where nothing has been put out yet, or where its
\* draft is as it should be there.
LEMMA WorkOnKeeps ==
  ASSUME WorkInv, TypeOK', NEW t \in Tasks, Working(t), ~ At(t, "claimed"),
         NEW place \in Places \ {"idle", "lookup", "claim", "claiming", "intending", "claimed",
                                 "unclaimed", "saved", "failed", "save"},
         Goto(t, place), UNCHANGED <<intents, runs, starts, command>>,
         \A u \in Tasks \ {t} : draft'[u] = draft[u],
         (made' = made /\ place # "verify") \/ (Publishes(t) /\ place = "verify"),
         made[command[t].id] = None,
         place \in {"register", "registering", "registered"} => command[t].kind = "REGISTER",
         place = "bytes" => command[t].kind = "ACQUIRE",
         place = "bind" => command[t].kind \in {"NORMALIZE", "BUILD_CANDIDATES"},
         place \in {"publish", "verify"} => command[t].kind # "REGISTER",
         place \in {"bind", "publish"} /\ command[t].kind = "NORMALIZE" => HasAcquisition(command[t]),
         place \in {"stage", "register", "registering", "bytes"} => draft'[t] = NoDraft,
         Shape(t)'
  PROVE  WorkInv'
<1>1. PICK c \in Commands : c = command[t] /\ c.id \in IntentIds
  BY WorkingFacts
<1>2. pc'[t] = place /\ \A u \in Tasks \ {t} : pc'[u] = pc[u]
  BY DEF Goto, WorkInv, TypeOK
<1>3. made' = made \/ Publishes(t)
  OBVIOUS
<1>4. /\ intents'[c.id] = c /\ runs'[c.id] = None /\ starts'[c.id] = 1
      /\ c.kind = "NORMALIZE" /\ HasAcquisition(c) => HasAcquisition(c)'
      /\ made'[c.id] # None => made'[c.id] = Artifact(c)'
      /\ made'[c.id] # None /\ c.kind = "NORMALIZE" => HasAcquisition(c)'
      /\ Publishes(t) => made'[c.id] = Artifact(c)'
  BY <1>1, <1>3, RequestStays
<1>5. Publishes(t) /\ c.kind = "NORMALIZE" => HasAcquisition(c)
  BY <1>1 DEF Publishes
<1>6. Progress(t)'
  BY <1>1, <1>2, <1>4, <1>5 DEF Progress, At
<1>7. CallInv(t)'
  BY <1>2, <1>6 DEF CallInv, Untouched, At, Places
<1> QED BY <1>2, <1>3, <1>7, WorkKeeps

\* Its run is complete.
LEMMA ToSaveKeeps ==
  ASSUME WorkInv, TypeOK', NEW t \in Tasks, Working(t), ~ At(t, "claimed"), Goto(t, "save"),
         UNCHANGED <<intents, runs, starts, made, command>>,
         \A u \in Tasks \ {t} : draft'[u] = draft[u]
  PROVE  WorkInv'
<1>1. PICK c \in Commands : c = command[t] /\ c.id \in IntentIds
  BY WorkingFacts
<1>2. pc'[t] = "save" /\ \A u \in Tasks \ {t} : pc'[u] = pc[u]
  BY DEF Goto, WorkInv, TypeOK
<1>3. Shape(t)'
  BY <1>2 DEF Shape, At
<1>4. Progress(t)'
  BY <1>1, <1>2, <1>3, RequestStays DEF Progress, At
<1>5. CallInv(t)'
  BY <1>2, <1>4 DEF CallInv, Untouched, At
<1> QED BY <1>2, <1>5, WorkKeeps

LEMMA BeginStageKeeps ==
  ASSUME WorkInv, TypeOK', NEW t \in Tasks, BeginStage(t)
  PROVE  WorkInv'
<1>1. /\ At(t, "stage") /\ Working(t) /\ ~ At(t, "claimed") /\ Untouched(t)
      /\ UNCHANGED <<intents, runs, starts, made>>
  BY DEF BeginStage, At, Working, Untouched, stored
<1>2. PICK c \in Commands : c = command[t] /\ Progress(t) /\ draft[t] = NoDraft
  BY <1>1, WorkingFacts DEF WorkInv, CallInv
<1>3. made[c.id] = None /\ draft[t].outputs = << >> /\ draft[t].stages = << >>
  BY <1>1, <1>2 DEF Progress, At, NoDraft
<1>4. ASSUME NEW code, Fail(t, code)
      PROVE  WorkInv'
  BY <1>1, <1>2, <1>3, <1>4, FailEmptyKeeps
<1>5. CASE \/ c.kind = "REGISTER" /\ Proceed(t, "register")
           \/ c.kind = "ACQUIRE" /\ Proceed(t, "bytes")
           \/ c.kind = "BUILD_CANDIDATES" /\ Proceed(t, "bind")
  <2>1. PICK place \in {"register", "bytes", "bind"} : Proceed(t, place)
                 /\ (place = "register" => c.kind = "REGISTER")
                 /\ (place = "bytes" => c.kind = "ACQUIRE")
                 /\ (place = "bind" => c.kind = "BUILD_CANDIDATES")
    BY <1>5
  <2>2. pc'[t] = place /\ UNCHANGED <<command, draft>>
    BY <2>1 DEF Proceed, Goto, WorkInv, TypeOK
  <2>3. Shape(t)'
    <3>1. c.kind = "BUILD_CANDIDATES" =>
            0 < Len(c.members) /\ Len(<< >>) = 0 /\ SubSeq(Upstream(c), 1, 0) = << >>
      BY UpstreamRefs, SubSeqEmpty
    <3> QED BY <1>2, <1>3, <2>1, <2>2, <3>1 DEF Shape, At
  <2>4. Goto(t, place) /\ place \in Places \ {"idle", "lookup", "claim", "claiming", "intending",
                                 "claimed", "unclaimed", "saved", "failed", "save"}
    BY <2>1 DEF Proceed, Places
  <2> QED BY <1>1, <1>2, <1>3, <2>1, <2>2, <2>3, <2>4, WorkOnKeeps
<1>6. CASE c.kind = "NORMALIZE" /\ Requirement(c) = "OK"
           /\ Note(t, "bind", Upstream(c), Inspected(c))
  <2>1. HasAcquisition(c)
    <3>1. Exists(Upstream(c)[1])
      BY <1>6 DEF Requirement
    <3>2. Exists(<<"ACQUISITION", c.acquisition>>)
      BY <1>6, <3>1, UpstreamRefs
    <3> QED BY <3>2 DEF Exists, HasAcquisition
  <2>2. /\ pc'[t] = "bind" /\ Goto(t, "bind") /\ UNCHANGED command
        /\ \A u \in Tasks \ {t} : draft'[u] = draft[u]
        /\ draft'[t].outputs = Upstream(c) /\ draft'[t].stages = Inspected(c)
    BY <1>6 DEF Note, Goto, WorkInv, TypeOK, Runs
  <2>3. Shape(t)'
    BY <1>2, <1>6, <2>2 DEF Shape, At
  <2> QED BY <1>1, <1>2, <1>3, <1>6, <2>1, <2>2, <2>3, WorkOnKeeps DEF Places
<1> QED BY <1>2, <1>4, <1>5, <1>6 DEF BeginStage, Inspected

LEMMA RegisterKeeps ==
  ASSUME WorkInv, TypeOK', NEW t \in Tasks,
         Register(t) \/ (TakeLock(t) /\ At(t, "register"))
  PROVE  WorkInv'
<1>1. /\ At(t, "registering") \/ At(t, "register")
      /\ Working(t) /\ ~ At(t, "claimed") /\ Untouched(t)
      /\ UNCHANGED <<intents, runs, starts, made>>
  BY DEF Register, TakeLock, At, Working, Untouched, stored
<1>2. PICK c \in Commands : c = command[t] /\ Progress(t) /\ draft[t] = NoDraft
  BY <1>1, WorkingFacts DEF WorkInv, CallInv
<1>3. made[c.id] = None /\ c.kind = "REGISTER" /\ draft[t].outputs = << >>
      /\ draft[t].stages = << >>
  BY <1>1, <1>2 DEF Progress, At, NoDraft
<1>4. CASE Fail(t, "PRODUCTION_BUSY")
  BY <1>1, <1>2, <1>3, <1>4, FailEmptyKeeps
<1>5. CASE Proceed(t, "registering")
  <2>1. pc'[t] = "registering" /\ Goto(t, "registering") /\ UNCHANGED <<command, draft>>
    BY <1>5 DEF Proceed, Goto, WorkInv, TypeOK
  <2>2. Shape(t)'
    BY <2>1 DEF Shape, At
  <2> QED BY <1>1, <1>2, <1>3, <2>1, <2>2, WorkOnKeeps DEF Places
<1>6. CASE Register(t)
  <2>1. Goto(t, "registered") /\ UNCHANGED command /\ pc'[t] = "registered"
    BY <1>6 DEF Register, Proceed, Goto, WorkInv, TypeOK
  <2>2. UNCHANGED draft \/ \E code : draft' = [draft EXCEPT ![t].code = code]
    BY <1>6 DEF Register, Proceed
  <2>3. /\ \A u \in Tasks \ {t} : draft'[u] = draft[u]
        /\ draft'[t].outputs = << >> /\ draft'[t].stages = << >>
    BY <1>3, <2>2 DEF WorkInv, TypeOK, Runs
  <2>4. Shape(t)'
    BY <1>2, <1>3, <2>1, <2>3 DEF Shape, At
  <2> QED BY <1>1, <1>2, <1>3, <2>1, <2>3, <2>4, WorkOnKeeps DEF Places
<1> QED BY <1>1, <1>4, <1>5, <1>6 DEF TakeLock, At

LEMMA ReleaseRegistrationKeeps ==
  ASSUME WorkInv, TypeOK', NEW t \in Tasks, ReleaseRegistration(t)
  PROVE  WorkInv'
<1>1. At(t, "registered") /\ Working(t) /\ ~ At(t, "claimed")
      /\ UNCHANGED <<intents, runs, starts, made>>
  BY DEF ReleaseRegistration, At, Working, stored
<1>2. command[t].kind = "REGISTER" /\ draft[t].outputs = << >> /\ draft[t].stages = << >>
  BY <1>1, WorkingFacts DEF Progress, Shape
<1>3. ASSUME NEW code, Fail(t, code)
      PROVE  WorkInv'
  BY <1>1, <1>2, <1>3, FailEmptyKeeps
<1>4. CASE Finish(t)
  BY <1>1, <1>4, ToSaveKeeps DEF Finish, WorkInv, TypeOK
<1> QED BY <1>3, <1>4 DEF ReleaseRegistration

LEMMA StoreBytesKeeps ==
  ASSUME WorkInv, TypeOK', NEW t \in Tasks, StoreBytes(t)
  PROVE  WorkInv'
<1>1. /\ At(t, "bytes") /\ Working(t) /\ ~ At(t, "claimed") /\ Untouched(t)
      /\ UNCHANGED <<intents, runs, starts, made>>
  BY DEF StoreBytes, At, Working, Untouched
<1>2. PICK c \in Commands : c = command[t] /\ Progress(t) /\ draft[t] = NoDraft
  BY <1>1, WorkingFacts DEF WorkInv, CallInv
<1>3. made[c.id] = None /\ c.kind = "ACQUIRE" /\ draft[t].outputs = << >>
      /\ draft[t].stages = << >>
  BY <1>1, <1>2 DEF Progress, At, NoDraft
<1>4. CASE Fail(t, "STAGE_FAILED")
  BY <1>1, <1>2, <1>3, <1>4, FailEmptyKeeps
<1>5. CASE Proceed(t, "publish")
  <2>1. pc'[t] = "publish" /\ Goto(t, "publish") /\ UNCHANGED <<command, draft>>
    BY <1>5 DEF Proceed, Goto, WorkInv, TypeOK
  <2>2. Shape(t)'
    BY <1>2, <1>3, <2>1 DEF Shape, At
  <2> QED BY <1>1, <1>2, <1>3, <2>1, <2>2, WorkOnKeeps DEF Places
<1> QED BY <1>4, <1>5 DEF StoreBytes

LEMMA BindAcquisitionKeeps ==
  ASSUME WorkInv, TypeOK', NEW t \in Tasks, BindAcquisition(t)
  PROVE  WorkInv'
<1>1. /\ At(t, "bind") /\ Working(t) /\ ~ At(t, "claimed")
      /\ UNCHANGED <<intents, runs, starts, made>>
  BY DEF BindAcquisition, At, Working, stored
<1>2. PICK c \in Commands : c = command[t] /\ Progress(t)
  BY <1>1, WorkingFacts
<1>3. /\ c.kind = "NORMALIZE" /\ made[c.id] = None /\ HasAcquisition(c)
      /\ draft[t].outputs = Upstream(c) /\ draft[t].stages = Inspected(c)
  <2>1. c.kind = "NORMALIZE"
    BY <1>2 DEF BindAcquisition
  <2> QED BY <1>1, <1>2, <2>1 DEF Progress, Shape, At
<1>4. ASSUME NEW code, Fail(t, code)
      PROVE  WorkInv'
  <2>1. \A e \in Runs : e.outputs = Upstream(c) /\ e.stages = draft[t].stages => FailedShape(c, e)'
    BY <1>3 DEF FailedShape
  <2>2. FailWith(t, code, Upstream(c))
    BY <1>3, <1>4 DEF Fail
  <2> QED BY <1>1, <1>2, <2>1, <2>2, FailKeeps
<1>5. CASE Proceed(t, "publish")
  <2>1. pc'[t] = "publish" /\ Goto(t, "publish") /\ UNCHANGED <<command, draft>>
    BY <1>5 DEF Proceed, Goto, WorkInv, TypeOK
  <2>2. Shape(t)'
    BY <1>2, <1>3, <2>1 DEF Shape, At
  <2> QED BY <1>1, <1>2, <1>3, <2>1, <2>2, WorkOnKeeps DEF Places
<1> QED BY <1>4, <1>5 DEF BindAcquisition

LEMMA BindMemberKeeps ==
  ASSUME WorkInv, TypeOK', NEW t \in Tasks, BindMember(t)
  PROVE  WorkInv'
<1>1. /\ At(t, "bind") /\ Working(t) /\ ~ At(t, "claimed")
      /\ UNCHANGED <<intents, runs, starts, made>>
  BY DEF BindMember, At, Working, stored
<1>2. PICK c \in Commands, k \in Nat, listed \in Seq(Refs) :
        /\ c = command[t] /\ k = Len(draft[t].outputs) /\ listed = SubSeq(Upstream(c), 1, k + 1)
        /\ Progress(t)
  BY <1>1, WorkingFacts, ListedMembers
<1>3. /\ c.kind = "BUILD_CANDIDATES" /\ k + 1 \in 1 .. Len(c.members)
      /\ Len(Upstream(c)) = Len(c.members) /\ Len(listed) = k + 1
      /\ draft[t].outputs = SubSeq(Upstream(c), 1, k) /\ draft[t].stages = << >>
  BY <1>2, ListedMembers
<1>4. made[c.id] = None /\ k \in 0 .. Len(c.members) /\ k + 1 \in 0 .. Len(c.members)
      /\ Len(c.members) \in Nat
  <2>1. Len(c.members) \in Nat
    BY <1>3, UpstreamRefs
  <2> QED BY <1>1, <1>2, <1>3, <2>1 DEF Progress, At
<1>5. ASSUME NEW code, NEW n \in {k, k + 1}, FailWith(t, code, SubSeq(Upstream(c), 1, n))
      PROVE  WorkInv'
  <2>1. n \in 0 .. Len(c.members)
    BY <1>4
  <2>2. PICK outputs : outputs = SubSeq(Upstream(c), 1, n) /\ FailWith(t, code, outputs)
    BY <1>5
  <2>3. \A e \in Runs : e.outputs = outputs /\ e.stages = draft[t].stages => FailedShape(c, e)'
    BY <1>3, <2>1, <2>2 DEF FailedShape
  <2>4. c = command[t] /\ c \in Commands
    BY <1>2
  <2>5. Working(t) /\ ~ At(t, "claimed") /\ UNCHANGED <<intents, runs, starts>> /\ made' = made
    BY <1>1
  <2>6. FailWith(t, code, outputs)
    BY <2>2
  <2> QED BY <2>3, <2>4, <2>5, <2>6, FailKeeps
<1>6. ASSUME NEW place \in {"bind", "publish"}, Note(t, place, listed, << >>),
             place = "publish" <=> listed = Upstream(c)
      PROVE  WorkInv'
  <2>1. /\ pc'[t] = place /\ Goto(t, place) /\ UNCHANGED command
        /\ \A u \in Tasks \ {t} : draft'[u] = draft[u]
        /\ draft'[t].outputs = listed /\ draft'[t].stages = << >>
    BY <1>6 DEF Note, Goto, WorkInv, TypeOK, Runs
  <2>2. place = "bind" => k + 1 < Len(c.members)
    <3>1. SubSeq(Upstream(c), 1, Len(c.members)) = Upstream(c)
      BY <1>3, UpstreamRefs, SubSeqFull
    <3>2. place = "bind" => k + 1 # Len(c.members)
      BY <1>2, <1>6, <3>1
    <3> QED BY <1>4, <3>2
  <2>3. Shape(t)'
    BY <1>2, <1>3, <1>6, <2>1, <2>2 DEF Shape, At
  <2> QED BY <1>1, <1>2, <1>3, <1>4, <2>1, <2>3, WorkOnKeeps DEF Places
<1> QED BY <1>2, <1>3, <1>5, <1>6 DEF BindMember, Fail

LEMMA PublishArtifactKeeps ==
  ASSUME WorkInv, TypeOK', NEW t \in Tasks, PublishArtifact(t)
  PROVE  WorkInv'
<1>1. /\ At(t, "publish") /\ Working(t) /\ ~ At(t, "claimed") /\ UNCHANGED <<intents, runs, starts>>
  BY DEF PublishArtifact, At, Working
<1>2. PICK c \in Commands : c = command[t] /\ Progress(t) /\ c.id \in IntentIds
  BY <1>1, WorkingFacts
<1>3. c.kind # "REGISTER" /\ made[c.id] = None /\ (c.kind = "NORMALIZE" => HasAcquisition(c))
      /\ Shape(t)
  BY <1>1, <1>2 DEF Progress, At
<1>4. made' = [made EXCEPT ![c.id] = Artifact(c)] => Publishes(t)
  BY <1>2, <1>3 DEF Publishes
<1>5. ASSUME NEW code, Fail(t, code), made' = made \/ Publishes(t)
      PROVE  WorkInv'
  <2>1. FailWith(t, code, draft[t].outputs)
    BY <1>5 DEF Fail
  <2>2. ASSUME NEW e \in Runs, e.outputs = draft[t].outputs, e.stages = draft[t].stages
        PROVE  FailedShape(c, e)'
    <3>1. CASE c.kind = "ACQUIRE"
      BY <1>1, <1>2, <1>3, <2>2, <3>1 DEF Shape, FailedShape
    <3>2. CASE c.kind = "NORMALIZE"
      BY <1>1, <1>2, <1>3, <2>2, <3>2 DEF Shape, FailedShape
    <3>3. CASE c.kind = "BUILD_CANDIDATES"
      <4>1. e.outputs = Upstream(c) /\ e.stages = << >>
        BY <1>1, <1>2, <1>3, <2>2, <3>3 DEF Shape
      <4>2. SubSeq(Upstream(c), 1, Len(c.members)) = Upstream(c) /\ Len(c.members) \in 0 .. Len(c.members)
        BY <3>3, UpstreamRefs, SubSeqFull
      <4> QED BY <3>3, <4>1, <4>2 DEF FailedShape
    <3> QED BY <1>3, <3>1, <3>2, <3>3, CommandFields
  <2> QED BY <1>1, <1>2, <1>5, <2>1, <2>2, FailKeeps
<1>6. CASE c.kind # "BUILD_CANDIDATES" /\ Proceed(t, "verify") /\ Publishes(t)
  <2>1. pc'[t] = "verify" /\ Goto(t, "verify") /\ UNCHANGED <<command, draft>>
    BY <1>6 DEF Proceed, Goto, WorkInv, TypeOK
  <2>2. Shape(t)'
    <3>1. CASE c.kind = "ACQUIRE"
      BY <1>1, <1>2, <1>3, <2>1, <3>1 DEF Shape, At
    <3>2. CASE c.kind = "NORMALIZE"
      BY <1>1, <1>2, <1>3, <2>1, <3>2 DEF Shape, At
    <3> QED BY <1>3, <1>6, <3>1, <3>2, CommandFields
  <2> QED BY <1>1, <1>2, <1>3, <1>6, <2>1, <2>2, WorkOnKeeps DEF Places
<1>7. CASE /\ c.kind = "BUILD_CANDIDATES" /\ Publishes(t)
           /\ Note(t, "verify", Upstream(c) \o Own(c), Assembled(c))
  <2>1. /\ pc'[t] = "verify" /\ Goto(t, "verify") /\ UNCHANGED command
        /\ \A u \in Tasks \ {t} : draft'[u] = draft[u]
        /\ draft'[t].outputs = Upstream(c) \o Own(c) /\ draft'[t].stages = Assembled(c)
    BY <1>7 DEF Note, Goto, WorkInv, TypeOK, Runs
  <2>2. Shape(t)'
    BY <1>2, <1>7, <2>1 DEF Shape, At
  <2> QED BY <1>1, <1>2, <1>3, <1>7, <2>1, <2>2, WorkOnKeeps DEF Places
<1>8. \/ c.kind # "BUILD_CANDIDATES" /\ Proceed(t, "verify") /\ Publishes(t)
      \/ /\ c.kind = "BUILD_CANDIDATES" /\ Publishes(t)
         /\ Note(t, "verify", Upstream(c) \o Own(c), Assembled(c))
      \/ \E code : Fail(t, code) /\ (made' = made \/ Publishes(t))
  BY <1>2, <1>4 DEF PublishArtifact, Assembled
<1> QED BY <1>5, <1>6, <1>7, <1>8

LEMMA VerifyArtifactKeeps ==
  ASSUME WorkInv, TypeOK', NEW t \in Tasks, VerifyArtifact(t)
  PROVE  WorkInv'
<1>1. /\ At(t, "verify") /\ Working(t) /\ ~ At(t, "claimed")
      /\ UNCHANGED <<intents, runs, starts, made>>
  BY DEF VerifyArtifact, At, Working, stored
<1>2. PICK c \in Commands : c = command[t] /\ Progress(t) /\ c.id \in IntentIds
  BY <1>1, WorkingFacts
<1>3. c.kind # "REGISTER" /\ made[c.id] = Artifact(c) /\ (c.kind = "NORMALIZE" => HasAcquisition(c))
      /\ Shape(t)
  BY <1>1, <1>2 DEF Progress, At
<1>4. CASE Finish(t)
  BY <1>1, <1>4, ToSaveKeeps DEF Finish, WorkInv, TypeOK
<1>5. ASSUME NEW code, Fail(t, code)
      PROVE  WorkInv'
  <2>1. FailWith(t, code, draft[t].outputs)
    BY <1>5 DEF Fail
  <2>2. made'[c.id] # None
    BY <1>1, <1>3, ArtifactTypes DEF HasAcquisition, WorkInv, TypeOK
  <2>3. ASSUME NEW e \in Runs, e.outputs = draft[t].outputs, e.stages = draft[t].stages
        PROVE  FailedShape(c, e)'
    <3>1. CASE c.kind = "ACQUIRE"
      BY <1>1, <1>2, <1>3, <2>3, <3>1 DEF Shape, FailedShape
    <3>2. CASE c.kind = "NORMALIZE"
      BY <1>1, <1>2, <1>3, <2>3, <3>2 DEF Shape, FailedShape
    <3>3. CASE c.kind = "BUILD_CANDIDATES"
      BY <1>1, <1>2, <1>3, <2>2, <2>3, <3>3 DEF Shape, FailedShape
    <3> QED BY <1>3, <3>1, <3>2, <3>3, CommandFields
  <2> QED BY <1>1, <1>2, <2>1, <2>3, FailKeeps
<1> QED BY <1>4, <1>5 DEF VerifyArtifact

LEMMA SaveRunKeeps ==
  ASSUME WorkInv, TypeOK', NEW t \in Tasks, SaveRun(t)
  PROVE  WorkInv'
<1>1. At(t, "save") /\ Working(t) /\ ~ At(t, "claimed")
      /\ UNCHANGED <<intents, registry, contents, made, starts>>
  BY DEF SaveRun, At, Working
<1>2. PICK c \in Commands, d \in Runs : c = command[t] /\ d = draft[t] /\ Progress(t) /\ c.id \in IntentIds
  BY <1>1, WorkingFacts
<1>3. intents[c.id] = c /\ c # None /\ d # None
  BY <1>2, CommandFields, CommandAssumption DEF Progress
<1>4. CASE Refuse(t) /\ UNCHANGED runs
  BY <1>1, <1>4, RestKeeps DEF Refuse, stored
<1>5. CASE runs[c.id] = None /\ runs' = [runs EXCEPT ![c.id] = d] /\ Proceed(t, "saved")
  <2>1. /\ pc'[t] = "saved" /\ UNCHANGED <<command, draft>>
        /\ \A u \in Tasks \ {t} : pc'[u] = pc[u]
        /\ runs'[c.id] = d /\ \A j \in IntentIds \ {c.id} : runs'[j] = runs[j]
    BY <1>2, <1>5 DEF Proceed, Goto, WorkInv, TypeOK
  <2>2. Touches(t)
    BY <1>1, <1>2, <1>5, <2>1 DEF Touches
  <2>3. CallInv(t)' /\ ~ Working(t)'
    BY <1>1, <1>2, <1>3, <2>1 DEF CallInv, Untouched, Working, At
  <2>4. IdentityInv(c.id)'
    BY <1>1, <1>2, <1>3 DEF IdentityInv, WorkInv
  <2> QED BY <1>2, <2>2, <2>3, <2>4, TouchesKeeps
<1> QED BY <1>2, <1>4, <1>5 DEF SaveRun

LEMMA StepKeeps == WorkInv /\ [Next]_vars => WorkInv'
<1> SUFFICES ASSUME WorkInv, [Next]_vars PROVE WorkInv'
  OBVIOUS
<1>1. TypeOK'
  BY TypeStep
<1>2. CASE UNCHANGED <<stored, pc, command, draft, starts>>
  <2>1. /\ intents' = intents /\ runs' = runs /\ made' = made /\ pc' = pc /\ command' = command
        /\ draft' = draft /\ starts' = starts
    BY <1>2 DEF stored
  <2>2. \A i \in IntentIds : IdentityInv(i)'
    BY <2>1 DEF WorkInv, IdentityInv
  <2>3. ASSUME NEW u \in Tasks
        PROVE  CallInv(u)'
    <3>1. CallInv(u)
      BY DEF WorkInv
    <3>2. \A c : (HasAcquisition(c) <=> HasAcquisition(c)') /\ Artifact(c)' = Artifact(c)
      BY <2>1 DEF HasAcquisition, Artifact
    <3>3. \A c, d : FailedShape(c, d) => FailedShape(c, d)'
      BY <2>1 DEF FailedShape
    <3>4. ASSUME Working(u)
          PROVE  Progress(u)'
      <4>1. PICK c \in Commands, d \in Runs : c = command[u] /\ d = draft[u] /\ Progress(u)
        BY <3>4, WorkingFacts
      <4>2. command'[u] = c /\ draft'[u] = d /\ pc'[u] = pc[u]
        BY <2>1, <4>1
      <4>3. Shape(u)'
        BY <3>3, <4>1, <4>2 DEF Progress, Shape, At
      <4> QED BY <2>1, <3>2, <4>1, <4>2, <4>3 DEF Progress, At
    <3> QED BY <2>1, <3>1, <3>4 DEF CallInv, Untouched, Working, At
  <2>4. WorksAlone'
    BY <2>1 DEF WorkInv, WorksAlone, Working
  <2> QED BY <1>1, <2>2, <2>3, <2>4 DEF WorkInv
<1>3. CASE UNCHANGED vars \/ RemoveLock
  BY <1>2, <1>3 DEF vars, RemoveLock
<1>4. ASSUME NEW t \in Tasks, Step(t)
      PROVE  WorkInv'
  <2>1. CASE Discover(t)
    <3>1. Working(t) /\ ~ At(t, "claimed") /\ UNCHANGED <<intents, runs, starts, made, command>>
          /\ Goto(t, "save")
      BY <2>1 DEF Discover, Working, At, stored
    <3>2. \A u \in Tasks \ {t} : draft'[u] = draft[u]
      BY <2>1 DEF Discover, WorkInv, TypeOK
    <3> QED BY <1>1, <3>1, <3>2, ToSaveKeeps
  <2>2. TakeLock(t) => At(t, "claim") \/ At(t, "register")
    BY DEF TakeLock
  <2> QED BY <1>1, <1>4, <2>1, <2>2, LookupKeeps, ClaimKeeps, PublishIntentKeeps, ReleaseClaimKeeps,
             BeginStageKeeps, RegisterKeeps, ReleaseRegistrationKeeps, StoreBytesKeeps,
             BindAcquisitionKeeps, BindMemberKeeps, PublishArtifactKeeps, VerifyArtifactKeeps,
             SaveRunKeeps DEF Step
<1> QED BY <1>1, <1>3, <1>4, BeginKeeps, LookupKeeps DEF Next

-----------------------------------------------------------------------------
(* Type correctness, and requests that are executed once.                  *)

LEMMA InitWork == Init => WorkInv
<1> SUFFICES ASSUME Init PROVE WorkInv
  OBVIOUS
<1>1. TypeOK
  BY NoDraftTypes, CommandFields, CommandAssumption
     DEF Init, TypeOK, At, Places
<1>2. \A t \in Tasks : pc[t] = "idle" /\ draft[t] = NoDraft
  BY DEF Init
<1>3. \A t \in Tasks : ~ Working(t) /\ CallInv(t)
  BY <1>2 DEF Working, CallInv, At
<1>4. \A i \in IntentIds : IdentityInv(i)
  BY DEF Init, IdentityInv
<1> QED BY <1>1, <1>3, <1>4 DEF WorkInv, WorksAlone

LEMMA WorkInvInductive == Spec => []WorkInv
<1>1. Init => WorkInv
  BY InitWork
<1>2. WorkInv /\ [Next]_vars => WorkInv'
  BY StepKeeps
<1> QED BY <1>1, <1>2, PTL DEF Spec

\* The records of the rail are well-formed in every reachable state: intents,
\* artifacts, runs, and what every worker of production/store.ts holds.
THEOREM RailTypeCorrect == Spec => []TypeOK
<1>1. WorkInv => TypeOK
  BY DEF WorkInv
<1> QED BY <1>1, WorkInvInductive, PTL

\* A step tells a client nothing, or the run of its request.
LEMMA Tells ==
  ASSUME WorkInv, NEW t \in Tasks, Lookup(t) \/ ReadBack(t) \/ Crash(t)
  PROVE  Contract!Next \/ UNCHANGED Contract!vars
<1>1. UNCHANGED <<intents, starts, runs>>
  BY DEF Lookup, ReadBack, Crash, stored
<1>2. CASE UNCHANGED told
  BY <1>1, <1>2 DEF Contract!vars
<1>3. ASSUME Lookup(t) \/ ReadBack(t), Answer(t, runs[command[t].id]),
             intents[command[t].id] = command[t], runs[command[t].id] # None
      PROVE  Contract!Next
  <2>1. ~ At(t, "idle")
    BY <1>3 DEF Lookup, ReadBack, At
  <2>2. PICK c \in Commands : c = command[t]
    BY <2>1, CallHasCommand
  <2>3. Contract!Tell(c)
    BY <1>1, <1>3, <2>2 DEF Contract!Tell, Answer
  <2> QED BY <2>3 DEF Contract!Next
<1>4. CASE Lookup(t)
  <2>1. \/ UNCHANGED told
        \/ /\ Answer(t, runs[command[t].id])
           /\ intents[command[t].id] = command[t] /\ runs[command[t].id] # None
    BY <1>4 DEF Lookup, Refuse, Proceed
  <2> QED BY <1>2, <1>3, <1>4, <2>1
<1>5. CASE ReadBack(t)
  <2>1. intents[command[t].id] = command[t] /\ runs[command[t].id] # None
    BY <1>5 DEF ReadBack, WorkInv, CallInv
  <2>2. UNCHANGED told \/ Answer(t, runs[command[t].id])
    BY <1>5 DEF ReadBack, Refuse
  <2> QED BY <1>2, <1>3, <1>5, <2>1, <2>2
<1>6. CASE Crash(t)
  BY <1>2, <1>6 DEF Crash, Refuse
<1> QED BY <1>4, <1>5, <1>6

LEMMA Binding ==
  ASSUME WorkInv, NEW t \in Tasks, PublishIntent(t)
  PROVE  Contract!Next \/ UNCHANGED Contract!vars
<1>1. UNCHANGED <<starts, runs, told>>
  BY DEF PublishIntent, Proceed
<1>2. PICK c \in Commands : c = command[t]
  BY CallHasCommand DEF PublishIntent, At
<1>3. CASE UNCHANGED intents
  BY <1>1, <1>3 DEF Contract!vars
<1>4. CASE intents[c.id] = None /\ intents' = [intents EXCEPT ![c.id] = c]
  <2>1. Contract!Bind(c)
    BY <1>1, <1>4 DEF Contract!Bind
  <2> QED BY <2>1 DEF Contract!Next
<1> QED BY <1>2, <1>3, <1>4 DEF PublishIntent

LEMMA Starting ==
  ASSUME WorkInv, NEW t \in Tasks, ReleaseClaim(t)
  PROVE  Contract!Next \/ UNCHANGED Contract!vars
<1>1. UNCHANGED <<intents, runs, told>>
  BY DEF ReleaseClaim, stored, Proceed, Again, Refuse
<1>2. CASE UNCHANGED starts
  BY <1>1, <1>2 DEF Contract!vars
<1>3. CASE At(t, "claimed") /\ starts' = [starts EXCEPT ![command[t].id] = @ + 1]
  <2>1. PICK c \in Commands : c = command[t] /\ c.id \in IntentIds /\ Progress(t)
    BY <1>3, WorkingFacts DEF Working, At
  <2>2. starts[c.id] = 0 /\ intents[c.id] # None
    BY <1>3, <2>1, CommandFields DEF Progress
  <2>3. starts' = [starts EXCEPT ![c.id] = 1]
    BY <1>3, <2>1, <2>2 DEF WorkInv, TypeOK
  <2>4. Contract!Start(c.id)
    BY <1>1, <2>2, <2>3 DEF Contract!Start
  <2> QED BY <2>1, <2>4 DEF Contract!Next
<1> QED BY <1>2, <1>3 DEF ReleaseClaim

LEMMA Finishing ==
  ASSUME WorkInv, NEW t \in Tasks, SaveRun(t)
  PROVE  Contract!Next \/ UNCHANGED Contract!vars
<1>1. UNCHANGED <<intents, starts, told>> /\ At(t, "save")
  BY DEF SaveRun, Proceed, Refuse
<1>2. PICK c \in Commands, d \in Runs : c = command[t] /\ d = draft[t] /\ c.id \in IntentIds /\ Progress(t)
  BY <1>1, WorkingFacts DEF Working, At
<1>3. CASE UNCHANGED runs
  BY <1>1, <1>3 DEF Contract!vars
<1>4. CASE runs[c.id] = None /\ runs' = [runs EXCEPT ![c.id] = d]
  <2>1. starts[c.id] = 1 /\ d # None
    BY <1>1, <1>2, CommandAssumption DEF Progress, At
  <2>2. runs'[c.id] = d
    BY <1>2, <1>4 DEF WorkInv, TypeOK
  <2>3. Contract!Finish(c.id)
    BY <1>1, <1>4, <2>1, <2>2 DEF Contract!Finish
  <2> QED BY <1>2, <2>3 DEF Contract!Next
<1> QED BY <1>2, <1>3, <1>4 DEF SaveRun

\* Every step of the rail is one of RunsOnce, or is none of its business.
LEMMA StepImplements ==
  ASSUME WorkInv, [Next]_vars
  PROVE  Contract!Next \/ UNCHANGED Contract!vars
<1>1. CASE UNCHANGED vars \/ RemoveLock
  BY <1>1 DEF vars, RemoveLock, stored, Contract!vars
<1>2. ASSUME NEW t \in Tasks, NEW c \in Commands, Begin(t, c)
      PROVE  UNCHANGED Contract!vars
  BY <1>2 DEF Begin, stored, Contract!vars
<1>3. ASSUME NEW t \in Tasks, Step(t)
      PROVE  Contract!Next \/ UNCHANGED Contract!vars
  <2>1. CASE Lookup(t) \/ ReadBack(t) \/ PublishIntent(t) \/ ReleaseClaim(t) \/ SaveRun(t)
    BY <2>1, Tells, Binding, Starting, Finishing
  <2>2. CASE \/ TakeLock(t) \/ Claim(t) \/ BeginStage(t) \/ ReleaseRegistration(t)
             \/ BindAcquisition(t) \/ BindMember(t) \/ VerifyArtifact(t) \/ Discover(t)
    BY <2>2 DEF TakeLock, Claim, BeginStage, ReleaseRegistration, BindAcquisition, BindMember,
         VerifyArtifact, Discover, Again, Refuse, Proceed, Fail, FailWith, Note, Finish, stored,
         Contract!vars
  <2>3. CASE Register(t) \/ StoreBytes(t) \/ PublishArtifact(t)
    BY <2>3 DEF Register, StoreBytes, PublishArtifact, Proceed, Fail, FailWith, Note,
         Contract!vars
  <2> QED BY <1>3, <2>1, <2>2, <2>3 DEF Step
<1> QED BY <1>1, <1>2, <1>3, Tells DEF Next

\* execute() of production/store.ts implements RunsOnce: a request identity is
\* bound to one command, its stages are started at most once, it gets at most
\* one run, and no client is told another; workers may be killed at any point,
\* file operations may fail, and the operator may even remove a lock that is
\* held.
THEOREM ProductionRunsOnce == Spec => RunsOnceSpec
<1>1. Init => Contract!Init
  BY DEF Init, Contract!Init
<1>2. WorkInv /\ [Next]_vars => [Contract!Next]_(Contract!vars)
  BY StepImplements
<1> QED BY <1>1, <1>2, WorkInvInductive, PTL DEF Spec, RunsOnceSpec, Contract!Spec

-----------------------------------------------------------------------------
(* The invariant of what is stored: registrations fit, runs are readable.  *)

\* A permission that was denied was denied by a registered source.
Settled(c, r) ==
  r.state = "FAILED" /\ <<c.kind, r.code>> \in {<<"ACQUIRE", "INGEST_DISALLOWED">>,
                                               <<"NORMALIZE", "DERIVATION_DISALLOWED">>} =>
    registry[c.source] # None

\* What a run says of the artifact of its request.
Shows(c, r) ==
  made[c.id] # None =>
    \/ r.additional \/ r.receipt = "UNCONFIRMED"
    \/ r.code = "EVIDENCE_INTEGRITY_FAILED"
    \/ \E k \in DOMAIN r.outputs : r.outputs[k] = Own(c)[1]

GoodRun(c, r) == Readable(c, r) /\ Settled(c, r) /\ Shows(c, r)

GoodArtifact(i) ==
  made[i] # None =>
    /\ intents[i].kind # "REGISTER"
    /\ made[i] = Artifact(intents[i])
    /\ intents[i].kind = "NORMALIZE" => HasAcquisition(intents[i])

Registrations ==
  \A n \in Names : registry[n] # None =>
    /\ IsSpec(registry[n])
    /\ registry[n].kind = "SOURCE" => Binds(registry[n])

\* The code of a failure agrees with what is there.
FailedWell(c, d) ==
  CASE c.kind = "REGISTER" -> TRUE
    [] c.kind = "ACQUIRE" ->
         /\ d.code = "INGEST_DISALLOWED" =>
              registry[c.source] # None /\ ~ Permits(c.source, "INGEST", c.purpose)
         /\ made[c.id] # None => d.code \in {"STAGE_FAILED", "EVIDENCE_INTEGRITY_FAILED"}
    [] c.kind = "NORMALIZE" ->
         /\ d.code = "DERIVATION_DISALLOWED" =>
              registry[c.source] # None /\ ~ Permits(c.source, "DERIVE", c.purpose)
         /\ made[c.id] # None => d.code \in {"STAGE_FAILED", "DEPENDENCY_INTEGRITY_FAILED"}
    [] c.kind = "BUILD_CANDIDATES" ->
         /\ d.code = "MEMBER_NOT_ELIGIBLE" =>
              /\ made[c.id] = None /\ Len(d.outputs) > 0
              /\ made[c.members[Len(d.outputs)]].decoded # "CANDIDATE"
         /\ made[c.id] # None /\ d.stages = << >> =>
              d.code = "STAGE_FAILED" /\ d.outputs = Upstream(c)

ReadingCall(t) ==
  LET c == command[t]
      d == draft[t] IN
  /\ (pc[t] \in {"claim", "claiming", "intending", "claimed", "stage", "register", "registering"}
        /\ c.kind = "REGISTER" /\ c.spec.kind = "SOURCE") => Binds(c.spec)
  /\ Working(t) => \A k \in DOMAIN d.outputs : Exists(d.outputs[k])
  /\ At(t, "registered") /\ d.code = "none" => registry[c.name] = c.spec
  /\ (At(t, "bind") \/ At(t, "publish")) /\ c.kind = "NORMALIZE" => registry[c.source] # None
  /\ At(t, "registered") => d.state = "none"
  /\ At(t, "failed") => FailedWell(c, d)
  /\ At(t, "save") => GoodRun(c, d)

RunIsGood(i) ==
  \A c \in Commands, r \in Runs : intents[i] = c /\ runs[i] = r => GoodRun(c, r)

ReadInv ==
  /\ Registrations
  /\ \A i \in IntentIds : GoodArtifact(i) /\ RunIsGood(i)
  /\ \A t \in Tasks : ReadingCall(t)

-----------------------------------------------------------------------------
(* Immutable files: what is there stays, and a good run stays good.        *)

Grows ==
  /\ \A i \in IntentIds : intents[i] # None => intents'[i] = intents[i]
  /\ \A i \in IntentIds : made[i] # None => made'[i] = made[i]
  /\ \A n \in Names : registry[n] # None => registry'[n] = registry[n]
  /\ contents \subseteq contents'

LEMMA GrowStep ==
  ASSUME WorkInv, [Next]_vars
  PROVE  Grows
<1>1. CASE UNCHANGED vars \/ RemoveLock
  BY <1>1 DEF Grows, vars, RemoveLock, stored
<1>2. ASSUME NEW t \in Tasks, NEW c \in Commands, Begin(t, c)
      PROVE  Grows
  BY <1>2 DEF Grows, Begin, stored
<1>3. ASSUME NEW t \in Tasks, Crash(t)
      PROVE  Grows
  BY <1>3 DEF Grows, Crash, stored
<1>4. ASSUME NEW t \in Tasks, Step(t)
      PROVE  Grows
  <2>1. CASE \/ Lookup(t) \/ TakeLock(t) \/ Claim(t) \/ ReleaseClaim(t) \/ BeginStage(t)
             \/ ReleaseRegistration(t) \/ BindAcquisition(t) \/ BindMember(t) \/ VerifyArtifact(t)
             \/ Discover(t) \/ ReadBack(t)
    <3>1. UNCHANGED stored
      BY <2>1 DEF Lookup, TakeLock, Claim, ReleaseClaim, BeginStage, ReleaseRegistration,
           BindAcquisition, BindMember, VerifyArtifact, Discover, ReadBack
    <3> QED BY <3>1 DEF Grows, stored
  <2>2. CASE SaveRun(t) \/ StoreBytes(t)
    BY <2>2 DEF SaveRun, StoreBytes, Grows
  <2>3. CASE PublishIntent(t)
    BY <2>3, CallHasCommand DEF PublishIntent, Grows, At, WorkInv, TypeOK
  <2>4. CASE Register(t)
    <3>1. UNCHANGED <<intents, made, contents>>
      BY <2>4 DEF Register
    <3>2. registry' = registry
          \/ /\ registry[command[t].name] \in {None, command[t].spec}
             /\ registry' = [registry EXCEPT ![command[t].name] = command[t].spec]
      BY <2>4 DEF Register
    <3> QED BY <3>1, <3>2 DEF Grows, WorkInv, TypeOK
  <2>5. CASE PublishArtifact(t)
    <3>1. Working(t) /\ At(t, "publish")
      BY <2>5 DEF PublishArtifact, Working, At
    <3>2. PICK c \in Commands : c = command[t] /\ c.id \in IntentIds /\ Progress(t)
      BY <3>1, WorkingFacts
    <3>3. made[c.id] = None
      BY <3>1, <3>2 DEF Progress, At
    <3>4. made' = made \/ made' = [made EXCEPT ![c.id] = Artifact(c)]
      BY <2>5, <3>2 DEF PublishArtifact
    <3> QED BY <2>5, <3>2, <3>3, <3>4 DEF PublishArtifact, Grows, WorkInv, TypeOK
  <2> QED BY <1>4, <2>1, <2>2, <2>3, <2>4, <2>5 DEF Step
<1> QED BY <1>1, <1>2, <1>3, <1>4 DEF Next

LEMMA ExistsStays ==
  ASSUME Grows, NEW ref \in Refs, Exists(ref)
  PROVE  Exists(ref)'
<1>1. CASE ref \in {"CORPUS", "SOURCE"} \X Names
  BY <1>1 DEF Exists, Known, Grows
<1>2. CASE ref \in {"CONTENT"} \X SourceContents
  BY <1>2 DEF Exists, Grows
<1>3. CASE ref \in {"ACQUISITION", "NORMALIZATION", "CANDIDATE_BUILD"} \X IntentIds
  BY <1>3 DEF Exists, Grows
<1> QED BY <1>1, <1>2, <1>3 DEF Refs

\* The artifact of command c, when it is there, is the one c makes.
OfCommand(c) ==
  made[c.id] # None =>
    /\ c.kind # "REGISTER" /\ made[c.id] = Artifact(c)
    /\ c.kind = "NORMALIZE" => HasAcquisition(c)

LEMMA FinishedStays ==
  ASSUME Grows, NEW c \in Commands, NEW r \in Runs, OfCommand(c), FinishedAsExpected(c, r)
  PROVE  FinishedAsExpected(c, r)'
<1>1. c.id \in IntentIds /\ \A j \in IntentIds : made[j] # None => made'[j] = made[j]
  BY CommandFields DEF Grows
<1>2. CASE c.kind = "REGISTER"
  <2>1. Own(c) # << >> /\ c.spec # None /\ c.name \in Names
    BY <1>2, OwnRef, CommandFields DEF IsSpec
  <2>2. registry[c.name] = c.spec
    BY <1>2, <2>1 DEF FinishedAsExpected, Retained
  <2>3. registry'[c.name] = c.spec
    BY <2>1, <2>2 DEF Grows
  <2> QED BY <1>2, <2>3 DEF FinishedAsExpected, Retained, FinalStages, FinalState
<1>3. CASE c.kind # "REGISTER"
  <2>1. made[c.id] # None
    <3>1. Retained(c) = Own(c) /\ Len(Own(c)) = 1 /\ made[c.id] = Artifact(c)
      BY <1>3, OwnRef DEF FinishedAsExpected
    <3> SUFFICES ASSUME made[c.id] = None PROVE FALSE
      OBVIOUS
    <3>2. CASE c.kind = "ACQUIRE"
      BY <3>1, <3>2, ArtifactTypes
    <3>3. CASE c.kind \in {"NORMALIZE", "BUILD_CANDIDATES"}
      <4>1. Own(c) = << >>
        BY <3>1, <3>3, RetainedRefs
      <4> QED BY <3>1, <4>1, EmptySeq
    <3> QED BY <1>3, <3>2, <3>3, CommandFields
  <2>2. made'[c.id] = made[c.id] /\ Retained(c)' = Own(c)
    <3>1. made'[c.id] = made[c.id]
      BY <1>1, <2>1
    <3> QED BY <1>3, <2>1, <3>1 DEF Retained
  <2>3. Artifact(c)' = Artifact(c)
    BY <1>1, <1>3, <2>1, ArtifactStays DEF OfCommand
  <2>4. FinalStages(c)' = FinalStages(c) /\ FinalState(c)' = FinalState(c)
    BY <2>2 DEF FinalStages, FinalState
  <2> QED BY <1>3, <2>2, <2>3, <2>4 DEF FinishedAsExpected
<1> QED BY <1>2, <1>3

\* What FailedAsExpected demands of a failed build, given what is retained, and
\* whether the last member it lists was not eligible.
FailedBuild(c, r, built, k, retained, ineligible) ==
  LET prefix == SubSeq(r.stages, 1, Len(r.stages) - 1)
      failed == r.stages[Len(r.stages)].stage IN
  /\ k <= Len(c.members) /\ SubSeq(r.outputs, 1, k) = SubSeq(Upstream(c), 1, k)
  /\ built => k = Len(c.members) /\ ~ r.additional /\ << r.outputs[k + 1] >> = retained
  /\ \/ /\ prefix = << >> /\ failed = "CANDIDATE_ASSEMBLY"
        /\ built => r.code = "STAGE_FAILED"
     \/ /\ prefix = << Done("CANDIDATE_ASSEMBLY", IF built THEN Own(c) ELSE << >>) >>
        /\ failed = "BUILD_INSPECTION"
        /\ k = Len(c.members) /\ (built \/ r.additional)
  /\ r.code = "MEMBER_NOT_ELIGIBLE" => ~ built /\ k > 0 /\ ineligible

HasBuilt(r) == Kinds(r.outputs) \cap {"CANDIDATE_BUILD"} # {}
Listed(r) == IF HasBuilt(r) THEN Len(r.outputs) - 1 ELSE Len(r.outputs)

LEMMA FailedBuildIs ==
  ASSUME NEW c \in Commands, c.kind = "BUILD_CANDIDATES", NEW r
  PROVE  FailedAsExpected(c, r) <=>
           FailedBuild(c, r, HasBuilt(r), Listed(r), Retained(c),
                       made[c.members[Listed(r)]].decoded # "CANDIDATE")
BY DEF FailedAsExpected, FailedBuild, HasBuilt, Listed

LEMMA FailedBuildWillBe ==
  ASSUME NEW c \in Commands, c.kind = "BUILD_CANDIDATES", NEW r
  PROVE  FailedAsExpected(c, r)' <=>
           FailedBuild(c, r, HasBuilt(r), Listed(r), Retained(c)',
                       made'[c.members[Listed(r)]].decoded # "CANDIDATE")
BY DEF FailedAsExpected, FailedBuild, HasBuilt, Listed

LEMMA FailedStays ==
  ASSUME Grows, NEW c \in Commands, NEW r \in Runs, FailedAsExpected(c, r), Settled(c, r),
         r.state = "FAILED", \A i \in DOMAIN r.outputs : Exists(r.outputs[i])
  PROVE  FailedAsExpected(c, r)'
<1>1. c.id \in IntentIds /\ \A j \in IntentIds : made[j] # None => made'[j] = made[j]
  BY CommandFields DEF Grows
<1>2. \A s \in Names : \A operation, purpose :
        registry[s] # None => Permits(s, operation, purpose)' = Permits(s, operation, purpose)
  BY DEF Grows, Permits
<1>3. c.kind # "REGISTER" /\ made[c.id] # None => Retained(c)' = Retained(c)
  BY <1>1 DEF Retained
<1>4. CASE c.kind = "REGISTER"
  BY <1>4 DEF FailedAsExpected
<1>5. CASE c.kind = "ACQUIRE"
  <2>1. r.code = "INGEST_DISALLOWED" => ~ Permits(c.source, "INGEST", c.purpose)'
    <3>1. r.code = "INGEST_DISALLOWED" =>
            registry[c.source] # None /\ ~ Permits(c.source, "INGEST", c.purpose) /\ c.source \in Names
      BY <1>5, CommandFields DEF FailedAsExpected, Settled
    <3> QED BY <1>2, <3>1
  <2>2. r.outputs # << >> => r.outputs \in {Retained(c)', << Ref("CONTENT", c.content) >>}
    <3>1. r.outputs # << >> => r.outputs \in {Retained(c), << Ref("CONTENT", c.content) >>}
      BY <1>5 DEF FailedAsExpected
    <3>2. made[c.id] = None => Retained(c) \in {<< >>, << Ref("CONTENT", c.content) >>}
      BY <1>5, RetainedRefs DEF Ref
    <3> QED BY <1>3, <1>5, <3>1, <3>2
  <2> QED BY <1>5, <2>1, <2>2 DEF FailedAsExpected
<1>6. CASE c.kind = "NORMALIZE"
  <2>1. r.code = "DERIVATION_DISALLOWED" /\ ~ Permits(c.source, "DERIVE", c.purpose) =>
          ~ Permits(c.source, "DERIVE", c.purpose)'
    BY <1>2, <1>6, CommandFields DEF Settled
  <2>2. r.outputs \in {Upstream(c), Upstream(c) \o Retained(c)} =>
          r.outputs \in {Upstream(c), Upstream(c) \o Retained(c)'}
    <3>1. made[c.id] = None => Upstream(c) \o Retained(c) = Upstream(c)
      BY <1>6, RetainedRefs, UpstreamRefs, ConcatEmptySeq
    <3> QED BY <1>3, <1>6, <3>1
  <2> QED BY <1>6, <2>1, <2>2 DEF FailedAsExpected
<1>7. CASE c.kind = "BUILD_CANDIDATES"
  <2> DEFINE built == HasBuilt(r)
             k == Listed(r)
             ineligible == made[c.members[k]].decoded # "CANDIDATE"
  <2>1. Len(r.outputs) \in Nat /\ DOMAIN r.outputs = 1 .. Len(r.outputs)
    BY LenProperties DEF Runs
  <2>2. FailedBuild(c, r, built, k, Retained(c), ineligible)
    BY <1>7, FailedBuildIs
  <2>3. built /\ << r.outputs[k + 1] >> = Retained(c) => << r.outputs[k + 1] >> = Retained(c)'
    <3>1. \A e : << e >> # << >>
      OBVIOUS
    <3>2. made[c.id] = None => Retained(c) = << >>
      BY <1>7, RetainedRefs
    <3> QED BY <1>3, <1>7, <3>1, <3>2
  <2>4. ASSUME r.code = "MEMBER_NOT_ELIGIBLE"
        PROVE  made'[c.members[k]].decoded # "CANDIDATE"
    <3>1. ~ built /\ k > 0 /\ ineligible
          /\ k <= Len(c.members) /\ SubSeq(r.outputs, 1, k) = SubSeq(Upstream(c), 1, k)
      BY <2>2, <2>4 DEF FailedBuild
    <3>2. k = Len(r.outputs) /\ k \in Nat
      BY <2>1, <3>1 DEF Listed
    <3>3. Len(Upstream(c)) = Len(c.members) /\ Len(c.members) \in Nat /\ Upstream(c) \in Seq(Refs)
          /\ r.outputs \in Seq(Refs)
      BY <1>7, UpstreamRefs DEF Runs
    <3> HIDE DEF k, built
    <3>4. k \in 1 .. k /\ k \in 0 .. Len(Upstream(c)) /\ k \in 0 .. Len(r.outputs)
          /\ k \in 1 .. Len(c.members)
      BY <3>1, <3>2, <3>3
    <3>5. SubSeq(r.outputs, 1, k)[k] = r.outputs[k] /\ SubSeq(Upstream(c), 1, k)[k] = Upstream(c)[k]
      BY <3>3, <3>4, PrefixOfRefs
    <3>6. r.outputs[k] = <<"NORMALIZATION", c.members[k]>> /\ c.members[k] \in IntentIds
      BY <1>7, <3>1, <3>4, <3>5, UpstreamRefs
    <3>7. Exists(<<"NORMALIZATION", c.members[k]>>)
      BY <2>1, <3>2, <3>4, <3>6
    <3>8. made[c.members[k]] # None
      BY <3>7 DEF Exists
    <3> QED BY <1>1, <3>1, <3>6, <3>8
  <2>5. FailedBuild(c, r, built, k, Retained(c)', made'[c.members[k]].decoded # "CANDIDATE")
    <3> HIDE DEF built, k, ineligible
    <3> QED BY <2>2, <2>3, <2>4 DEF FailedBuild
  <2> QED BY <1>7, <2>5, FailedBuildWillBe
<1> QED BY <1>4, <1>5, <1>6, <1>7, CommandFields

LEMMA GoodRunStays ==
  ASSUME Grows, NEW c \in Commands, NEW r \in Runs, OfCommand(c), made'[c.id] = made[c.id],
         GoodRun(c, r)
  PROVE  GoodRun(c, r)'
<1>1. \A i \in DOMAIN r.outputs : r.outputs[i] \in Refs
  BY LenProperties, ElementOfSeq DEF Runs
<1>2. \A i \in DOMAIN r.outputs : Exists(r.outputs[i]) /\ Exists(r.outputs[i])'
  BY <1>1, ExistsStays DEF GoodRun, Readable
<1>3. Settled(c, r)'
  BY CommandFields DEF GoodRun, Settled, Grows
<1>4. Shows(c, r)'
  BY DEF GoodRun, Shows
<1>5. Readable(c, r)'
  BY <1>2, FinishedStays, FailedStays DEF GoodRun, Readable, HasReceipt, HasArtifact, Kinds
<1> QED BY <1>3, <1>4, <1>5 DEF GoodRun

LEMMA FailedWellStays ==
  ASSUME WorkInv, Grows, NEW c \in Commands, NEW d \in Runs, made'[c.id] = made[c.id],
         FailedShape(c, d), FailedWell(c, d), \A k \in DOMAIN d.outputs : Exists(d.outputs[k])
  PROVE  FailedWell(c, d)'
<1>1. \A s \in Names : \A operation, purpose :
        registry[s] # None => /\ registry'[s] # None
                              /\ Permits(s, operation, purpose)' = Permits(s, operation, purpose)
  BY DEF Grows, Permits
<1>2. CASE c.kind \in {"REGISTER", "ACQUIRE", "NORMALIZE"}
  <2>1. c.kind # "REGISTER" => c.source \in Names
    BY <1>2, CommandFields
  <2>2. CASE c.kind = "REGISTER"
    BY <2>2 DEF FailedWell
  <2>3. CASE c.kind = "ACQUIRE"
    BY <1>1, <2>1, <2>3 DEF FailedWell
  <2>4. CASE c.kind = "NORMALIZE"
    BY <1>1, <2>1, <2>4 DEF FailedWell
  <2> QED BY <1>2, <2>2, <2>3, <2>4
<1>3. CASE c.kind = "BUILD_CANDIDATES"
  <2>1. ASSUME d.code = "MEMBER_NOT_ELIGIBLE"
        PROVE  made'[c.members[Len(d.outputs)]] = made[c.members[Len(d.outputs)]]
    <3> DEFINE k == Len(d.outputs)
    <3>1. made[c.id] = None /\ k > 0 /\ k \in Nat /\ DOMAIN d.outputs = 1 .. k
      BY <1>3, <2>1, LenProperties DEF FailedWell, Runs
    <3>2. \/ d.outputs = Upstream(c) \o Own(c)
          \/ /\ k \in 0 .. Len(Upstream(c))
             /\ \A n \in 1 .. k : d.outputs[n] = Upstream(c)[n]
      BY <1>3, OutputsBeforeOwn
    <3>3. d.outputs # Upstream(c) \o Own(c)
      <4>1. CASE d.outputs = Upstream(c) \o Own(c)
        <5>1. \E n \in 0 .. Len(c.members) : d.outputs = SubSeq(Upstream(c), 1, n)
          BY <1>3, <3>1 DEF FailedShape
        <5>2. PICK n \in 0 .. Len(c.members) : d.outputs = SubSeq(Upstream(c), 1, n)
          BY <5>1
        <5>3. Upstream(c) \in Seq(Refs) /\ Len(Upstream(c)) = Len(c.members) /\ Len(c.members) \in Nat
              /\ Len(Upstream(c) \o Own(c)) = Len(Upstream(c)) + 1
          BY <1>3, UpstreamRefs, OutputRefs
        <5>4. Len(d.outputs) = n
          BY <5>2, <5>3, PrefixOfRefs
        <5> QED BY <4>1, <5>3, <5>4
      <4> QED BY <4>1
    <3>4. Len(Upstream(c)) = Len(c.members) /\ Len(c.members) \in Nat
      BY <1>3, UpstreamRefs
    <3> HIDE DEF k
    <3>5. k \in 1 .. k /\ k \in 1 .. Len(c.members) /\ k \in DOMAIN d.outputs
      BY <3>1, <3>2, <3>3, <3>4
    <3>6. d.outputs[k] = <<"NORMALIZATION", c.members[k]>> /\ c.members[k] \in IntentIds
      BY <1>3, <3>2, <3>3, <3>5, UpstreamRefs
    <3>7. made[c.members[k]] # None
      BY <3>5, <3>6 DEF Exists
    <3> QED BY <3>6, <3>7 DEF Grows, k
  <2> QED BY <1>3, <2>1 DEF FailedWell
<1> QED BY <1>2, <1>3, CommandFields

LEMMA BindsStay ==
  ASSUME Grows, NEW spec, spec.corpus \in Names, Binds(spec)
  PROVE  Binds(spec)'
BY DEF Grows, Binds, Known

\* A step of one worker leaves the others' calls, and the artifacts of closed
\* requests, as they are.
LEMMA OthersStay ==
  ASSUME WorkInv, NEW t \in Tasks, Step(t) \/ Crash(t) \/ \E c \in Commands : Begin(t, c)
  PROVE  /\ \A u \in Tasks \ {t} : pc'[u] = pc[u] /\ command'[u] = command[u] /\ draft'[u] = draft[u]
         /\ \A u \in Tasks \ {t} : Working(u) => made'[command[u].id] = made[command[u].id]
         /\ \A i \in IntentIds : runs[i] # None => made'[i] = made[i] /\ runs'[i] = runs[i]
<1>1. \A u \in Tasks \ {t} : pc'[u] = pc[u] /\ command'[u] = command[u] /\ draft'[u] = draft[u]
  <2>1. \A place : Goto(t, place) => \A u \in Tasks \ {t} : pc'[u] = pc[u]
    BY DEF Goto, WorkInv, TypeOK
  <2>2. Rest(t) => \A u \in Tasks \ {t} : pc'[u] = pc[u] /\ command'[u] = command[u] /\ draft'[u] = draft[u]
    BY <2>1 DEF Rest, WorkInv, TypeOK
  <2>3. Again(t) => \A u \in Tasks \ {t} : pc'[u] = pc[u] /\ command'[u] = command[u] /\ draft'[u] = draft[u]
    BY <2>1, <2>2 DEF Again, Refuse, Proceed
  <2>4. \A code, outputs : FailWith(t, code, outputs) =>
          \A u \in Tasks \ {t} : pc'[u] = pc[u] /\ command'[u] = command[u] /\ draft'[u] = draft[u]
    BY <2>1 DEF FailWith, WorkInv, TypeOK
  <2>5. \A place, outputs, stages : Note(t, place, outputs, stages) =>
          \A u \in Tasks \ {t} : pc'[u] = pc[u] /\ command'[u] = command[u] /\ draft'[u] = draft[u]
    BY <2>1 DEF Note, WorkInv, TypeOK
  <2>6. Finish(t) => \A u \in Tasks \ {t} : pc'[u] = pc[u] /\ command'[u] = command[u] /\ draft'[u] = draft[u]
    BY <2>1 DEF Finish, WorkInv, TypeOK
  <2>7. CASE Crash(t) \/ Lookup(t) \/ ReadBack(t)
    BY <2>1, <2>2, <2>7 DEF Crash, Lookup, ReadBack, Refuse, Answer, Proceed
  <2>8. CASE \E c \in Commands : Begin(t, c)
    BY <2>1, <2>8 DEF Begin, WorkInv, TypeOK
  <2>9. CASE TakeLock(t) \/ Claim(t) \/ PublishIntent(t) \/ ReleaseClaim(t)
    BY <2>1, <2>3, <2>4, <2>9 DEF TakeLock, Claim, PublishIntent, ReleaseClaim, Proceed, Fail
  <2>10. CASE BeginStage(t) \/ StoreBytes(t) \/ BindAcquisition(t)
    BY <2>1, <2>4, <2>5, <2>10 DEF BeginStage, StoreBytes, BindAcquisition, Proceed, Fail
  <2>11. CASE BindMember(t)
    BY <2>4, <2>5, <2>11 DEF BindMember, Fail
  <2>12. CASE PublishArtifact(t)
    BY <2>1, <2>4, <2>5, <2>12 DEF PublishArtifact, Proceed, Fail
  <2>13. CASE VerifyArtifact(t) \/ ReleaseRegistration(t)
    BY <2>4, <2>6, <2>13 DEF VerifyArtifact, ReleaseRegistration, Fail
  <2>14. CASE Register(t)
    BY <2>1, <2>14 DEF Register, Proceed, WorkInv, TypeOK
  <2>15. CASE Discover(t)
    BY <2>1, <2>15 DEF Discover, WorkInv, TypeOK
  <2>16. CASE SaveRun(t)
    BY <2>1, <2>2, <2>16 DEF SaveRun, Proceed, Refuse
  <2> QED BY <2>7, <2>8, <2>9, <2>10, <2>11, <2>12, <2>13, <2>14, <2>15, <2>16 DEF Step
<1>2. made' = made \/ (At(t, "publish") /\ \E e : made' = [made EXCEPT ![command[t].id] = e])
  BY DEF Crash, Begin, Step, Lookup, TakeLock, Claim, PublishIntent, ReleaseClaim, BeginStage,
         Register, ReleaseRegistration, StoreBytes, BindAcquisition, BindMember, PublishArtifact,
         VerifyArtifact, Discover, SaveRun, ReadBack, stored
<1>3. ASSUME NEW i \in IntentIds, made'[i] # made[i]
      PROVE  Working(t) /\ i = command[t].id /\ runs[i] = None
  <2>1. At(t, "publish") /\ i = command[t].id
    BY <1>2, <1>3 DEF WorkInv, TypeOK
  <2>2. Working(t)
    BY <2>1 DEF Working, At
  <2> QED BY <2>1, <2>2, WorkingFacts DEF Progress
<1>4. ASSUME NEW u \in Tasks \ {t}, Working(u)
      PROVE  made'[command[u].id] = made[command[u].id]
  <2>1. command[u].id \in IntentIds
    BY <1>4, WorkingFacts
  <2> QED BY <1>3, <1>4, <2>1 DEF WorkInv, WorksAlone
<1>5. ASSUME NEW i \in IntentIds, runs[i] # None
      PROVE  runs'[i] = runs[i]
  <2>1. runs' = runs \/ (runs[command[t].id] = None /\ \E e : runs' = [runs EXCEPT ![command[t].id] = e])
    BY DEF Crash, Begin, Step, Lookup, TakeLock, Claim, PublishIntent, ReleaseClaim, BeginStage,
         Register, ReleaseRegistration, StoreBytes, BindAcquisition, BindMember, PublishArtifact,
         VerifyArtifact, Discover, SaveRun, ReadBack, stored
  <2> QED BY <1>5, <2>1 DEF WorkInv, TypeOK
<1> QED BY <1>1, <1>3, <1>4, <1>5

\* The places of a registration whose source was found to fit its corpus.
Reserving ==
  {"claim", "claiming", "intending", "claimed", "stage", "register", "registering"}

LEMMA OthersRead ==
  ASSUME WorkInv, Grows, NEW u \in Tasks, ReadingCall(u),
         pc'[u] = pc[u], command'[u] = command[u], draft'[u] = draft[u],
         Working(u) => made'[command[u].id] = made[command[u].id]
  PROVE  ReadingCall(u)'
<1>1. CASE At(u, "idle")
  BY <1>1 DEF ReadingCall, Working, At
<1>2. CASE ~ At(u, "idle")
  <2>1. PICK c \in Commands, d \in Runs : c = command[u] /\ d = draft[u] /\ c.id \in IntentIds
    BY <1>2, CallHasCommand
  <2>2. c = command'[u] /\ d = draft'[u]
    BY <2>1
  <2>3. Binds(c.spec) /\ c.kind = "REGISTER" /\ c.spec.kind = "SOURCE" => Binds(c.spec)'
    BY BindsStay, CommandFields DEF IsSpec
  <2>4. (\A k \in DOMAIN d.outputs : Exists(d.outputs[k])) =>
          \A k \in DOMAIN d.outputs : Exists(d.outputs[k])'
    <3>1. \A k \in DOMAIN d.outputs : d.outputs[k] \in Refs
      BY LenProperties, ElementOfSeq DEF Runs
    <3> QED BY <3>1, ExistsStays
  <2>5. At(u, "registered") /\ d.code = "none" => registry'[c.name] = c.spec
    <3>1. ASSUME At(u, "registered"), d.code = "none"
          PROVE  registry'[c.name] = c.spec
      <4>1. registry[c.name] = c.spec /\ Working(u)
        BY <2>1, <3>1 DEF ReadingCall, Working, At
      <4>2. c.kind = "REGISTER"
        BY <2>1, <3>1, <4>1, WorkingFacts DEF Progress, Shape
      <4>3. c.name \in Names /\ c.spec # None
        BY <4>2, CommandFields DEF IsSpec
      <4> QED BY <4>1, <4>3 DEF Grows
    <3> QED BY <3>1
  <2>6. c.kind = "NORMALIZE" /\ registry[c.source] # None => registry'[c.source] # None
    BY CommandFields DEF Grows
  <2>7. ASSUME At(u, "failed")
        PROVE  FailedWell(c, d)'
    <3>1. Working(u) /\ FailedWell(c, d) /\ \A k \in DOMAIN d.outputs : Exists(d.outputs[k])
      BY <2>1, <2>7 DEF ReadingCall, Working, At
    <3>2. FailedShape(c, d)
      BY <2>1, <2>7, <3>1, WorkingFacts DEF Progress, Shape
    <3>3. made'[c.id] = made[c.id]
      BY <2>1, <3>1
    <3> QED BY <3>1, <3>2, <3>3, FailedWellStays
  <2>8. ASSUME At(u, "save")
        PROVE  GoodRun(c, d)'
    <3>1. Working(u) /\ GoodRun(c, d)
      BY <2>1, <2>8 DEF ReadingCall, Working, At
    <3>2. OfCommand(c)
      <4>1. Progress(u)
        BY <3>1, WorkingFacts
      <4> QED BY <2>1, <2>8, <4>1 DEF Progress, OfCommand, At
    <3>3. made'[c.id] = made[c.id]
      BY <2>1, <3>1
    <3> QED BY <3>1, <3>2, <3>3, GoodRunStays
  <2> QED BY <2>1, <2>2, <2>3, <2>4, <2>5, <2>6, <2>7, <2>8 DEF ReadingCall, Working, At
<1> QED BY <1>1, <1>2

-----------------------------------------------------------------------------
(* The run of a failed request can be read.                                *)

LEMMA PrefixOfAppended ==
  ASSUME NEW before \in Seq(Stages), NEW e \in Stages
  PROVE  LET stages == Append(before, e) IN
         /\ SubSeq(stages, 1, Len(stages) - 1) = before
         /\ stages[Len(stages)] = e
<1> DEFINE stages == Append(before, e)
           n == Len(before)
<1>1. /\ stages \in Seq(Stages) /\ n \in Nat /\ Len(stages) = n + 1
      /\ \A i \in 1 .. n : stages[i] = before[i]
      /\ stages[n + 1] = e
  BY AppendProperties, LenProperties
<1>2. \A i \in 1 .. n : stages[i] \in Stages
  BY <1>1, ElementOfSeq
<1> HIDE DEF stages
<1>3. /\ SubSeq(stages, 1, n) \in Seq(Stages)
      /\ Len(SubSeq(stages, 1, n)) = IF 1 <= n THEN n - 1 + 1 ELSE 0
      /\ \A i \in 1 .. n - 1 + 1 : SubSeq(stages, 1, n)[i] = stages[1 + i - 1]
  BY <1>1, <1>2, SubSeqProperties
<1>4. Len(SubSeq(stages, 1, n)) = n /\ \A i \in 1 .. n : SubSeq(stages, 1, n)[i] = before[i]
  <2>1. \A i \in 1 .. n : i \in 1 .. n - 1 + 1 /\ 1 + i - 1 = i
    BY <1>1
  <2>2. Len(SubSeq(stages, 1, n)) = n
    BY <1>1, <1>3
  <2> QED BY <1>1, <1>3, <2>1, <2>2
<1>5. SubSeq(stages, 1, n) = before
  BY <1>1, <1>3, <1>4, SeqEqual
<1>6. Len(stages) - 1 = n
  BY <1>1
<1> QED BY <1>1, <1>5, <1>6 DEF stages

\* What a request made is there.
LEMMA OwnExists ==
  ASSUME TypeOK, NEW c \in Commands, OfCommand(c), made[c.id] # None
  PROVE  Exists(Own(c)[1])
<1>1. c.kind # "REGISTER" /\ made[c.id] = Artifact(c) /\ (c.kind = "NORMALIZE" => HasAcquisition(c))
  BY DEF OfCommand
<1>2. /\ c.kind = "ACQUIRE" => made[c.id].kind = "ACQUISITION"
      /\ c.kind = "NORMALIZE" => made[c.id].kind = "NORMALIZATION"
      /\ c.kind = "BUILD_CANDIDATES" => made[c.id].kind = "CANDIDATE_BUILD"
  BY <1>1, ArtifactTypes DEF TypeOK, HasAcquisition
<1>3. \A kind \in {"ACQUISITION", "NORMALIZATION", "CANDIDATE_BUILD"} :
        made[c.id].kind = kind => Exists(<<kind, c.id>>)
  BY DEF Exists
<1> QED BY <1>1, <1>2, <1>3, OwnRef, CommandFields

\* Outputs with one more that is there.
LEMMA OneMoreExists ==
  ASSUME NEW outputs \in Seq(Refs), NEW c \in Commands, Exists(Own(c)[1]),
         \A k \in DOMAIN outputs : Exists(outputs[k])
  PROVE  \A k \in DOMAIN (outputs \o Own(c)) : Exists((outputs \o Own(c))[k])
<1> DEFINE all == outputs \o Own(c)
           n == Len(outputs)
<1>1. Own(c) \in Seq(Refs) /\ Len(Own(c)) = 1 /\ n \in Nat /\ DOMAIN outputs = 1 .. n
  BY OwnRef, LenProperties
<1>2. /\ all \in Seq(Refs) /\ Len(all) = n + 1
      /\ \A k \in 1 .. n + 1 : all[k] = IF k <= n THEN outputs[k] ELSE Own(c)[k - n]
  BY <1>1, ConcatProperties
<1>3. DOMAIN all = 1 .. n + 1
  BY <1>2, LenProperties
<1> HIDE DEF all, n
<1>4. ASSUME NEW k \in 1 .. n + 1
      PROVE  Exists(all[k])
  <2>1. CASE k <= n
    <3>1. k \in 1 .. n
      BY <1>1, <2>1
    <3> QED BY <1>1, <1>2, <2>1, <3>1
  <2>2. CASE ~ (k <= n)
    <3>1. k - n = 1
      BY <1>1, <2>2
    <3>2. all[k] = Own(c)[k - n]
      BY <1>2, <2>2
    <3> QED BY <3>1, <3>2
  <2> QED BY <2>1, <2>2
<1> QED BY <1>3, <1>4 DEF all

\* What a run says of itself is true.
LEMMA SaysSo ==
  ASSUME NEW r, r.receipt = "yes" <=> HasReceipt(r.outputs), r.artifact = "yes" <=> HasArtifact(r.outputs)
  PROVE  (r.receipt = "yes") = HasReceipt(r.outputs) /\ (r.artifact = "yes") = HasArtifact(r.outputs)
<1>1. HasReceipt(r.outputs) \in BOOLEAN /\ HasArtifact(r.outputs) \in BOOLEAN
  BY DEF HasReceipt, HasArtifact
<1> QED BY <1>1

LEMMA FailedRegisterIsGood ==
  ASSUME NEW c \in Commands, NEW d \in Runs, NEW unread \in BOOLEAN,
         c.kind = "REGISTER", FailedShape(c, d), made[c.id] = None
  PROVE  GoodRun(c, Failed(c, d, unread))
<1> DEFINE r == Failed(c, d, unread)
           e == Stage("REGISTRATION", "FAILED", << >>)
<1>1. r.outputs = << >> /\ r.stages = Append(<< >>, e)
  BY FailedPlainly DEF Active
<1>2. e \in Stages /\ << >> \in Seq(Stages)
  <2>1. "REGISTRATION" \in StageNames /\ "FAILED" \in StageStates /\ << >> \in Seq(Refs)
        /\ << >> \in Seq(Stages)
    BY EmptySeq DEF StageNames, StageStates
  <2> QED BY <2>1, StageTypes
<1>3. SubSeq(r.stages, 1, Len(r.stages) - 1) = << >> /\ r.stages[Len(r.stages)].stage = "REGISTRATION"
  <2>1. e.stage = "REGISTRATION"
    BY DEF Stage
  <2> HIDE DEF r, e
  <2> QED BY <1>1, <1>2, <2>1, PrefixOfAppended
<1>4. FailedAsExpected(c, r)
  BY <1>1, <1>3 DEF FailedAsExpected
<1>5. ~ HasReceipt(r.outputs) /\ ~ HasArtifact(r.outputs) /\ \A k \in DOMAIN r.outputs : FALSE
  BY <1>1 DEF HasReceipt, HasArtifact, Kinds
<1>6. r.state = "FAILED" /\ ~ r.additional /\ r.receipt # "yes" /\ r.artifact # "yes"
  BY <1>5, FailedSays
<1> HIDE DEF r
<1>7. (r.receipt = "yes") = HasReceipt(r.outputs) /\ (r.artifact = "yes") = HasArtifact(r.outputs)
  BY <1>5, <1>6, SaysSo
<1>8. Readable(c, r)
  BY <1>4, <1>5, <1>6, <1>7 DEF Readable
<1>9. Settled(c, r) /\ Shows(c, r)
  BY DEF Settled, Shows
<1> QED BY <1>8, <1>9 DEF GoodRun, r

LEMMA FailedAcquireIsGood ==
  ASSUME TypeOK, NEW c \in Commands, NEW d \in Runs, NEW unread \in BOOLEAN,
         c.kind = "ACQUIRE", FailedShape(c, d), FailedWell(c, d), OfCommand(c)
  PROVE  GoodRun(c, Failed(c, d, unread))
<1> DEFINE r == Failed(c, d, unread)
           e == Stage("CAPTURE", "FAILED", << >>)
           looked == ~ unread /\ d.code = "STAGE_FAILED"
<1>1. r.outputs = (IF looked THEN Retained(c) ELSE << >>) /\ r.stages = Append(<< >>, e)
  BY FailedPlainly DEF Active
<1>2. e \in Stages /\ << >> \in Seq(Stages)
  <2>1. "CAPTURE" \in StageNames /\ "FAILED" \in StageStates /\ << >> \in Seq(Refs)
        /\ << >> \in Seq(Stages)
    BY EmptySeq DEF StageNames, StageStates
  <2> QED BY <2>1, StageTypes
<1>3. SubSeq(r.stages, 1, Len(r.stages) - 1) = << >> /\ r.stages[Len(r.stages)].stage = "CAPTURE"
  <2>1. e.stage = "CAPTURE"
    BY DEF Stage
  <2> HIDE DEF r, e
  <2> QED BY <1>1, <1>2, <2>1, PrefixOfAppended
<1>4. r.code = d.code /\ r.state = "FAILED" /\ ~ r.additional
      /\ (unread /\ d.code = "STAGE_FAILED" => r.receipt = "UNCONFIRMED" /\ r.artifact = "UNCONFIRMED")
      /\ (~ (unread /\ d.code = "STAGE_FAILED") =>
            /\ r.receipt = "yes" <=> HasReceipt(r.outputs)
            /\ r.artifact = "yes" <=> HasArtifact(r.outputs))
  BY FailedSays
<1>5. FailedAsExpected(c, r)
  <2>1. r.code = "INGEST_DISALLOWED" => ~ Permits(c.source, "INGEST", c.purpose)
    BY <1>4 DEF FailedWell
  <2>2. r.outputs # << >> => r.code = "STAGE_FAILED" /\ r.outputs = Retained(c)
    BY <1>1, <1>4
  <2> HIDE DEF r
  <2> QED BY <1>3, <2>1, <2>2 DEF FailedAsExpected
<1>6. \A k \in DOMAIN r.outputs : Exists(r.outputs[k])
  <2>1. CASE ~ looked
    BY <1>1, <2>1
  <2>2. CASE looked /\ made[c.id] # None
    <3>1. r.outputs = << Own(c)[1] >>
      BY <1>1, <2>2, RetainedRefs, OwnRef
    <3>2. Exists(Own(c)[1])
      BY <2>2, OwnExists
    <3> HIDE DEF r
    <3>3. \A x : \A k \in DOMAIN << x >> : << x >>[k] = x
      OBVIOUS
    <3> QED BY <3>1, <3>2, <3>3
  <2>3. CASE looked /\ made[c.id] = None
    <3>1. r.outputs = IF c.content \in contents THEN << <<"CONTENT", c.content>> >> ELSE << >>
      BY <1>1, <2>3, RetainedRefs
    <3>2. c.content \in contents => Exists(<<"CONTENT", c.content>>)
      BY DEF Exists
    <3> HIDE DEF r
    <3>3. \A x : \A k \in DOMAIN << x >> : << x >>[k] = x
      OBVIOUS
    <3>4. DOMAIN << >> = {}
      OBVIOUS
    <3> QED BY <3>1, <3>2, <3>3, <3>4
  <2> QED BY <2>1, <2>2, <2>3
<1>7. unread => ~ HasReceipt(r.outputs) /\ ~ HasArtifact(r.outputs)
  BY <1>1 DEF HasReceipt, HasArtifact, Kinds
<1>8. Shows(c, r)
  <2> SUFFICES ASSUME made[c.id] # None, r.code # "EVIDENCE_INTEGRITY_FAILED", ~ unread
               PROVE  \E k \in DOMAIN r.outputs : r.outputs[k] = Own(c)[1]
    <3> HIDE DEF r
    <3>1. made[c.id] # None /\ unread => r.code = "EVIDENCE_INTEGRITY_FAILED" \/ r.receipt = "UNCONFIRMED"
      BY <1>4 DEF FailedWell
    <3> QED BY <3>1 DEF Shows
  <2>1. d.code = "STAGE_FAILED"
    BY <1>4 DEF FailedWell
  <2>2. r.outputs = << Own(c)[1] >>
    BY <1>1, <2>1, RetainedRefs, OwnRef
  <2> HIDE DEF r
  <2>3. \A x : 1 \in DOMAIN << x >> /\ << x >>[1] = x
    OBVIOUS
  <2> QED BY <2>2, <2>3
<1>9. Settled(c, r)
  BY <1>4 DEF Settled, FailedWell
<1>10. (r.receipt = "yes") = HasReceipt(r.outputs) /\ (r.artifact = "yes") = HasArtifact(r.outputs)
  <2> HIDE DEF r
  <2>1. r.receipt = "yes" <=> HasReceipt(r.outputs)
    BY <1>4, <1>7
  <2>2. r.artifact = "yes" <=> HasArtifact(r.outputs)
    BY <1>4, <1>7
  <2> QED BY <2>1, <2>2, SaysSo
<1> HIDE DEF r
<1> QED BY <1>4, <1>5, <1>6, <1>8, <1>9, <1>10 DEF GoodRun, Readable, r

LEMMA FailedNormalizeIsGood ==
  ASSUME TypeOK, NEW c \in Commands, NEW d \in Runs, NEW unread \in BOOLEAN,
         c.kind = "NORMALIZE", FailedShape(c, d), FailedWell(c, d), OfCommand(c),
         \A k \in DOMAIN d.outputs : Exists(d.outputs[k])
  PROVE  GoodRun(c, Failed(c, d, unread))
<1> DEFINE r == Failed(c, d, unread)
           e == Stage(Active(c, d.stages), "FAILED", << >>)
           all == Upstream(c) \o Own(c)
<1>1. /\ Upstream(c) \in Seq(Refs) /\ Len(Upstream(c)) = 1
      /\ all \in Seq(Refs) /\ Len(all) = 2 /\ all[2] = Own(c)[1]
      /\ << >> \in Seq(Refs) /\ << >> \in Seq(Stages) /\ Len(<< >>) = 0
      /\ d.stages \in Seq(Stages) /\ d.outputs \in Seq(Refs)
  <2> HIDE DEF r, e, all
  <2>0. Len(Upstream(c)) = 1
    BY UpstreamRefs
  <2>1. Len(Upstream(c)) + 1 = 2
    BY <2>0
  <2> QED BY <2>0, <2>1, UpstreamRefs, OutputRefs, EmptySeq DEF Runs, all
<1>2. e \in Stages /\ e.stage = Active(c, d.stages)
  <2>1. Active(c, d.stages) \in StageNames /\ "FAILED" \in StageStates
    BY ActiveIsAStage DEF StageStates
  <2> QED BY <1>1, <2>1, StageTypes DEF Stage
<1>3. d.outputs # all
  <2>1. d.outputs = << >> \/ d.outputs = Upstream(c)
    BY DEF FailedShape
  <2> HIDE DEF all
  <2> QED BY <1>1, <2>1
<1>4. /\ r.outputs = IF ~ unread /\ made[c.id] # None THEN d.outputs \o Own(c) ELSE d.outputs
      /\ r.stages = Append(d.stages, e)
  <2>1. /\ r.outputs = IF unread THEN IF d.outputs = all THEN Upstream(c) ELSE d.outputs
                       ELSE IF made[c.id] # None /\ d.outputs # all THEN d.outputs \o Own(c)
                       ELSE d.outputs
        /\ r.stages = Append(d.stages, e)
    BY FailedDerivation
  <2> HIDE DEF r, all, e
  <2> QED BY <1>3, <2>1
<1>5. SubSeq(r.stages, 1, Len(r.stages) - 1) = d.stages
      /\ r.stages[Len(r.stages)].stage = Active(c, d.stages)
  <2> HIDE DEF r, e
  <2> QED BY <1>1, <1>2, <1>4, PrefixOfAppended
<1>6. /\ r.code = d.code /\ r.state = "FAILED" /\ r.additional \in BOOLEAN /\ (r.additional <=> unread)
      /\ r.receipt = "yes" <=> HasReceipt(r.outputs)
      /\ r.artifact = "yes" <=> HasArtifact(r.outputs)
  BY FailedSays
<1> HIDE DEF r, e
<1>7. FailedAsExpected(c, r)
  <2>1. r.code = "DERIVATION_DISALLOWED" => ~ Permits(c.source, "DERIVE", c.purpose)
    BY <1>6 DEF FailedWell
  <2>2. CASE d.outputs = << >> /\ d.stages = << >> /\ made[c.id] = None
    <3>1. Active(c, d.stages) = "EVIDENCE_INSPECTION" /\ r.outputs = << >>
      BY <1>4, <2>2 DEF Active
    <3> QED BY <1>5, <2>2, <3>1 DEF FailedAsExpected
  <2>3. CASE d.outputs = Upstream(c) /\ d.stages = Inspected(c)
    <3>1. \A x : << x >> # << >>
      OBVIOUS
    <3>2. Active(c, d.stages) = "NORMALIZATION"
      BY <2>3, <3>1 DEF Active, Inspected
    <3>3. r.outputs = IF ~ unread /\ made[c.id] # None THEN all ELSE Upstream(c)
      BY <1>4, <2>3
    <3> HIDE DEF all
    <3>4. r.outputs \in {Upstream(c), Upstream(c) \o Retained(c)}
      BY <3>3, RetainedRefs DEF all
    <3>5. Len(r.outputs) = 2 => ~ unread /\ made[c.id] # None
      BY <1>1, <3>3
    <3>6. Len(r.outputs) = 2 =>
            ~ r.additional /\ r.code \in {"STAGE_FAILED", "DEPENDENCY_INTEGRITY_FAILED"}
      BY <1>6, <3>5 DEF FailedWell
    <3> QED BY <1>5, <2>1, <2>3, <3>2, <3>4, <3>6 DEF FailedAsExpected, Inspected
  <2> QED BY <2>2, <2>3 DEF FailedShape
<1>8. \A k \in DOMAIN r.outputs : Exists(r.outputs[k])
  BY <1>1, <1>4, OwnExists, OneMoreExists
<1>9. Shows(c, r)
  <2>1. CASE unread \/ made[c.id] = None
    BY <1>6, <2>1 DEF Shows
  <2>2. CASE ~ unread /\ made[c.id] # None
    <3>1. d.outputs = Upstream(c)
      BY <2>2 DEF FailedShape
    <3>2. r.outputs = all
      BY <1>4, <2>2, <3>1
    <3> HIDE DEF all
    <3>3. 2 \in DOMAIN all
      BY <1>1, LenProperties
    <3> QED BY <1>1, <3>2, <3>3 DEF Shows
  <2> QED BY <2>1, <2>2
<1>10. Settled(c, r)
  BY <1>6 DEF Settled, FailedWell
<1>11. Readable(c, r)
  BY <1>6, <1>7, <1>8, SaysSo DEF Readable
<1> QED BY <1>9, <1>10, <1>11 DEF GoodRun, r

\* How many members the outputs of a failed build list.
LEMMA ListedOutputs ==
  ASSUME NEW c \in Commands, c.kind = "BUILD_CANDIDATES", NEW r, r.outputs \in Seq(Refs)
  PROVE  /\ \A k \in 0 .. Len(c.members) :
              r.outputs = SubSeq(Upstream(c), 1, k) =>
                ~ HasBuilt(r) /\ Listed(r) = k /\ SubSeq(r.outputs, 1, k) = SubSeq(Upstream(c), 1, k)
         /\ r.outputs = Upstream(c) \o Own(c) =>
              /\ HasBuilt(r) /\ Listed(r) = Len(c.members)
              /\ SubSeq(r.outputs, 1, Len(c.members)) = SubSeq(Upstream(c), 1, Len(c.members))
              /\ r.outputs[Len(c.members) + 1] = Own(c)[1]
<1> DEFINE n == Len(c.members)
           all == Upstream(c) \o Own(c)
<1>1. /\ Upstream(c) \in Seq(Refs) /\ Len(Upstream(c)) = n /\ n \in Nat \ {0}
      /\ Own(c)[1] = <<"CANDIDATE_BUILD", c.id>> /\ Own(c) \in Seq(Refs)
      /\ \A k \in 1 .. n : Upstream(c)[k] = <<"NORMALIZATION", c.members[k]>>
  BY UpstreamRefs, OwnRef
<1>2. ASSUME NEW k \in 0 .. Len(c.members), r.outputs = SubSeq(Upstream(c), 1, k)
      PROVE  ~ HasBuilt(r) /\ Listed(r) = k /\ SubSeq(r.outputs, 1, k) = SubSeq(Upstream(c), 1, k)
  <2>1. Len(r.outputs) = k /\ \A i \in 1 .. k : r.outputs[i] = Upstream(c)[i]
    BY <1>1, <1>2, PrefixOfRefs
  <2>2. DOMAIN r.outputs = 1 .. k /\ \A i \in 1 .. k : i \in 1 .. n
    BY <1>1, <2>1, LenProperties
  <2>3. \A i \in DOMAIN r.outputs : r.outputs[i][1] = "NORMALIZATION"
    BY <1>1, <2>1, <2>2
  <2>4. ~ HasBuilt(r)
    BY <2>3 DEF HasBuilt, Kinds
  <2>5. SubSeq(r.outputs, 1, k) = r.outputs
    BY <2>1, SubSeqFull
  <2> QED BY <1>2, <2>1, <2>4, <2>5 DEF Listed
<1>3. ASSUME r.outputs = all
      PROVE  /\ HasBuilt(r) /\ Listed(r) = n
             /\ SubSeq(r.outputs, 1, n) = SubSeq(Upstream(c), 1, n)
             /\ r.outputs[n + 1] = Own(c)[1]
  <2>1. Len(r.outputs) = n + 1 /\ r.outputs[n + 1] = <<"CANDIDATE_BUILD", c.id>>
    BY <1>1, <1>3, OutputRefs
  <2>2. n + 1 \in DOMAIN r.outputs
    BY <1>1, <2>1, LenProperties
  <2>3. HasBuilt(r)
    BY <2>1, <2>2 DEF HasBuilt, Kinds
  <2>4. SubSeq(all, 1, n) = SubSeq(Upstream(c), 1, n)
    <3>1. 1 \in 1 .. n /\ n \in 1 .. n
      BY <1>1
    <3> QED BY <1>1, <3>1, SubSeqOfConcat1
  <2>5. Listed(r) = n
    BY <1>1, <2>1, <2>3 DEF Listed
  <2> QED BY <1>1, <1>3, <2>1, <2>3, <2>4, <2>5
<1> QED BY <1>2, <1>3

LEMMA FailedBuildIsGood ==
  ASSUME TypeOK, NEW c \in Commands, NEW d \in Runs, NEW unread \in BOOLEAN,
         c.kind = "BUILD_CANDIDATES", FailedShape(c, d), FailedWell(c, d), OfCommand(c),
         \A k \in DOMAIN d.outputs : Exists(d.outputs[k])
  PROVE  GoodRun(c, Failed(c, d, unread))
<1> DEFINE r == Failed(c, d, unread)
           e == Stage(Active(c, d.stages), "FAILED", << >>)
           all == Upstream(c) \o Own(c)
           n == Len(c.members)
           none == Done("CANDIDATE_ASSEMBLY", << >>)
           before == IF unread /\ d.stages # << >> THEN << none >> ELSE d.stages
           failed == r.stages[Len(r.stages)].stage
           ineligible == made[c.members[Listed(r)]].decoded # "CANDIDATE"
<1>1. /\ Upstream(c) \in Seq(Refs) /\ Len(Upstream(c)) = n /\ n \in Nat \ {0}
      /\ all \in Seq(Refs) /\ Len(all) = n + 1 /\ all[n + 1] = Own(c)[1] /\ Own(c) = << Own(c)[1] >>
      /\ << >> \in Seq(Refs) /\ d.stages \in Seq(Stages) /\ d.outputs \in Seq(Refs)
      /\ SubSeq(Upstream(c), 1, n) = Upstream(c) /\ n \in 0 .. n
  <2>1. Upstream(c) \in Seq(Refs) /\ Len(Upstream(c)) = n /\ n \in Nat \ {0}
    BY UpstreamRefs
  <2>2. SubSeq(Upstream(c), 1, n) = Upstream(c) /\ n \in 0 .. n
    BY <2>1, SubSeqFull
  <2>3. Len(all) = n + 1 /\ all[n + 1] = Own(c)[1] /\ all \in Seq(Refs)
    BY <2>1, OutputRefs
  <2> QED BY <2>1, <2>2, <2>3, OwnRef, EmptySeq DEF Runs
<1>2. e \in Stages /\ e.stage = Active(c, d.stages) /\ none \in Stages
  <2>1. /\ Active(c, d.stages) \in StageNames /\ "FAILED" \in StageStates
        /\ "CANDIDATE_ASSEMBLY" \in StageNames /\ "COMPLETED" \in StageStates
    BY ActiveIsAStage DEF StageStates, StageNames
  <2> QED BY <1>1, <2>1, StageTypes DEF Stage
<1>3. before \in Seq(Stages)
  <2>1. << none >> \in Seq(Stages)
    BY <1>2, FewStages
  <2> HIDE DEF none
  <2> QED BY <1>1, <2>1
<1>4. /\ r.outputs = IF unread THEN IF d.outputs = all THEN Upstream(c) ELSE d.outputs
                     ELSE IF made[c.id] # None /\ d.outputs # all THEN d.outputs \o Own(c)
                     ELSE d.outputs
      /\ r.stages = Append(before, e)
  BY FailedDerivation
<1>5. SubSeq(r.stages, 1, Len(r.stages) - 1) = before /\ failed = Active(c, d.stages)
  <2> HIDE DEF r, e, before
  <2> QED BY <1>2, <1>3, <1>4, PrefixOfAppended
<1>6. /\ r.code = d.code /\ r.state = "FAILED" /\ r.additional \in BOOLEAN /\ (r.additional <=> unread)
      /\ r.receipt = "yes" <=> HasReceipt(r.outputs)
      /\ r.artifact = "yes" <=> HasArtifact(r.outputs)
  BY FailedSays
<1> HIDE DEF r, e, none, all
<1> SUFFICES GoodRun(c, r)
  BY DEF r
\* What is left to show of it, when it lists the members before k or all of them.
<1>7. ASSUME NEW k \in 0 .. n, r.outputs = SubSeq(Upstream(c), 1, k), made[c.id] = None \/ unread,
             \/ before = << >> /\ failed = "CANDIDATE_ASSEMBLY"
             \/ before = << none >> /\ failed = "BUILD_INSPECTION" /\ k = n /\ unread,
             r.code = "MEMBER_NOT_ELIGIBLE" => k > 0 /\ made[c.members[k]].decoded # "CANDIDATE",
             \A i \in DOMAIN r.outputs : Exists(r.outputs[i])
      PROVE  GoodRun(c, r)
  <2>1. r.outputs \in Seq(Refs)
    BY <1>1, <1>7, PrefixOfRefs
  <2>2. ~ HasBuilt(r) /\ Listed(r) = k /\ SubSeq(r.outputs, 1, k) = SubSeq(Upstream(c), 1, k)
    BY <1>7, <2>1, ListedOutputs
  <2>3. k <= n
    BY <1>1
  <2>4. FailedBuild(c, r, HasBuilt(r), Listed(r), Retained(c), ineligible)
    BY <1>5, <1>6, <1>7, <2>2, <2>3 DEF FailedBuild, none
  <2>5. FailedAsExpected(c, r)
    BY <2>4, FailedBuildIs
  <2>6. Readable(c, r)
    BY <1>6, <1>7, <2>5, SaysSo DEF Readable
  <2>7. Settled(c, r) /\ Shows(c, r)
    BY <1>6, <1>7 DEF Settled, Shows
  <2> QED BY <2>6, <2>7 DEF GoodRun
<1>8. ASSUME r.outputs = all, made[c.id] # None, ~ unread,
             \/ before = << >> /\ failed = "CANDIDATE_ASSEMBLY" /\ r.code = "STAGE_FAILED"
             \/ before = Assembled(c) /\ failed = "BUILD_INSPECTION",
             r.code # "MEMBER_NOT_ELIGIBLE",
             \A i \in DOMAIN r.outputs : Exists(r.outputs[i])
      PROVE  GoodRun(c, r)
  <2>1. /\ HasBuilt(r) /\ Listed(r) = n
        /\ SubSeq(r.outputs, 1, n) = SubSeq(Upstream(c), 1, n)
        /\ r.outputs[n + 1] = Own(c)[1]
    BY <1>1, <1>8, ListedOutputs DEF all
  <2>2. Retained(c) = << r.outputs[n + 1] >>
    BY <1>1, <1>8, <2>1, RetainedRefs
  <2>3. n <= n
    BY <1>1
  <2>4. FailedBuild(c, r, HasBuilt(r), Listed(r), Retained(c), ineligible)
    BY <1>5, <1>6, <1>8, <2>1, <2>2, <2>3 DEF FailedBuild, Assembled
  <2>5. FailedAsExpected(c, r)
    BY <2>4, FailedBuildIs
  <2>6. Readable(c, r)
    BY <1>6, <1>8, <2>5, SaysSo DEF Readable
  <2>7. n + 1 \in DOMAIN r.outputs
    BY <1>1, <1>8, LenProperties
  <2>8. Settled(c, r) /\ Shows(c, r)
    BY <2>1, <2>7 DEF Settled, Shows
  <2> QED BY <2>6, <2>8 DEF GoodRun
<1> HIDE DEF failed, before, n, ineligible
<1>9. CASE d.stages = << >> /\ \E k \in 0 .. n : d.outputs = SubSeq(Upstream(c), 1, k)
  <2>1. PICK k \in 0 .. n : d.outputs = SubSeq(Upstream(c), 1, k)
    BY <1>9
  <2>2. before = << >> /\ failed = "CANDIDATE_ASSEMBLY"
    BY <1>5, <1>9 DEF Active, before
  <2>3. Len(d.outputs) = k
    BY <1>1, <2>1, PrefixOfRefs
  <2>4. d.outputs # all
    BY <1>1, <2>3
  <2>5. CASE unread \/ made[c.id] = None
    <3>1. r.outputs = d.outputs
      BY <1>4, <2>4, <2>5
    <3>2. r.code = "MEMBER_NOT_ELIGIBLE" => k > 0 /\ made[c.members[k]].decoded # "CANDIDATE"
      BY <1>6, <2>3 DEF FailedWell
    <3>3. \A i \in DOMAIN r.outputs : Exists(r.outputs[i])
      BY <3>1
    <3>4. r.outputs = SubSeq(Upstream(c), 1, k) /\ (made[c.id] = None \/ unread)
      BY <2>1, <2>5, <3>1
    <3> QED BY <1>7, <2>2, <3>2, <3>3, <3>4
  <2>6. CASE ~ unread /\ made[c.id] # None
    <3>1. d.code = "STAGE_FAILED" /\ d.outputs = Upstream(c)
      BY <1>9, <2>6 DEF FailedWell
    <3>2. r.outputs = all
      BY <1>4, <2>4, <2>6, <3>1 DEF all
    <3>3. \A i \in DOMAIN r.outputs : Exists(r.outputs[i])
      BY <1>1, <2>6, <3>1, <3>2, OwnExists, OneMoreExists DEF all
    <3> QED BY <1>6, <1>8, <2>2, <2>6, <3>1, <3>2, <3>3
  <2> QED BY <2>5, <2>6
<1>10. CASE d.stages = Assembled(c) /\ d.outputs = all /\ made[c.id] # None
  <2>1. d.stages # << >>
    <3>1. \A x : << x >> # << >>
      OBVIOUS
    <3> QED BY <1>10, <3>1 DEF Assembled
  <2>2. failed = "BUILD_INSPECTION"
    BY <1>5, <2>1 DEF Active
  <2>3. d.code # "MEMBER_NOT_ELIGIBLE"
    BY <1>10 DEF FailedWell
  <2>4. CASE unread
    <3>1. before = << none >> /\ r.outputs = SubSeq(Upstream(c), 1, n)
      BY <1>1, <1>4, <1>10, <2>1, <2>4 DEF before
    <3>2. \A i \in DOMAIN r.outputs : Exists(r.outputs[i])
      <4>1. DOMAIN Upstream(c) = 1 .. n /\ DOMAIN all = 1 .. n + 1
        BY <1>1, LenProperties
      <4>2. \A i \in 1 .. n : i \in 1 .. n + 1 /\ all[i] = Upstream(c)[i]
        BY <1>1, OutputRefs DEF all
      <4> QED BY <1>1, <1>10, <3>1, <4>1, <4>2
    <3> QED BY <1>1, <1>6, <1>7, <2>2, <2>3, <2>4, <3>1, <3>2
  <2>5. CASE ~ unread
    <3>1. before = Assembled(c) /\ r.outputs = all
      BY <1>4, <1>10, <2>5 DEF before
    <3> QED BY <1>6, <1>8, <1>10, <2>2, <2>3, <2>5, <3>1
  <2> QED BY <2>4, <2>5
<1> QED
  <2>1. \/ \E k \in 0 .. n : d.outputs = SubSeq(Upstream(c), 1, k) /\ d.stages = << >>
        \/ d.outputs = all /\ d.stages = Assembled(c) /\ made[c.id] # None
    BY DEF FailedShape, all, n
  <2> QED BY <1>9, <1>10, <2>1

LEMMA FailedIsGood ==
  ASSUME TypeOK, NEW c \in Commands, NEW d \in Runs, NEW unread \in BOOLEAN,
         FailedShape(c, d), FailedWell(c, d), OfCommand(c),
         \A k \in DOMAIN d.outputs : Exists(d.outputs[k])
  PROVE  GoodRun(c, Failed(c, d, unread))
<1>1. c.kind = "REGISTER" => made[c.id] = None
  BY DEF OfCommand
<1> QED BY <1>1, CommandFields, FailedRegisterIsGood, FailedAcquireIsGood, FailedNormalizeIsGood,
           FailedBuildIsGood

-----------------------------------------------------------------------------
(* What a worker's own step leaves it with.                                *)

\* Nothing is known of a call at these places.
LEMMA ReadsNothing ==
  ASSUME NEW t \in Tasks, pc'[t] \in {"idle", "lookup", "unclaimed", "bytes", "saved"},
         pc'[t] = "bytes" => draft'[t] = NoDraft
  PROVE  ReadingCall(t)'
<1>1. DOMAIN NoDraft.outputs = {}
  BY DEF NoDraft
<1> QED BY <1>1 DEF ReadingCall, Working, At

LEMMA ReservingReads ==
  ASSUME WorkInv, Grows, NEW t \in Tasks, ReadingCall(t), pc[t] \in Reserving, pc'[t] \in Reserving,
         command'[t] = command[t], draft'[t] = draft[t]
  PROVE  ReadingCall(t)'
<1>1. ~ At(t, "idle") /\ Untouched(t)
  BY DEF At, Reserving, Untouched
<1>2. PICK c \in Commands : c = command[t] /\ draft[t] = NoDraft
  BY <1>1, CallHasCommand DEF WorkInv, CallInv
<1>3. DOMAIN NoDraft.outputs = {}
  BY DEF NoDraft
<1>4. c.kind = "REGISTER" /\ c.spec.kind = "SOURCE" => Binds(c.spec)
  BY <1>2 DEF ReadingCall, Reserving
<1>5. c.kind = "REGISTER" /\ c.spec.kind = "SOURCE" => Binds(c.spec)'
  BY <1>4, BindsStay, CommandFields DEF IsSpec
<1> QED BY <1>2, <1>3, <1>5 DEF ReadingCall, At, Reserving

\* It fails.
LEMMA FailReads ==
  ASSUME WorkInv, TypeOK', NEW t \in Tasks, Working(t), NEW code, NEW outputs,
         FailWith(t, code, outputs),
         \A c \in Commands, e \in Runs :
           /\ c = command[t] /\ e.code = code /\ e.outputs = outputs /\ e.stages = draft[t].stages
           => FailedWell(c, e)' /\ \A k \in DOMAIN outputs : Exists(outputs[k])'
  PROVE  ReadingCall(t)'
<1>1. PICK c \in Commands, d \in Runs : c = command[t] /\ d = draft[t]
  BY WorkingFacts
<1>2. command'[t] = c /\ pc'[t] = "failed"
  BY <1>1 DEF FailWith, Goto, WorkInv, TypeOK
<1>3. PICK e \in Runs : e = draft'[t]
  BY DEF TypeOK
<1>4. e.code = code /\ e.outputs = outputs /\ e.stages = d.stages
  <2>1. e = [d EXCEPT !.code = code, !.outputs = outputs]
    BY <1>1, <1>3 DEF FailWith, WorkInv, TypeOK
  <2> QED BY <2>1 DEF Runs
<1>5. FailedWell(c, e)' /\ \A k \in DOMAIN e.outputs : Exists(e.outputs[k])'
  BY <1>1, <1>4
<1> QED BY <1>2, <1>3, <1>5 DEF ReadingCall, At

\* It goes on to inspect, publish or verify, with these outputs.
LEMMA NoteReads ==
  ASSUME NEW t \in Tasks, pc'[t] \in {"bind", "publish", "verify"},
         NEW d, NEW c, d = draft'[t], c = command'[t],
         \A k \in DOMAIN d.outputs : Exists(d.outputs[k])',
         pc'[t] # "verify" /\ c.kind = "NORMALIZE" => registry'[c.source] # None
  PROVE  ReadingCall(t)'
BY DEF ReadingCall, At

\* It completes its run.
LEMMA FinishReads ==
  ASSUME WorkInv, TypeOK', NEW t \in Tasks, Working(t), Finish(t), UNCHANGED stored,
         NEW c \in Commands, c = command[t],
         c.kind = "REGISTER" => registry[c.name] = c.spec /\ made[c.id] = None,
         c.kind # "REGISTER" => made[c.id] = Artifact(c) /\ (c.kind = "NORMALIZE" => HasAcquisition(c)),
         \A k \in DOMAIN Upstream(c) : Exists(Upstream(c)[k])
  PROVE  ReadingCall(t)'
<1> DEFINE all == Upstream(c) \o Own(c)
           n == Len(Upstream(c))
<1>1. PICK r \in Runs : r = draft'[t]
  BY DEF TypeOK
<1>2. /\ command'[t] = c /\ pc'[t] = "save"
      /\ r.outputs = all /\ r.stages = FinalStages(c) /\ r.state = FinalState(c)
  <2>1. PICK d \in Runs : d = draft[t]
    BY WorkingFacts
  <2>2. r = [d EXCEPT !.outputs = all, !.stages = FinalStages(c), !.state = FinalState(c),
                      !.artifact = "yes", !.receipt = "yes"]
    BY <1>1, <2>1 DEF Finish, WorkInv, TypeOK
  <2>3. command'[t] = c /\ pc'[t] = "save"
    BY DEF Finish, Goto, WorkInv, TypeOK
  <2> HIDE DEF all
  <2> QED BY <2>2, <2>3 DEF Runs
<1>3. c.kind # "REGISTER" => made[c.id] # None
  BY ArtifactTypes DEF HasAcquisition, WorkInv, TypeOK
<1>4. Exists(Own(c)[1])
  <2>1. CASE c.kind = "REGISTER"
    <3>1. Own(c)[1] = <<c.spec.kind, c.name>> /\ c.spec.kind \in {"CORPUS", "SOURCE"} /\ c.spec # None
      BY <2>1, OwnRef, CommandFields DEF IsSpec
    <3>2. Known(c.spec.kind, c.name)
      BY <2>1, <3>1 DEF Known
    <3> QED BY <3>1, <3>2 DEF Exists
  <2>2. CASE c.kind # "REGISTER"
    <3>1. OfCommand(c)
      BY <2>2 DEF OfCommand
    <3> QED BY <1>3, <2>2, <3>1, OwnExists DEF WorkInv
  <2> QED BY <2>1, <2>2
<1>5. \A k \in DOMAIN r.outputs : Exists(r.outputs[k])
  BY <1>2, <1>4, UpstreamRefs, OneMoreExists
<1>6. Retained(c) = Own(c)
  BY <1>3, RetainedRefs DEF Retained
<1>7. FinishedAsExpected(c, r)
  BY <1>2, <1>6 DEF FinishedAsExpected
<1>8. r.state # "FAILED"
  BY <1>2 DEF FinalState
<1>9. Shows(c, r)
  <2>1. Len(all) = n + 1 /\ all[n + 1] = Own(c)[1] /\ n \in Nat /\ all \in Seq(Refs)
    BY OutputRefs, UpstreamRefs, LenProperties
  <2> HIDE DEF all, n
  <2>2. n + 1 \in DOMAIN all
    BY <2>1, LenProperties
  <2> QED BY <1>2, <2>1, <2>2 DEF Shows
<1>10. GoodRun(c, r)
  BY <1>5, <1>7, <1>8, <1>9 DEF GoodRun, Readable, Settled
<1>11. GoodRun(c, r)'
  BY <1>10 DEF stored, GoodRun, Readable, Settled, Shows, Exists, Known, FinishedAsExpected, Retained,
       Artifact, FinalStages, FinalState, FailedAsExpected, Permits
<1>12. \A k \in DOMAIN r.outputs : Exists(r.outputs[k])'
  BY <1>5 DEF stored, Exists, Known
<1> QED BY <1>1, <1>2, <1>11, <1>12 DEF ReadingCall, At

-----------------------------------------------------------------------------
(* What its step leaves a worker with, action by action.                   *)

LEMMA ClaimReads ==
  ASSUME WorkInv, Grows, NEW t \in Tasks, ReadingCall(t),
         Lookup(t) \/ TakeLock(t) \/ Claim(t) \/ PublishIntent(t) \/ ReleaseClaim(t), TypeOK'
  PROVE  ReadingCall(t)'
<1>1. \A place : Goto(t, place) => pc'[t] = place
  BY DEF Goto, WorkInv, TypeOK
<1>2. Refuse(t) => pc'[t] = "idle"
  BY <1>1 DEF Refuse, Rest
<1>3. \A r : Answer(t, r) => pc'[t] = "idle"
  BY <1>1 DEF Answer, Rest
<1>4. Again(t) => pc'[t] \in {"idle", "lookup"}
  BY <1>1, <1>2 DEF Again, Proceed
<1>5. CASE pc'[t] \in {"idle", "lookup", "unclaimed"}
  BY <1>5, ReadsNothing
<1>6. CASE Lookup(t) /\ ~ Unclaimable(command[t]) /\ Proceed(t, "claim")
  <2>1. PICK c \in Commands : c = command[t] /\ draft[t] = NoDraft
    <3>1. ~ At(t, "idle") /\ Untouched(t)
      BY <1>6 DEF Lookup, At, Untouched
    <3> QED BY <3>1, CallHasCommand DEF WorkInv, CallInv
  <2>2. pc'[t] = "claim" /\ command'[t] = c /\ draft'[t] = NoDraft
    BY <1>1, <1>6, <2>1 DEF Proceed
  <2>3. c.kind = "REGISTER" /\ c.spec.kind = "SOURCE" => Binds(c.spec)
    BY <1>6, <2>1 DEF Unclaimable
  <2>4. c.kind = "REGISTER" /\ c.spec.kind = "SOURCE" => Binds(c.spec)'
    BY <2>3, BindsStay, CommandFields DEF IsSpec
  <2> QED BY <2>2, <2>4 DEF ReadingCall, At, Working
<1>7. CASE pc[t] \in Reserving /\ pc'[t] \in Reserving /\ UNCHANGED <<command, draft>>
  BY <1>7, ReservingReads
<1>8. CASE At(t, "register") /\ Fail(t, "PRODUCTION_BUSY") /\ UNCHANGED stored
  <2>1. Working(t) /\ FailWith(t, "PRODUCTION_BUSY", draft[t].outputs)
    BY <1>8 DEF Working, At, Fail
  <2>2. command[t].kind = "REGISTER" /\ draft[t].outputs = << >>
    BY <1>8, <2>1, WorkingFacts DEF Progress, WorkInv, CallInv, Untouched, NoDraft, At
  <2>3. \A c \in Commands, e \in Runs : c = command[t] => FailedWell(c, e)'
    BY <2>2 DEF FailedWell
  <2>4. FailWith(t, "PRODUCTION_BUSY", << >>) /\ \A k \in DOMAIN << >> : FALSE
    BY <2>1, <2>2
  <2> QED BY <2>1, <2>3, <2>4, FailReads
<1>9. CASE Lookup(t)
  BY <1>2, <1>3, <1>5, <1>6, <1>9 DEF Lookup
<1>10. CASE TakeLock(t) \/ Claim(t) \/ PublishIntent(t) \/ ReleaseClaim(t)
  BY <1>1, <1>4, <1>5, <1>7, <1>8, <1>10 DEF TakeLock, Claim, PublishIntent, ReleaseClaim, Proceed,
     Reserving, At
<1> QED BY <1>9, <1>10

\* The stages are refused, or started.
LEMMA BeginStageReads ==
  ASSUME WorkInv, Grows, TypeOK', NEW t \in Tasks, ReadingCall(t), BeginStage(t)
  PROVE  ReadingCall(t)'
<1>1. At(t, "stage") /\ Working(t) /\ Untouched(t) /\ UNCHANGED stored
  BY DEF BeginStage, At, Working, Untouched
<1>2. PICK c \in Commands : c = command[t] /\ Progress(t) /\ draft[t] = NoDraft
  BY <1>1, WorkingFacts DEF WorkInv, CallInv
<1>3. made[c.id] = None /\ draft[t].outputs = << >> /\ DOMAIN draft[t].outputs = {}
  BY <1>1, <1>2 DEF Progress, At, NoDraft
<1>4. \A place : Goto(t, place) => pc'[t] = place
  BY DEF Goto, WorkInv, TypeOK
<1>5. ASSUME NEW code \in {Requirement(c), "STORED_RECORD_INVALID"}, code # "OK", Fail(t, code)
      PROVE  ReadingCall(t)'
  <2>1. FailWith(t, code, << >>) /\ \A k \in DOMAIN << >> : FALSE
    BY <1>3, <1>5 DEF Fail
  <2>2. ASSUME NEW e \in Runs, e.code = code
        PROVE  FailedWell(c, e)
    <3>1. CASE c.kind = "REGISTER"
      BY <3>1 DEF FailedWell
    <3>2. CASE c.kind = "ACQUIRE"
      <4>1. code = "INGEST_DISALLOWED" =>
              Usable(c.source) /\ ~ Permits(c.source, "INGEST", c.purpose)
        BY <1>5, <3>2 DEF Requirement
      <4> QED BY <1>3, <2>2, <3>2, <4>1 DEF FailedWell, Usable, Known
    <3>3. CASE c.kind = "NORMALIZE"
      <4>1. code # "DERIVATION_DISALLOWED"
        BY <1>5, <3>3 DEF Requirement
      <4> QED BY <1>3, <2>2, <3>3, <4>1 DEF FailedWell
    <3>4. CASE c.kind = "BUILD_CANDIDATES"
      <4>1. code # "MEMBER_NOT_ELIGIBLE"
        BY <1>5, <3>4 DEF Requirement
      <4> QED BY <1>3, <2>2, <3>4, <4>1 DEF FailedWell
    <3> QED BY <3>1, <3>2, <3>3, <3>4, CommandFields
  <2>3. \A e \in Runs : FailedWell(c, e) => FailedWell(c, e)'
    BY <1>1 DEF FailedWell, Permits, stored
  <2> QED BY <1>1, <1>2, <2>1, <2>2, <2>3, FailReads
<1>6. CASE Proceed(t, "register")
  <2>1. pc[t] \in Reserving /\ pc'[t] \in Reserving /\ UNCHANGED <<command, draft>>
    BY <1>1, <1>4, <1>6 DEF Proceed, Reserving, At
  <2> QED BY <2>1, ReservingReads
<1>7. CASE Proceed(t, "bytes")
  BY <1>2, <1>4, <1>7, ReadsNothing DEF Proceed
<1>8. CASE c.kind = "BUILD_CANDIDATES" /\ Proceed(t, "bind")
  <2>1. pc'[t] = "bind" /\ command'[t] = c /\ draft'[t] = NoDraft
    BY <1>2, <1>4, <1>8 DEF Proceed
  <2>2. DOMAIN NoDraft.outputs = {}
    BY DEF NoDraft
  <2> QED BY <1>8, <2>1, <2>2, NoteReads
<1>9. CASE c.kind = "NORMALIZE" /\ Requirement(c) = "OK" /\ Note(t, "bind", Upstream(c), Inspected(c))
  <2>1. pc'[t] = "bind" /\ command'[t] = c
    BY <1>2, <1>4, <1>9 DEF Note
  <2>2. draft'[t].outputs = Upstream(c)
    BY <1>2, <1>9 DEF Note, WorkInv, TypeOK, Runs
  <2>3. Exists(Upstream(c)[1]) /\ registry[c.source] # None
    BY <1>9 DEF Requirement, Usable, Known
  <2>4. Upstream(c) = << Upstream(c)[1] >>
    BY <1>9, UpstreamRefs
  <2>5. \A x : \A k \in DOMAIN << x >> : << x >>[k] = x
    OBVIOUS
  <2>6. \A k \in DOMAIN Upstream(c) : Exists(Upstream(c)[k])
    BY <2>3, <2>4, <2>5
  <2>7. registry'[c.source] # None /\ \A k \in DOMAIN Upstream(c) : Exists(Upstream(c)[k])'
    BY <1>1, <2>3, <2>6 DEF stored, Exists, Known
  <2>8. PICK d \in Runs : d = draft'[t]
    BY DEF TypeOK
  <2>9. \A k \in DOMAIN d.outputs : Exists(d.outputs[k])'
    BY <2>2, <2>7, <2>8
  <2> QED BY <2>1, <2>7, <2>8, <2>9, NoteReads
<1> QED BY <1>2, <1>5, <1>6, <1>7, <1>8, <1>9 DEF BeginStage, Inspected

\* A registration under the lock, and its outcome.
LEMMA RegisterReads ==
  ASSUME WorkInv, TypeOK', NEW t \in Tasks, Register(t)
  PROVE  ReadingCall(t)'
<1>1. At(t, "registering") /\ Working(t) /\ Untouched(t)
  BY DEF Register, At, Working, Untouched
<1>2. PICK c \in Commands : c = command[t] /\ Progress(t) /\ draft[t] = NoDraft
  BY <1>1, WorkingFacts DEF WorkInv, CallInv
<1>3. c.kind = "REGISTER" /\ c.name \in Names
  BY <1>1, <1>2, CommandFields DEF Progress
<1>4. pc'[t] = "registered" /\ command'[t] = c
  BY <1>2 DEF Register, Proceed, Goto, WorkInv, TypeOK
<1>5. PICK e \in Runs : e = draft'[t]
  BY DEF TypeOK
<1>6. e.outputs = << >> /\ e.state = "none" /\ (e.code = "none" => registry'[c.name] = c.spec)
  <2>1. CASE draft' = draft /\ registry' = [registry EXCEPT ![c.name] = c.spec]
    BY <1>2, <1>3, <1>5, <2>1 DEF NoDraft, WorkInv, TypeOK
  <2>2. ASSUME NEW code, code # "none", draft' = [draft EXCEPT ![t].code = code]
        PROVE  e.outputs = << >> /\ e.state = "none" /\ e.code # "none"
    BY <1>2, <1>5, <2>2 DEF NoDraft, WorkInv, TypeOK
  <2>3. \/ draft' = draft /\ registry' = [registry EXCEPT ![c.name] = c.spec]
        \/ \E code : code # "none" /\ draft' = [draft EXCEPT ![t].code = code]
    BY <1>2 DEF Register, Proceed
  <2> QED BY <2>1, <2>2, <2>3
<1>7. \A k \in DOMAIN e.outputs : FALSE
  BY <1>6
<1> QED BY <1>4, <1>5, <1>6, <1>7 DEF ReadingCall, At

LEMMA ReleaseRegistrationReads ==
  ASSUME WorkInv, TypeOK', NEW t \in Tasks, ReadingCall(t), ReleaseRegistration(t)
  PROVE  ReadingCall(t)'
<1>1. At(t, "registered") /\ Working(t) /\ UNCHANGED stored
  BY DEF ReleaseRegistration, At, Working
<1>2. PICK c \in Commands : c = command[t] /\ Progress(t)
  BY <1>1, WorkingFacts
<1>3. c.kind = "REGISTER" /\ draft[t].outputs = << >> /\ made[c.id] = None
  BY <1>1, <1>2 DEF Progress, Shape
<1>4. ASSUME NEW code, Fail(t, code)
      PROVE  ReadingCall(t)'
  <2>1. FailWith(t, code, << >>) /\ \A k \in DOMAIN << >> : FALSE
    BY <1>3, <1>4 DEF Fail
  <2>2. \A e \in Runs : FailedWell(c, e)'
    BY <1>3 DEF FailedWell
  <2> QED BY <1>1, <1>2, <2>1, <2>2, FailReads
<1>5. CASE draft[t].code = "none" /\ Finish(t)
  <2>1. registry[c.name] = c.spec
    BY <1>1, <1>2, <1>5 DEF ReadingCall
  <2>2. \A k \in DOMAIN Upstream(c) : FALSE
    BY <1>3, UpstreamRefs
  <2> QED BY <1>1, <1>2, <1>3, <1>5, <2>1, <2>2, FinishReads
<1> QED BY <1>4, <1>5 DEF ReleaseRegistration

LEMMA StoreBytesReads ==
  ASSUME WorkInv, TypeOK', NEW t \in Tasks, StoreBytes(t)
  PROVE  ReadingCall(t)'
<1>1. At(t, "bytes") /\ Working(t) /\ Untouched(t) /\ made' = made
  BY DEF StoreBytes, At, Working, Untouched
<1>2. PICK c \in Commands : c = command[t] /\ Progress(t) /\ draft[t] = NoDraft
  BY <1>1, WorkingFacts DEF WorkInv, CallInv
<1>3. c.kind = "ACQUIRE" /\ draft[t].outputs = << >>
  BY <1>1, <1>2 DEF Progress, NoDraft
<1>4. CASE Fail(t, "STAGE_FAILED")
  <2>1. FailWith(t, "STAGE_FAILED", << >>) /\ \A k \in DOMAIN << >> : FALSE
    BY <1>3, <1>4 DEF Fail
  <2>2. \A e \in Runs : e.code = "STAGE_FAILED" => FailedWell(c, e)'
    BY <1>3 DEF FailedWell
  <2> QED BY <1>1, <1>2, <2>1, <2>2, FailReads
<1>5. CASE Proceed(t, "publish")
  <2>1. pc'[t] = "publish" /\ command'[t] = c /\ draft'[t] = NoDraft
    BY <1>2, <1>5 DEF Proceed, Goto, WorkInv, TypeOK
  <2>2. \A k \in DOMAIN NoDraft.outputs : FALSE
    BY DEF NoDraft
  <2> QED BY <1>3, <2>1, <2>2, NoteReads
<1> QED BY <1>4, <1>5 DEF StoreBytes

LEMMA BindAcquisitionReads ==
  ASSUME WorkInv, TypeOK', NEW t \in Tasks, ReadingCall(t), BindAcquisition(t)
  PROVE  ReadingCall(t)'
<1>1. At(t, "bind") /\ Working(t) /\ UNCHANGED stored
  BY DEF BindAcquisition, At, Working
<1>2. PICK c \in Commands, d \in Runs : c = command[t] /\ d = draft[t] /\ Progress(t)
  BY <1>1, WorkingFacts
<1>3. c.kind = "NORMALIZE" /\ made[c.id] = None /\ registry[c.source] # None
  <2>1. c.kind = "NORMALIZE"
    BY <1>2 DEF BindAcquisition
  <2> QED BY <1>1, <1>2, <2>1 DEF Progress, At, ReadingCall
<1>4. \A k \in DOMAIN d.outputs : Exists(d.outputs[k]) /\ Exists(d.outputs[k])'
  BY <1>1, <1>2 DEF ReadingCall, stored, Exists, Known
<1>5. ASSUME NEW code, Fail(t, code),
             code = "DERIVATION_DISALLOWED" => ~ Permits(c.source, "DERIVE", c.purpose)
      PROVE  ReadingCall(t)'
  <2>1. FailWith(t, code, d.outputs)
    BY <1>2, <1>5 DEF Fail
  <2>2. \A e \in Runs : e.code = code => FailedWell(c, e)'
    BY <1>1, <1>3, <1>5 DEF FailedWell, Permits, stored
  <2> QED BY <1>1, <1>2, <1>4, <2>1, <2>2, FailReads
<1>6. CASE Proceed(t, "publish")
  <2>1. pc'[t] = "publish" /\ command'[t] = c /\ draft'[t] = d /\ registry'[c.source] # None
    BY <1>1, <1>2, <1>3, <1>6 DEF Proceed, Goto, WorkInv, TypeOK, stored
  <2> QED BY <1>4, <2>1, NoteReads
<1> QED BY <1>2, <1>5, <1>6 DEF BindAcquisition

LEMMA BindMemberReads ==
  ASSUME WorkInv, TypeOK', NEW t \in Tasks, ReadingCall(t), BindMember(t)
  PROVE  ReadingCall(t)'
<1>1. At(t, "bind") /\ Working(t) /\ UNCHANGED stored
  BY DEF BindMember, At, Working
<1>2. PICK c \in Commands, d \in Runs, k \in Nat, listed \in Seq(Refs) :
        /\ c = command[t] /\ d = draft[t] /\ k = Len(d.outputs)
        /\ listed = SubSeq(Upstream(c), 1, k + 1)
        /\ Progress(t)
  BY <1>1, WorkingFacts, ListedMembers
<1>3. /\ c.kind = "BUILD_CANDIDATES" /\ k + 1 \in 1 .. Len(c.members)
      /\ Len(Upstream(c)) = Len(c.members) /\ Len(listed) = k + 1
      /\ d.outputs = SubSeq(Upstream(c), 1, k) /\ d.stages = << >>
      /\ Upstream(c) \in Seq(Refs) /\ c.members[k + 1] \in IntentIds
  BY <1>2, ListedMembers
<1>4. made[c.id] = None /\ Len(c.members) \in Nat /\ k + 1 > 0
      /\ k \in 0 .. Len(Upstream(c)) /\ k + 1 \in 0 .. Len(Upstream(c))
  <2>1. Len(c.members) \in Nat
    BY <1>3, UpstreamRefs
  <2> QED BY <1>1, <1>2, <1>3, <2>1 DEF Progress, At
<1>5. \A i \in DOMAIN d.outputs : Exists(d.outputs[i])
  BY <1>1, <1>2 DEF ReadingCall
<1>6. ASSUME Exists(<<"NORMALIZATION", c.members[k + 1]>>)
      PROVE  \A i \in DOMAIN listed : Exists(listed[i])
  <2>1. DOMAIN listed = 1 .. k + 1 /\ DOMAIN d.outputs = 1 .. k
    BY <1>2, <1>3, LenProperties DEF Runs
  <2>2. ASSUME NEW i \in 1 .. k + 1
        PROVE  listed[i] = Upstream(c)[i]
    BY <1>2, <1>3, <1>4, PrefixOfRefs
  <2>3. \A i \in 1 .. k : d.outputs[i] = Upstream(c)[i]
    BY <1>3, <1>4, PrefixOfRefs
  <2>4. Upstream(c)[k + 1] = <<"NORMALIZATION", c.members[k + 1]>>
    BY <1>3, UpstreamRefs
  <2>5. \A i \in 1 .. k + 1 : i \in 1 .. k \/ i = k + 1
    OBVIOUS
  <2> QED BY <1>5, <1>6, <2>1, <2>2, <2>3, <2>4, <2>5
<1>7. \A refs : (\A i \in DOMAIN refs : Exists(refs[i])) => \A i \in DOMAIN refs : Exists(refs[i])'
  BY <1>1 DEF stored, Exists, Known
<1>8. ASSUME NEW code, NEW outputs \in {d.outputs, listed}, FailWith(t, code, outputs),
             \A i \in DOMAIN outputs : Exists(outputs[i]),
             code = "MEMBER_NOT_ELIGIBLE" =>
               outputs = listed /\ made[c.members[k + 1]].decoded # "CANDIDATE"
      PROVE  ReadingCall(t)'
  <2>1. \A e \in Runs : e.code = code /\ e.outputs = outputs => FailedWell(c, e)'
    BY <1>1, <1>3, <1>4, <1>8 DEF FailedWell, stored
  <2>2. \A i \in DOMAIN outputs : Exists(outputs[i])'
    BY <1>7, <1>8
  <2> QED BY <1>1, <1>2, <1>8, <2>1, <2>2, FailReads
<1>9. ASSUME NEW place \in {"bind", "publish"}, Note(t, place, listed, << >>),
             \A i \in DOMAIN listed : Exists(listed[i])
      PROVE  ReadingCall(t)'
  <2>1. pc'[t] = place /\ command'[t] = c /\ draft'[t].outputs = listed
    BY <1>2, <1>9 DEF Note, Goto, WorkInv, TypeOK, Runs
  <2>2. PICK e \in Runs : e = draft'[t]
    BY DEF TypeOK
  <2>3. \A i \in DOMAIN e.outputs : Exists(e.outputs[i])'
    BY <1>7, <1>9, <2>1, <2>2
  <2> QED BY <1>3, <1>9, <2>1, <2>2, <2>3, NoteReads
<1>10. \/ \E code : FailWith(t, code, d.outputs) /\ code # "MEMBER_NOT_ELIGIBLE"
       \/ /\ Exists(<<"NORMALIZATION", c.members[k + 1]>>)
          /\ \/ \E place \in {"bind", "publish"} : Note(t, place, listed, << >>)
             \/ \E code : /\ FailWith(t, code, listed)
                          /\ code = "MEMBER_NOT_ELIGIBLE" =>
                               made[c.members[k + 1]].decoded # "CANDIDATE"
  <2> DEFINE m == c.members[k + 1]
             code == IF ~ Exists(Ref("NORMALIZATION", m)) THEN "REFERENCE_MISMATCH"
                     ELSE IF made[m].decoded # "CANDIDATE" THEN "MEMBER_NOT_ELIGIBLE"
                     ELSE IF registry[made[m].source].corpus # c.corpus THEN "SOURCE_BINDING_MISMATCH"
                     ELSE IF ~ Permits(made[m].source, "DERIVE", c.purpose) THEN "DERIVATION_DISALLOWED"
                     ELSE "OK"
  <2>1. code # "REFERENCE_MISMATCH" => Exists(<<"NORMALIZATION", c.members[k + 1]>>)
    BY DEF Ref
  <2>2. code = "MEMBER_NOT_ELIGIBLE" => made[c.members[k + 1]].decoded # "CANDIDATE"
    OBVIOUS
  <2>3. \/ code = "OK" /\ \E place \in {"bind", "publish"} : Note(t, place, listed, << >>)
        \/ code = "REFERENCE_MISMATCH" /\ FailWith(t, code, d.outputs)
        \/ code \notin {"OK", "REFERENCE_MISMATCH"} /\ FailWith(t, code, listed)
        \/ FailWith(t, "STAGE_FAILED", d.outputs)
        \/ code # "REFERENCE_MISMATCH" /\ FailWith(t, "EVIDENCE_INTEGRITY_FAILED", listed)
    BY <1>2 DEF BindMember, Fail
  <2> HIDE DEF code
  <2> QED BY <2>1, <2>2, <2>3
<1>11. listed # d.outputs
  BY <1>2, <1>3
<1> QED BY <1>5, <1>6, <1>8, <1>9, <1>10

LEMMA PublishArtifactReads ==
  ASSUME WorkInv, WorkInv', Grows, NEW t \in Tasks, ReadingCall(t), PublishArtifact(t)
  PROVE  ReadingCall(t)'
<1>1. At(t, "publish") /\ Working(t) /\ UNCHANGED <<intents, runs, registry, contents>> /\ TypeOK'
  BY DEF PublishArtifact, At, Working, WorkInv
<1>2. PICK c \in Commands, d \in Runs : c = command[t] /\ d = draft[t] /\ Progress(t) /\ c.id \in IntentIds
  BY <1>1, WorkingFacts
<1>3. /\ c.kind # "REGISTER" /\ made[c.id] = None /\ (c.kind = "NORMALIZE" => HasAcquisition(c))
      /\ c.kind = "ACQUIRE" => d.outputs = << >>
      /\ c.kind # "ACQUIRE" => d.outputs = Upstream(c)
      /\ c.kind = "NORMALIZE" => registry[c.source] # None
      /\ c.kind = "NORMALIZE" => d.stages = Inspected(c)
  BY <1>1, <1>2 DEF Progress, Shape, At, ReadingCall
<1>4. \A k \in DOMAIN d.outputs : Exists(d.outputs[k]) /\ Exists(d.outputs[k])'
  <2>1. \A k \in DOMAIN d.outputs : d.outputs[k] \in Refs
    BY LenProperties, ElementOfSeq DEF Runs
  <2> QED BY <1>1, <1>2, <2>1, ExistsStays DEF ReadingCall
<1>5. ASSUME NEW code, Fail(t, code),
             \/ code = "STAGE_FAILED"
             \/ code = "SOURCE_IDENTITY_CONFLICT" /\ c.kind = "BUILD_CANDIDATES" /\ made' = made
      PROVE  ReadingCall(t)'
  <2>1. FailWith(t, code, d.outputs)
    BY <1>2, <1>5 DEF Fail
  <2>2. ASSUME NEW e \in Runs, e.code = code, e.outputs = d.outputs
        PROVE  FailedWell(c, e)'
    <3>1. CASE c.kind = "ACQUIRE"
      BY <1>5, <2>2, <3>1 DEF FailedWell
    <3>2. CASE c.kind = "NORMALIZE"
      BY <1>5, <2>2, <3>2 DEF FailedWell
    <3>3. CASE c.kind = "BUILD_CANDIDATES"
      BY <1>3, <1>5, <2>2, <3>3 DEF FailedWell
    <3> QED BY <1>3, <3>1, <3>2, <3>3, CommandFields
  <2> QED BY <1>1, <1>2, <1>4, <2>1, <2>2, FailReads
<1>6. CASE c.kind # "BUILD_CANDIDATES" /\ Proceed(t, "verify")
  <2>1. pc'[t] = "verify" /\ command'[t] = c /\ draft'[t] = d
    BY <1>2, <1>6 DEF Proceed, Goto, WorkInv, TypeOK
  <2> QED BY <1>4, <2>1, NoteReads
<1>7. CASE /\ c.kind = "BUILD_CANDIDATES" /\ made' = [made EXCEPT ![c.id] = Artifact(c)]
           /\ Note(t, "verify", Upstream(c) \o Own(c), Assembled(c))
  <2>1. pc'[t] = "verify" /\ command'[t] = c /\ draft'[t].outputs = Upstream(c) \o Own(c)
    BY <1>2, <1>7 DEF Note, Goto, WorkInv, TypeOK, Runs
  <2>2. made'[c.id] = Artifact(c) /\ made'[c.id].kind = "CANDIDATE_BUILD" /\ made'[c.id] # None
    BY <1>2, <1>7, ArtifactTypes DEF WorkInv, TypeOK
  <2>3. Exists(<<"CANDIDATE_BUILD", c.id>>)'
    BY <2>2 DEF Exists
  <2>4. PICK e \in Runs : e = draft'[t]
    BY <1>1 DEF TypeOK
  <2>5. \A k \in DOMAIN e.outputs : Exists(e.outputs[k])'
    <3> DEFINE all == Upstream(c) \o Own(c)
               n == Len(Upstream(c))
    <3>1. /\ all \in Seq(Refs) /\ Len(all) = n + 1 /\ all[n + 1] = <<"CANDIDATE_BUILD", c.id>>
          /\ Upstream(c) \in Seq(Refs) /\ n \in Nat
          /\ \A k \in 1 .. n : all[k] = Upstream(c)[k]
      BY <1>7, OutputRefs, UpstreamRefs, OwnRef, LenProperties
    <3>2. DOMAIN Upstream(c) = 1 .. n /\ DOMAIN all = 1 .. n + 1
      BY <3>1, LenProperties
    <3>3. e.outputs = all /\ d.outputs = Upstream(c)
      BY <1>3, <1>7, <2>1, <2>4
    <3> HIDE DEF all, n
    <3>4. \A k \in 1 .. n + 1 : k \in 1 .. n \/ k = n + 1
      BY <3>1
    <3>5. \A k \in 1 .. n : Exists(all[k])'
      BY <1>4, <3>1, <3>2, <3>3
    <3>6. Exists(all[n + 1])'
      BY <2>3, <3>1
    <3> QED BY <3>2, <3>3, <3>4, <3>5, <3>6
  <2> QED BY <2>1, <2>4, <2>5, NoteReads
<1> QED BY <1>2, <1>5, <1>6, <1>7 DEF PublishArtifact, Assembled

LEMMA VerifyArtifactReads ==
  ASSUME WorkInv, TypeOK', NEW t \in Tasks, ReadingCall(t), VerifyArtifact(t)
  PROVE  ReadingCall(t)'
<1>1. At(t, "verify") /\ Working(t) /\ UNCHANGED stored
  BY DEF VerifyArtifact, At, Working
<1>2. PICK c \in Commands, d \in Runs : c = command[t] /\ d = draft[t] /\ Progress(t) /\ c.id \in IntentIds
  BY <1>1, WorkingFacts
<1>3. /\ c.kind # "REGISTER" /\ made[c.id] = Artifact(c) /\ (c.kind = "NORMALIZE" => HasAcquisition(c))
      /\ c.kind = "NORMALIZE" => d.outputs = Upstream(c)
      /\ c.kind = "BUILD_CANDIDATES" => d.outputs = Upstream(c) \o Own(c) /\ d.stages = Assembled(c)
  BY <1>1, <1>2 DEF Progress, Shape, At
<1>4. \A k \in DOMAIN d.outputs : Exists(d.outputs[k]) /\ Exists(d.outputs[k])'
  BY <1>1, <1>2 DEF ReadingCall, stored, Exists, Known
<1>5. CASE Finish(t)
  <2>1. \A k \in DOMAIN Upstream(c) : Exists(Upstream(c)[k])
    <3>1. CASE c.kind = "ACQUIRE"
      BY <3>1, UpstreamRefs
    <3>2. CASE c.kind = "NORMALIZE"
      BY <1>3, <1>4, <3>2
    <3>3. CASE c.kind = "BUILD_CANDIDATES"
      <4> DEFINE all == Upstream(c) \o Own(c)
                 n == Len(Upstream(c))
      <4>1. /\ all \in Seq(Refs) /\ Len(all) = n + 1 /\ Upstream(c) \in Seq(Refs) /\ n \in Nat
            /\ \A k \in 1 .. n : all[k] = Upstream(c)[k]
        BY OutputRefs, UpstreamRefs, LenProperties
      <4>2. DOMAIN Upstream(c) = 1 .. n /\ DOMAIN all = 1 .. n + 1 /\ d.outputs = all
        BY <1>3, <3>3, <4>1, LenProperties
      <4> HIDE DEF all, n
      <4>3. \A k \in 1 .. n : k \in 1 .. n + 1
        BY <4>1
      <4> QED BY <1>4, <4>1, <4>2, <4>3
    <3> QED BY <1>3, <3>1, <3>2, <3>3, CommandFields
  <2> QED BY <1>1, <1>2, <1>3, <1>5, <2>1, FinishReads
<1>6. ASSUME NEW code, Fail(t, code),
             code = IF c.kind = "ACQUIRE" THEN "EVIDENCE_INTEGRITY_FAILED"
                    ELSE "DEPENDENCY_INTEGRITY_FAILED"
      PROVE  ReadingCall(t)'
  <2>1. FailWith(t, code, d.outputs)
    BY <1>2, <1>6 DEF Fail
  <2>2. \A x : << x >> # << >>
    OBVIOUS
  <2>3. ASSUME NEW e \in Runs, e.code = code, e.stages = d.stages
        PROVE  FailedWell(c, e)'
    <3>1. CASE c.kind = "ACQUIRE"
      BY <1>6, <2>3, <3>1 DEF FailedWell
    <3>2. CASE c.kind = "NORMALIZE"
      BY <1>6, <2>3, <3>2 DEF FailedWell
    <3>3. CASE c.kind = "BUILD_CANDIDATES"
      <4>1. e.stages # << >> /\ e.code = "DEPENDENCY_INTEGRITY_FAILED"
        BY <1>3, <1>6, <2>2, <2>3, <3>3 DEF Assembled
      <4> QED BY <3>3, <4>1 DEF FailedWell
    <3> QED BY <1>3, <3>1, <3>2, <3>3, CommandFields
  <2> QED BY <1>1, <1>2, <1>4, <2>1, <2>3, FailReads
<1> QED BY <1>2, <1>5, <1>6 DEF VerifyArtifact

LEMMA DiscoverReads ==
  ASSUME WorkInv, TypeOK', NEW t \in Tasks, ReadingCall(t), Discover(t)
  PROVE  ReadingCall(t)'
<1>1. At(t, "failed") /\ Working(t) /\ UNCHANGED stored
  BY DEF Discover, At, Working
<1>2. PICK c \in Commands, d \in Runs : c = command[t] /\ d = draft[t] /\ Progress(t) /\ c.id \in IntentIds
  BY <1>1, WorkingFacts
<1>3. FailedShape(c, d) /\ FailedWell(c, d) /\ \A k \in DOMAIN d.outputs : Exists(d.outputs[k])
  BY <1>1, <1>2 DEF Progress, Shape, ReadingCall
<1>4. OfCommand(c)
  BY <1>1, <1>2 DEF Progress, OfCommand, At
<1>5. PICK unread \in BOOLEAN : draft'[t] = Failed(c, d, unread)
  BY <1>2, RailAssumption DEF Discover, WorkInv, TypeOK
<1>6. PICK r \in Runs : r = draft'[t] /\ r = Failed(c, d, unread)
  BY <1>5 DEF TypeOK
<1>7. GoodRun(c, r)
  BY <1>3, <1>4, <1>6, FailedIsGood DEF WorkInv
<1>8. GoodRun(c, r)' /\ \A k \in DOMAIN r.outputs : Exists(r.outputs[k])'
  BY <1>1, <1>7 DEF stored, GoodRun, Readable, Settled, Shows, Exists, Known, FinishedAsExpected, Retained,
     Artifact, FinalStages, FinalState, FailedAsExpected, Permits
<1>9. pc'[t] = "save" /\ command'[t] = c
  BY <1>2 DEF Discover, Goto, WorkInv, TypeOK
<1> QED BY <1>6, <1>8, <1>9 DEF ReadingCall, At

LEMMA CallReads ==
  ASSUME WorkInv, WorkInv', Grows, NEW t \in Tasks, ReadingCall(t),
         Step(t) \/ Crash(t) \/ \E c \in Commands : Begin(t, c)
  PROVE  ReadingCall(t)'
<1>1. TypeOK'
  BY DEF WorkInv
<1>2. CASE Crash(t) \/ (\E c \in Commands : Begin(t, c)) \/ SaveRun(t) \/ ReadBack(t)
  <2>1. pc'[t] \in {"idle", "lookup", "saved"}
    BY <1>2 DEF Crash, Begin, SaveRun, ReadBack, Refuse, Answer, Rest, Proceed, Goto, WorkInv, TypeOK
  <2> QED BY <2>1, ReadsNothing
<1> QED BY <1>1, <1>2, ClaimReads, BeginStageReads, RegisterReads, ReleaseRegistrationReads,
           StoreBytesReads, BindAcquisitionReads, BindMemberReads, PublishArtifactReads,
           VerifyArtifactReads, DiscoverReads DEF Step

\* What is registered keeps fitting.
LEMMA RegistrationsStay ==
  ASSUME WorkInv, Grows, NEW t \in Tasks, ReadingCall(t), Registrations, Step(t)
  PROVE  Registrations'
<1>1. ASSUME NEW n \in Names, registry'[n] # None, registry'[n] = registry[n]
      PROVE  IsSpec(registry'[n]) /\ (registry'[n].kind = "SOURCE" => Binds(registry[n])')
  <2>1. PICK spec : spec = registry[n]
    OBVIOUS
  <2>2. IsSpec(spec) /\ (spec.kind = "SOURCE" => Binds(spec))
    BY <1>1, <2>1 DEF Registrations
  <2>3. spec.kind = "SOURCE" => Binds(spec)'
    BY <2>2, BindsStay DEF IsSpec
  <2>4. spec.kind = "SOURCE" => Binds(registry[n])'
    BY <1>1, <2>1, <2>3 DEF Binds, Known
  <2> QED BY <1>1, <2>1, <2>2, <2>4
<1>2. CASE registry' = registry
  BY <1>1, <1>2 DEF Registrations
<1>3. CASE Register(t)
  <2>1. At(t, "registering") /\ Working(t)
    BY <1>3 DEF Register, At, Working
  <2>2. PICK c \in Commands : c = command[t] /\ c.kind = "REGISTER"
    BY <2>1, WorkingFacts DEF Progress
  <2>3. IsSpec(c.spec) /\ (c.spec.kind = "SOURCE" => Binds(c.spec))
    BY <2>1, <2>2, CommandFields DEF ReadingCall, At
  <2>4. c.spec.kind = "SOURCE" => Binds(c.spec)'
    BY <2>3, BindsStay DEF IsSpec
  <2>5. ASSUME NEW n \in Names, registry'[n] # registry[n]
        PROVE  registry'[n] = c.spec
    BY <1>3, <2>2, <2>5 DEF Register, WorkInv, TypeOK
  <2>6. ASSUME NEW n \in Names, registry'[n] = c.spec
        PROVE  IsSpec(registry'[n]) /\ (registry'[n].kind = "SOURCE" => Binds(registry[n])')
    <3>1. c.spec.kind = "SOURCE" => Binds(registry[n])'
      BY <2>4, <2>6 DEF Binds, Known
    <3> QED BY <2>3, <2>6, <3>1
  <2> QED BY <1>1, <2>5, <2>6 DEF Registrations
<1>4. registry' = registry \/ Register(t)
  BY DEF Step, Lookup, TakeLock, Claim, PublishIntent, ReleaseClaim, BeginStage, ReleaseRegistration,
         StoreBytes, BindAcquisition, BindMember, PublishArtifact, VerifyArtifact, Discover, SaveRun,
         ReadBack, stored
<1> QED BY <1>2, <1>3, <1>4

\* So do artifacts ...
LEMMA ArtifactsStayGood ==
  ASSUME WorkInv, WorkInv', Grows, NEW t \in Tasks, Step(t), NEW i \in IntentIds, GoodArtifact(i)
  PROVE  GoodArtifact(i)'
<1>1. CASE made[i] # None
  <2>1. made'[i] = made[i] /\ intents[i] # None
    BY <1>1 DEF Grows, WorkInv, IdentityInv
  <2>2. PICK c \in Commands : c = intents[i]
    BY <2>1 DEF WorkInv, TypeOK
  <2>3. intents'[i] = c
    BY <2>1, <2>2 DEF Grows
  <2>4. c.kind # "REGISTER" /\ made[i] = Artifact(c) /\ (c.kind = "NORMALIZE" => HasAcquisition(c))
    BY <1>1, <2>2 DEF GoodArtifact
  <2>5. Artifact(c)' = Artifact(c) /\ (c.kind = "NORMALIZE" => HasAcquisition(c)')
    BY <2>4, ArtifactStays DEF Grows
  <2>6. c = intents'[i] /\ made'[i] = Artifact(c)'
    BY <2>1, <2>3, <2>4, <2>5
  <2> QED BY <2>4, <2>5, <2>6 DEF GoodArtifact, Artifact, HasAcquisition
<1>2. CASE made[i] = None /\ made'[i] # None
  <2>1. PublishArtifact(t)
    BY <1>2 DEF Step, Lookup, TakeLock, Claim, PublishIntent, ReleaseClaim, BeginStage, Register,
       ReleaseRegistration, StoreBytes, BindAcquisition, BindMember, VerifyArtifact, Discover, SaveRun,
       ReadBack, stored
  <2>2. At(t, "publish") /\ Working(t) /\ intents' = intents
    BY <2>1 DEF PublishArtifact, At, Working
  <2>3. PICK c \in Commands : c = command[t] /\ Progress(t) /\ c.id \in IntentIds
    BY <2>2, WorkingFacts
  <2>4. i = c.id /\ made'[i] = Artifact(c)
    BY <1>2, <2>1, <2>3 DEF PublishArtifact, WorkInv, TypeOK
  <2>5. intents'[i] = c /\ c.kind # "REGISTER" /\ (c.kind = "NORMALIZE" => HasAcquisition(c))
    BY <2>2, <2>3, <2>4 DEF Progress, At
  <2>6. Artifact(c)' = Artifact(c) /\ (c.kind = "NORMALIZE" => HasAcquisition(c)')
    BY <2>5, ArtifactStays DEF Grows
  <2>7. c = intents'[i] /\ made'[i] = Artifact(c)'
    BY <2>4, <2>5, <2>6
  <2> QED BY <2>5, <2>6, <2>7 DEF GoodArtifact, Artifact, HasAcquisition
<1> QED BY <1>1, <1>2 DEF GoodArtifact

\* ... and runs.
LEMMA RunsStayGood ==
  ASSUME WorkInv, Grows, NEW t \in Tasks, ReadingCall(t), Step(t), NEW i \in IntentIds,
         GoodArtifact(i), RunIsGood(i)
  PROVE  RunIsGood(i)'
<1> SUFFICES ASSUME NEW c \in Commands, NEW r \in Runs, intents'[i] = c, runs'[i] = r
             PROVE  GoodRun(c, r)'
  BY DEF RunIsGood
<1>1. CASE runs[i] # None
  <2>1. intents[i] # None
    BY <1>1 DEF WorkInv, IdentityInv
  <2>2. c = intents[i] /\ r = runs[i] /\ c.id = i /\ made'[c.id] = made[c.id]
    BY <1>1, <2>1, OthersStay DEF Grows, WorkInv, IdentityInv
  <2>3. OfCommand(c)
    BY <2>2 DEF GoodArtifact, OfCommand
  <2>4. GoodRun(c, r)
    BY <2>2 DEF RunIsGood
  <2> QED BY <2>2, <2>3, <2>4, GoodRunStays
<1>2. CASE runs[i] = None
  <2>1. r # None
    BY CommandAssumption
  <2>2. SaveRun(t)
    BY <1>2, <2>1 DEF Step, Lookup, TakeLock, Claim, PublishIntent, ReleaseClaim, BeginStage, Register,
       ReleaseRegistration, StoreBytes, BindAcquisition, BindMember, PublishArtifact, VerifyArtifact,
       Discover, ReadBack, stored
  <2>3. At(t, "save") /\ Working(t) /\ UNCHANGED <<intents, registry, contents, made>>
    BY <2>2 DEF SaveRun, At, Working
  <2>4. command[t] \in Commands /\ Progress(t) /\ command[t].id \in IntentIds
    BY <2>3, WorkingFacts
  <2>5. i = command[t].id /\ r = draft[t]
    BY <1>2, <2>1, <2>2, <2>4 DEF SaveRun, WorkInv, TypeOK
  <2>6. c = command[t]
    BY <2>3, <2>4, <2>5 DEF Progress
  <2>7. GoodRun(c, r)
    BY <2>3, <2>5, <2>6 DEF ReadingCall
  <2> QED BY <2>3, <2>7 DEF GoodRun, Readable, Settled, Shows, Exists, Known, FinishedAsExpected, Retained,
       Artifact, FinalStages, FinalState, FailedAsExpected, Permits
<1> QED BY <1>1, <1>2

LEMMA StoredStays ==
  ASSUME ReadInv, UNCHANGED stored
  PROVE  Registrations' /\ \A i \in IntentIds : GoodArtifact(i)' /\ RunIsGood(i)'
<1>1. Registrations'
  BY DEF stored, ReadInv, Registrations, Binds, Known
<1>2. \A i \in IntentIds : GoodArtifact(i)'
  BY DEF stored, ReadInv, GoodArtifact, Artifact, HasAcquisition
<1>3. \A i \in IntentIds : RunIsGood(i)'
  <2>1. ASSUME NEW i \in IntentIds, NEW c \in Commands, NEW r \in Runs, GoodRun(c, r)
        PROVE  GoodRun(c, r)'
    BY <2>1 DEF stored, GoodRun, Readable, Settled, Shows, Exists, Known, FinishedAsExpected,
       Retained, Artifact, FinalStages, FinalState, FailedAsExpected, Permits
  <2>2. intents' = intents /\ runs' = runs
    BY DEF stored
  <2>3. \A i \in IntentIds : RunIsGood(i)
    BY DEF ReadInv
  <2> QED BY <2>1, <2>2, <2>3 DEF RunIsGood
<1> QED BY <1>1, <1>2, <1>3

LEMMA ReadStep == WorkInv /\ WorkInv' /\ ReadInv /\ [Next]_vars => ReadInv'
<1> SUFFICES ASSUME WorkInv, WorkInv', ReadInv, [Next]_vars PROVE ReadInv'
  OBVIOUS
<1>1. Grows
  BY GrowStep
<1>2. CASE UNCHANGED <<stored, pc, command, draft>>
  <2>1. \A u \in Tasks : ReadingCall(u)'
    BY <1>1, <1>2, OthersRead DEF ReadInv, stored
  <2> QED BY <1>2, <2>1, StoredStays DEF ReadInv
<1>3. ASSUME NEW t \in Tasks, Step(t) \/ Crash(t) \/ \E c \in Commands : Begin(t, c)
      PROVE  ReadInv'
  <2>1. \A u \in Tasks : ReadingCall(u)
    BY DEF ReadInv
  <2>2. ReadingCall(t)'
    BY <1>1, <1>3, <2>1, CallReads
  <2>3. ASSUME NEW u \in Tasks \ {t}
        PROVE  ReadingCall(u)'
    <3>1. pc'[u] = pc[u] /\ command'[u] = command[u] /\ draft'[u] = draft[u]
          /\ (Working(u) => made'[command[u].id] = made[command[u].id])
      BY <1>3, OthersStay
    <3> QED BY <1>1, <2>1, <3>1, OthersRead
  <2>4. CASE UNCHANGED stored
    BY <2>2, <2>3, <2>4, StoredStays DEF ReadInv
  <2>5. CASE Step(t)
    <3>1. Registrations'
      BY <1>1, <2>1, <2>5, RegistrationsStay DEF ReadInv
    <3>2. \A i \in IntentIds : GoodArtifact(i)'
      BY <1>1, <2>5, ArtifactsStayGood DEF ReadInv
    <3>3. \A i \in IntentIds : RunIsGood(i)'
      BY <1>1, <2>1, <2>5, RunsStayGood DEF ReadInv
    <3> QED BY <2>2, <2>3, <3>1, <3>2, <3>3 DEF ReadInv
  <2>6. Crash(t) \/ (\E c \in Commands : Begin(t, c)) => UNCHANGED stored
    BY DEF Crash, Begin
  <2> QED BY <1>3, <2>4, <2>5, <2>6
<1> QED BY <1>2, <1>3 DEF Next, vars, RemoveLock

LEMMA InitRead == Init => ReadInv
<1> SUFFICES ASSUME Init PROVE ReadInv
  OBVIOUS
<1>1. \A t \in Tasks : pc[t] = "idle"
  BY DEF Init
<1>2. \A t \in Tasks : ReadingCall(t)
  BY <1>1 DEF ReadingCall, At, Working
<1>3. \A i \in IntentIds : made[i] = None /\ runs[i] = None
  BY DEF Init
<1>4. ASSUME NEW n \in Names, registry[n] # None
      PROVE  IsSpec(registry[n]) /\ (registry[n].kind = "SOURCE" => Binds(registry[n]))
  <2>1. n \in DOMAIN Registered /\ registry[n] = Registered[n]
    BY <1>4 DEF Init
  <2>2. IsSpec(Registered[n])
    BY <2>1, RegisteredAssumption
  <2>3. ASSUME Registered[n].kind = "SOURCE"
        PROVE  Binds(registry[n])
    <3>1. PICK spec : spec = Registered[n] /\ spec.corpus \in DOMAIN Registered
                      /\ Registered[spec.corpus].kind = "CORPUS"
                      /\ spec.adapter = Registered[spec.corpus].record
      BY <2>1, <2>3, RegisteredAssumption
    <3>2. spec.corpus \in Names /\ registry[spec.corpus] = Registered[spec.corpus]
          /\ Registered[spec.corpus] # None
      BY <3>1, RegisteredAssumption DEF Init, IsSpec
    <3> QED BY <2>1, <3>1, <3>2 DEF Binds, Known
  <2> QED BY <2>1, <2>2, <2>3
<1>5. \A i \in IntentIds : RunIsGood(i)
  BY <1>3, CommandAssumption DEF RunIsGood
<1> QED BY <1>2, <1>3, <1>4, <1>5 DEF ReadInv, Registrations, GoodArtifact

LEMMA ReadInvInductive == Spec => []ReadInv
<1>1. Init => ReadInv
  BY InitRead
<1>2. WorkInv /\ WorkInv' /\ ReadInv /\ [Next]_vars => ReadInv'
  BY ReadStep
<1> QED BY <1>1, <1>2, WorkInvInductive, PTL DEF Spec

\* A saved run never hides an artifact that its request left behind, whichever
\* of its steps failed (discoverRetained and the catch block of execute(),
\* production/store.ts), unless it says that retention is unconfirmed.
THEOREM RunsShowTheirArtifacts == Spec => []RunsHideNoArtifact
<1>1. WorkInv /\ ReadInv => RunsHideNoArtifact
  <2> SUFFICES ASSUME WorkInv, ReadInv, NEW i \in IntentIds, runs[i] # None, made[i] # None
               PROVE  LET r == runs[i] IN
                      \/ r.additional \/ r.receipt = "UNCONFIRMED"
                      \/ r.code = "EVIDENCE_INTEGRITY_FAILED"
                      \/ \E k \in DOMAIN r.outputs : r.outputs[k] = Own(intents[i])[1]
    BY DEF RunsHideNoArtifact
  <2>1. intents[i].id = i
    BY DEF WorkInv, IdentityInv
  <2>2. Shows(intents[i], runs[i])
    <3>1. intents[i] \in Commands /\ runs[i] \in Runs
      BY <2>1 DEF WorkInv, TypeOK, IdentityInv
    <3> QED BY <3>1 DEF ReadInv, RunIsGood, GoodRun
  <2> QED BY <2>1, <2>2 DEF Shows
<1> QED BY <1>1, WorkInvInductive, ReadInvInductive, PTL

-----------------------------------------------------------------------------
(* Capacity: as long as nobody removes the lock of a running reservation,  *)
(* whoever is between creating and removing catalog.lock is alone there,   *)
(* so what was counted is still true when it is used.                      *)

Holding == {"claiming", "intending", "claimed", "unclaimed", "registering", "registered"}

LockIsHeld(t) == pc[t] \in Holding => lock = t

Bound == {i \in IntentIds : intents[i] # None}

KnownAs(kind) == {n \in Names : Known(kind, n)}

CapacityInv ==
  /\ \A t \in Tasks : LockIsHeld(t)
  /\ \A t \in Tasks : At(t, "intending") => IntentCount < MaxIntents
  /\ IsFiniteSet(Bound) /\ IntentCount <= MaxIntents
  /\ \A kind \in {"CORPUS", "SOURCE"} :
       IsFiniteSet(KnownAs(kind)) /\ Count(kind) <= MaxRegistrations

LEMMA CountsAre ==
  /\ IntentCount = Cardinality(Bound)
  /\ \A kind : Count(kind) = Cardinality(KnownAs(kind))
BY DEF IntentCount, Bound, Count, KnownAs

\* The places of the other tasks stay, and so does their lock.
LEMMA LockStep ==
  ASSUME WorkInv, CapacityInv, "live" \notin LockRemoval, [Next]_vars
  PROVE  \A t \in Tasks : LockIsHeld(t)'
<1> USE RailTasksAreNotLockStates
<1>0. /\ \A t \in Tasks : LockIsHeld(t)
      /\ pc \in [Tasks -> Places]
  BY DEF CapacityInv, WorkInv, TypeOK
<1>1. CASE UNCHANGED <<pc, lock>>
  BY <1>0, <1>1 DEF LockIsHeld
<1>2. CASE RemoveLock
  BY <1>0, <1>2 DEF RemoveLock, LockIsHeld, Stale
<1>3. ASSUME NEW t \in Tasks, Step(t) \/ Crash(t) \/ \E c \in Commands : Begin(t, c)
      PROVE  \A u \in Tasks : LockIsHeld(u)'
  <2>1. pc' = [pc EXCEPT ![t] = pc'[t]]
    BY <1>0, <1>3 DEF Step, Lookup, TakeLock, Claim, PublishIntent, ReleaseClaim, BeginStage, Register,
       ReleaseRegistration, StoreBytes, BindAcquisition, BindMember, PublishArtifact, VerifyArtifact,
       Discover, SaveRun, ReadBack, Crash, Begin, Again, Refuse, Answer, Rest, Proceed, Note, Fail,
       FailWith, Finish, Goto
  <2>2. \/ UNCHANGED lock /\ pc'[t] \notin Holding
        \/ UNCHANGED lock /\ pc[t] \in Holding
        \/ lock = Free /\ lock' = t
        \/ pc[t] \in Holding /\ pc'[t] \notin Holding
        \/ lock = t /\ pc'[t] \notin Holding
    <3>1. CASE TakeLock(t)
      BY <1>0, <3>1 DEF TakeLock, Again, Refuse, Rest, Proceed, Fail, FailWith, Goto, Holding
    <3>2. CASE Claim(t) \/ PublishIntent(t) \/ Register(t)
      BY <3>2 DEF Claim, PublishIntent, Register, At, Holding
    <3>3. CASE ReleaseClaim(t) \/ ReleaseRegistration(t)
      BY <1>0, <3>3 DEF ReleaseClaim, ReleaseRegistration, Again, Refuse, Rest, Proceed, Finish, Fail,
         FailWith, Goto, At, Holding
    <3>4. CASE Lookup(t) \/ BeginStage(t) \/ StoreBytes(t)
      BY <1>0, <3>4 DEF Lookup, BeginStage, StoreBytes, Refuse, Answer, Rest, Proceed, Note, Fail,
         FailWith, Goto, Holding
    <3>5. CASE BindAcquisition(t) \/ BindMember(t) \/ PublishArtifact(t) \/ VerifyArtifact(t)
      BY <1>0, <3>5 DEF BindAcquisition, BindMember, PublishArtifact, VerifyArtifact, Finish, Proceed,
         Note, Fail, FailWith, Goto, Holding
    <3>6. CASE Discover(t) \/ SaveRun(t) \/ ReadBack(t)
      BY <1>0, <3>6 DEF Discover, SaveRun, ReadBack, Refuse, Answer, Rest, Proceed, Goto, Holding
    <3>7. CASE Crash(t)
      BY <1>0, <3>7 DEF Crash, Refuse, Rest, Goto, Holding
    <3>8. CASE \E c \in Commands : Begin(t, c)
      BY <1>0, <3>8 DEF Begin, Goto, Holding
    <3> QED BY <1>3, <3>1, <3>2, <3>3, <3>4, <3>5, <3>6, <3>7, <3>8 DEF Step
  <2>3. CASE UNCHANGED lock /\ pc[t] \in Holding
    BY <1>0, <2>1, <2>3 DEF LockIsHeld
  <2> QED BY <1>0, <2>1, <2>2, <2>3 DEF LockIsHeld
<1> QED BY <1>1, <1>2, <1>3 DEF Next, vars

LEMMA OnlyClaimsIntend ==
  ASSUME WorkInv, [Next]_vars, NEW t \in Tasks, At(t, "intending")', ~ At(t, "intending")
  PROVE  Claim(t)
<1>0. pc \in [Tasks -> Places]
  BY DEF WorkInv, TypeOK
<1>1. PICK u \in Tasks : Step(u) \/ Crash(u) \/ \E c \in Commands : Begin(u, c)
  BY DEF Next, vars, RemoveLock, At
<1>2. pc' = [pc EXCEPT ![u] = pc'[u]]
  BY <1>0, <1>1 DEF Step, Lookup, TakeLock, Claim, PublishIntent, ReleaseClaim, BeginStage, Register,
     ReleaseRegistration, StoreBytes, BindAcquisition, BindMember, PublishArtifact, VerifyArtifact,
     Discover, SaveRun, ReadBack, Crash, Begin, Again, Refuse, Answer, Rest, Proceed, Note, Fail,
     FailWith, Finish, Goto
<1>3. u = t
  BY <1>0, <1>2 DEF At
<1>4. CASE Lookup(t) \/ TakeLock(t) \/ PublishIntent(t) \/ ReleaseClaim(t)
  BY <1>0, <1>4 DEF Lookup, TakeLock, PublishIntent, ReleaseClaim, Again, Refuse, Answer, Rest,
     Proceed, Fail, FailWith, Goto, At
<1>5. CASE BeginStage(t) \/ Register(t) \/ ReleaseRegistration(t) \/ StoreBytes(t)
  BY <1>0, <1>5 DEF BeginStage, Register, ReleaseRegistration, StoreBytes, Proceed, Note, Fail,
     FailWith, Finish, Goto, At
<1>6. CASE BindAcquisition(t) \/ BindMember(t) \/ PublishArtifact(t) \/ VerifyArtifact(t)
  BY <1>0, <1>6 DEF BindAcquisition, BindMember, PublishArtifact, VerifyArtifact, Proceed, Note, Fail,
     FailWith, Finish, Goto, At
<1>7. CASE Discover(t) \/ SaveRun(t) \/ ReadBack(t) \/ Crash(t) \/ \E c \in Commands : Begin(t, c)
  BY <1>0, <1>7 DEF Discover, SaveRun, ReadBack, Crash, Begin, Refuse, Answer, Rest, Proceed, Goto, At
<1> QED BY <1>1, <1>3, <1>4, <1>5, <1>6, <1>7 DEF Step

\* A request is bound by a task that is alone at "intending" and counted before.
LEMMA IntentStep ==
  ASSUME WorkInv, WorkInv', CapacityInv, \A t \in Tasks : LockIsHeld(t)', [Next]_vars
  PROVE  /\ \A t \in Tasks : At(t, "intending")' => IntentCount' < MaxIntents
         /\ IsFiniteSet(Bound)' /\ IntentCount' <= MaxIntents
<1>1. /\ IsFiniteSet(Bound) /\ Cardinality(Bound) <= MaxIntents
      /\ \A t \in Tasks : At(t, "intending") => Cardinality(Bound) < MaxIntents
      /\ Cardinality(Bound) \in Nat /\ MaxIntents \in Nat
  BY CountsAre, FS_CardinalityType, RailAssumption DEF CapacityInv
<1>2. IntentCount' = Cardinality(Bound')
  BY DEF IntentCount, Bound
<1>3. CASE UNCHANGED intents
  <2>1. Bound' = Bound
    BY <1>3 DEF Bound
  <2>2. ASSUME NEW t \in Tasks, At(t, "intending")'
        PROVE  Cardinality(Bound) < MaxIntents
    <3>1. CASE At(t, "intending")
      BY <1>1, <3>1
    <3>2. CASE ~ At(t, "intending")
      <4>1. Claim(t)
        BY <2>2, <3>2, OnlyClaimsIntend
      <4> QED BY <2>2, <4>1, CountsAre DEF Claim, Proceed, Goto, At, WorkInv, TypeOK
    <3> QED BY <3>1, <3>2
  <2> QED BY <1>1, <1>2, <2>1, <2>2
<1>4. CASE intents' # intents
  <2>1. PICK t \in Tasks : PublishIntent(t)
    BY ZenonT(40), <1>4 DEF Next, vars, stored, Step, Lookup, TakeLock, Claim, ReleaseClaim, BeginStage, Register,
       ReleaseRegistration, StoreBytes, BindAcquisition, BindMember, PublishArtifact, VerifyArtifact,
       Discover, SaveRun, ReadBack, Crash, Begin, RemoveLock
  <2>2. At(t, "intending") /\ intents' = [intents EXCEPT ![command[t].id] = command[t]]
    BY <1>4, <2>1 DEF PublishIntent
  <2>3. Bound' \subseteq Bound \cup {command[t].id}
    <3>1. ASSUME NEW i \in IntentIds, i # command[t].id
          PROVE  intents'[i] = intents[i]
      <4>1. intents \in [IntentIds -> Commands \cup {None}]
        BY DEF WorkInv, TypeOK
      <4> QED BY <2>2, <3>1, <4>1
    <3> QED BY <3>1 DEF Bound
  <2>4. IsFiniteSet(Bound \cup {command[t].id}) /\ Cardinality(Bound \cup {command[t].id}) <= MaxIntents
    BY <1>1, <2>2, FS_AddElement
  <2>5. IsFiniteSet(Bound') /\ Cardinality(Bound') <= MaxIntents
    BY <1>1, <2>3, <2>4, FS_Subset, FS_CardinalityType
  <2>6. ASSUME NEW u \in Tasks
        PROVE  ~ At(u, "intending")'
    <3>1. u # t => pc'[u] = pc[u]
      BY <2>1 DEF PublishIntent, Proceed, Goto, WorkInv, TypeOK
    <3>2. pc'[t] \in {"claimed", "unclaimed"}
      BY <2>1 DEF PublishIntent, Proceed, Goto, WorkInv, TypeOK
    <3>3. At(u, "intending") => u = t
      BY <2>2 DEF CapacityInv, LockIsHeld, Holding, At
    <3> QED BY <3>1, <3>2, <3>3 DEF At
  <2> QED BY <1>2, <2>5, <2>6
<1> QED BY <1>3, <1>4

\* A name is registered by a task that has counted in the same step.
LEMMA RegistryStep ==
  ASSUME WorkInv, CapacityInv, [Next]_vars, NEW kind \in {"CORPUS", "SOURCE"}
  PROVE  IsFiniteSet(KnownAs(kind))' /\ Count(kind)' <= MaxRegistrations
<1>1. /\ IsFiniteSet(KnownAs(kind)) /\ Cardinality(KnownAs(kind)) <= MaxRegistrations
      /\ Cardinality(KnownAs(kind)) \in Nat /\ MaxRegistrations \in Nat
  BY CountsAre, FS_CardinalityType, RailAssumption DEF CapacityInv
<1>2. Count(kind)' = Cardinality(KnownAs(kind)')
  BY DEF Count, KnownAs
<1>3. CASE UNCHANGED registry
  <2>1. KnownAs(kind)' = KnownAs(kind)
    BY <1>3 DEF KnownAs, Known
  <2> QED BY <1>1, <1>2, <2>1
<1>4. CASE registry' # registry
  <2>1. PICK t \in Tasks : Register(t)
    BY ZenonT(40), <1>4 DEF Next, vars, stored, Step, Lookup, TakeLock, Claim, PublishIntent, ReleaseClaim,
       BeginStage, ReleaseRegistration, StoreBytes, BindAcquisition, BindMember, PublishArtifact,
       VerifyArtifact, Discover, SaveRun, ReadBack, Crash, Begin, RemoveLock
  <2>2. PICK c : c = command[t]
    OBVIOUS
  <2>3. /\ registry' = [registry EXCEPT ![c.name] = c.spec]
        /\ registry[c.name] \in {None, c.spec}
        /\ registry[c.name] = None => Count(c.spec.kind) < MaxRegistrations
    <3>1. registry' = [registry EXCEPT ![c.name] = c.spec]
      BY <1>4, <2>1, <2>2 DEF Register
    <3>2. registry[c.name] \in {None, c.spec}
          /\ (registry[c.name] = None => ~ Count(c.spec.kind) >= MaxRegistrations)
      BY <1>4, <2>1, <2>2 DEF Register
    <3> DEFINE k == c.spec.kind
    <3>3. c \in Commands /\ c.kind = "REGISTER"
      <4>1. At(t, "registering") /\ Working(t)
        BY <2>1 DEF Register, At, Working
      <4> QED BY <2>2, <4>1, WorkingFacts DEF Progress, At
    <3>4. k \in {"CORPUS", "SOURCE"}
      BY <3>3, CommandAssumption DEF IsCommand, IsSpec
    <3>5. Count(k) \in Nat
      BY <3>4, CountsAre, FS_CardinalityType DEF CapacityInv
    <3> QED BY <3>1, <3>2, <3>5, RailAssumption
  <2>4. DOMAIN registry = Names
    BY DEF WorkInv, TypeOK
  <2>5. CASE registry[c.name] = None /\ c.spec.kind = kind
    <3>1. KnownAs(kind)' \subseteq KnownAs(kind) \cup {c.name}
      BY <2>3, <2>4 DEF KnownAs, Known
    <3>2. Cardinality(KnownAs(kind)) < MaxRegistrations
      BY <2>3, <2>5, CountsAre
    <3>3. IsFiniteSet(KnownAs(kind) \cup {c.name})
          /\ Cardinality(KnownAs(kind) \cup {c.name}) <= MaxRegistrations
      BY <1>1, <3>2, FS_AddElement
    <3>4. IsFiniteSet(KnownAs(kind)') /\ Cardinality(KnownAs(kind)') <= MaxRegistrations
      BY <1>1, <3>1, <3>3, FS_Subset, FS_CardinalityType
    <3> QED BY <1>2, <3>4
  <2>6. CASE ~ (registry[c.name] = None /\ c.spec.kind = kind)
    <3>1. KnownAs(kind)' = KnownAs(kind)
      BY <2>3, <2>4, <2>6 DEF KnownAs, Known
    <3> QED BY <1>1, <1>2, <3>1
  <2> QED BY <2>5, <2>6
<1> QED BY <1>3, <1>4

LEMMA InitCapacity == Init => CapacityInv
<1> SUFFICES ASSUME Init PROVE CapacityInv
  OBVIOUS
<1>1. Bound = {}
  BY DEF Init, Bound
<1>2. \A t \in Tasks : LockIsHeld(t) /\ ~ At(t, "intending")
  BY DEF Init, LockIsHeld, Holding, At
<1>3. ASSUME NEW kind \in {"CORPUS", "SOURCE"}
      PROVE  IsFiniteSet(KnownAs(kind)) /\ Count(kind) <= MaxRegistrations
  <2> DEFINE R == {n \in DOMAIN Registered : Registered[n].kind = kind}
  <2>1. \A n \in DOMAIN Registered : n \in Names /\ Registered[n] # None
    BY RegisteredAssumption DEF IsSpec
  <2>2. KnownAs(kind) = R
    BY <2>1 DEF Init, KnownAs, Known
  <2>3. Cardinality(R) <= MaxRegistrations
    BY RegisteredAssumption
  <2>4. IsFiniteSet(R)
    <3>1. R \in SUBSET DOMAIN Registered /\ IsFiniteSet(DOMAIN Registered)
      BY RegisteredAssumption
    <3> HIDE DEF R
    <3> QED BY <3>1, FS_Subset
  <2> QED BY <2>2, <2>3, <2>4, CountsAre
<1> QED BY <1>1, <1>2, <1>3, CountsAre, FS_EmptySet, RailAssumption DEF CapacityInv

LEMMA CapacityInvInductive ==
  ASSUME "live" \notin LockRemoval
  PROVE  Spec => []CapacityInv
<1>1. Init => CapacityInv
  BY InitCapacity
<1>2. WorkInv /\ WorkInv' /\ CapacityInv /\ [Next]_vars => CapacityInv'
  <2> SUFFICES ASSUME WorkInv, WorkInv', CapacityInv, [Next]_vars PROVE CapacityInv'
    OBVIOUS
  <2>1. \A t \in Tasks : LockIsHeld(t)'
    BY LockStep
  <2> QED BY <2>1, IntentStep, RegistryStep DEF CapacityInv
<1> QED BY <1>1, <1>2, WorkInvInductive, PTL DEF Spec

\* Every run that is saved stays one that catalog() and execute() accept, and
\* every source still fits its corpus, whatever fails and whoever removes a lock.
LEMMA ReadInvAnswers ==
  ASSUME WorkInv, ReadInv
  PROVE  /\ \A n \in Names : Known("SOURCE", n) => Binds(registry[n])
         /\ \A i \in IntentIds : runs[i] # None => Readable(intents[i], runs[i])
<1>1. \A n \in Names : Known("SOURCE", n) => Binds(registry[n])
  BY DEF ReadInv, Registrations, Known
<1>2. ASSUME NEW i \in IntentIds, runs[i] # None
      PROVE  Readable(intents[i], runs[i])
  <2>1. intents[i] \in Commands /\ runs[i] \in Runs
    BY <1>2 DEF WorkInv, TypeOK, IdentityInv
  <2> QED BY <2>1 DEF ReadInv, RunIsGood, GoodRun
<1> QED BY <1>1, <1>2

\* The catalog can always be listed (catalog(), production/store.ts): within its
\* limits, with fitting sources and acceptable runs, as long as the operator
\* removes no lock of a running reservation.
THEOREM CatalogKeepsAnswering ==
  ASSUME "live" \notin LockRemoval
  PROVE  Spec => []CatalogAnswers
<1>1. WorkInv /\ ReadInv /\ CapacityInv => CatalogAnswers
  BY ReadInvAnswers DEF CapacityInv, CatalogAnswers
<1>2. Spec => []CapacityInv
  BY CapacityInvInductive
<1> QED BY <1>1, <1>2, WorkInvInductive, ReadInvInductive, PTL

=============================================================================
