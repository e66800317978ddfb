---------------------------- MODULE EvidenceRail ----------------------------
(***************************************************************************)
(* The evidence rail.  A capture stores bytes and a receipt of them        *)
(* (data-os/local-intake.ts, evidence-capture.ts), a normalization makes a *)
(* candidate of them, and a build lists candidates.  Normalizations and    *)
(* builds come twice: local ones (data-os/local-normalization.ts,          *)
(* local-candidate-build.ts), and those of the census source               *)
(* (acquisition/census-normalization.ts,                                   *)
(* data-os/local-census-candidate-build.ts).  Each is an immutable file    *)
(* under the identity of its request.  To inspect it is to make it again   *)
(* from what it refers to, as of the time it was made at.                  *)
(*                                                                         *)
(* Nothing is reserved: processes may make the same record at once, and    *)
(* the file that was linked first is it.  A digest is the record it is of. *)
(* A capture of the census source is SourceCapture; here it is the         *)
(* acquisition it leaves behind, at the time of its receipt.               *)
(***************************************************************************)
EXTENDS Naturals, FiniteSets

CONSTANTS
  RailTasks,        \* calls that may run at the same time
  RailRequests,     \* a kind, an id, a purpose and, by kind: the content, the policy and
                    \* the time it was captured at; or what it is made of, the sources it
                    \* accepts and, for a build, its cutoff
  Identity,         \* by content: the source record in it, or None if it is rejected
  Rails,            \* {"local", "census"}: the stores to look at
  RailTimes,        \* readings of the clock, which may be set back
  None

VARIABLES
  rail,             \* which stores these are
  files,            \* the record of each id, or None
  objects,          \* the contents in the object store
  railPc,           \* where each call is
  wanted,           \* its request, or None
  drafted,          \* the record it made, or None
  railTold          \* history: the requests and records answered

railLocals == <<railPc, wanted, drafted>>
railVars == <<rail, files, objects, railLocals, railTold>>

RailIds == {r.id : r \in RailRequests}

-----------------------------------------------------------------------------
At(t, place) == railPc[t] = place
Goto(t, place) == railPc' = [railPc EXCEPT ![t] = place]

\* evaluateSourceUse(): no permission follows from another one.
Allowed(policy, operation, purpose, time) ==
  operation \in policy.operations /\ purpose \in policy.purposes /\ time < policy.until

\* compile(): whether a request can be carried out at a time.
Compiles(r, at) ==
  CASE r.kind = "ACQUIRE" -> r.capturedAt <= at
    [] r.kind = "NORMALIZE" ->
         \A a \in r.of : /\ files[a].at <= at
                         /\ Allowed(files[a].request.policy, "DERIVE", r.purpose, at)
    [] r.kind = "BUILD" ->
         /\ r.knownThrough <= at
         /\ \A n \in r.of : \A e \in files[n].upstream :
              Allowed(e.request.policy, "DERIVE", r.purpose, at)

\* What it makes, with all that it refers to.
RecordOf(r, at) ==
  [ request   |-> r,
    at        |-> at,
    upstream  |-> IF r.kind = "ACQUIRE" THEN {} ELSE {files[i] : i \in r.of},
    candidate |-> IF r.kind = "NORMALIZE"
                  THEN LET a == CHOOSE a \in r.of : TRUE IN Identity[files[a].request.content]
                  ELSE None ]

\* decisionFor(): the policy as of the capture, which the receipt repeats.
Ingests(r) == Allowed(r.policy, "INGEST", r.purpose, r.capturedAt)

Recomputes(i) ==
  Compiles(files[i].request, files[i].at) /\ files[i] = RecordOf(files[i].request, files[i].at)

\* inspect() of the three kinds; each inspects what it depends on first.
Acquired(i) ==
  /\ files[i] # None /\ Ingests(files[i].request)
  /\ files[i].request.content \in objects
  /\ Recomputes(i)

OfSources(r) == \A a \in r.of : Acquired(a) /\ files[a].request.policy.source \in r.sources

Normalized(i) == files[i] # None /\ OfSources(files[i].request) /\ Recomputes(i)

\* dependencies() of a build: candidates known by the cutoff, one of each record.
Eligible(r) ==
  /\ \A n \in r.of :
       /\ Normalized(n)
       /\ files[n].candidate # None
       /\ files[n].at <= r.knownThrough
       /\ \A e \in files[n].upstream : e.request.policy.source \in r.sources
  /\ Cardinality({files[n].candidate : n \in r.of}) = Cardinality(r.of)

Dependencies(r) ==
  CASE r.kind = "ACQUIRE" -> Ingests(r)
    [] r.kind = "NORMALIZE" -> OfSources(r)
    [] r.kind = "BUILD" -> Eligible(r)

Inspects(i) ==
  IF files[i].request.kind = "ACQUIRE" THEN Acquired(i)
  ELSE Dependencies(files[i].request) /\ Recomputes(i)

Refuse(t) ==
  /\ Goto(t, "idle")
  /\ wanted' = [wanted EXCEPT ![t] = None]
  /\ drafted' = [drafted EXCEPT ![t] = None]
  /\ UNCHANGED railTold

Answer(t, record) ==
  /\ Goto(t, "idle")
  /\ wanted' = [wanted EXCEPT ![t] = None]
  /\ drafted' = [drafted EXCEPT ![t] = None]
  /\ railTold' = railTold \cup {<<wanted[t], record>>}

Proceed(t, place) == Goto(t, place) /\ UNCHANGED <<wanted, drafted, railTold>>

-----------------------------------------------------------------------------
\* The census stores look for the record first, the others for what it depends on.
LooksFirst == rail = "census"

Request(t, r) ==
  /\ At(t, "idle")
  /\ Goto(t, IF LooksFirst /\ r.kind # "ACQUIRE" THEN "lookup" ELSE "depend")
  /\ wanted' = [wanted EXCEPT ![t] = r]
  /\ UNCHANGED <<rail, files, objects, drafted, railTold>>

Depend(t) ==
  /\ At(t, "depend")
  /\ IF ~ Dependencies(wanted[t]) THEN Refuse(t)
     ELSE Proceed(t, IF LooksFirst /\ wanted[t].kind # "ACQUIRE" THEN "compile" ELSE "lookup")
  /\ UNCHANGED <<rail, files, objects>>

\* The record that is there answers for its request and refuses any other.
Lookup(t) ==
  /\ At(t, "lookup")
  /\ LET i == wanted[t].id IN
       IF files[i] = None
       THEN Proceed(t, IF LooksFirst /\ wanted[t].kind # "ACQUIRE" THEN "depend" ELSE "compile")
       ELSE IF files[i].request = wanted[t] /\ Inspects(i) THEN Answer(t, files[i])
       ELSE Refuse(t)
  /\ UNCHANGED <<rail, files, objects>>

\* Mutant: the preflight of a capture is taken for the stored one.
CompilePreflight(t) ==
  /\ At(t, "compile")
  /\ \E now \in RailTimes :
       IF Compiles(wanted[t], now)
       THEN /\ drafted' = [drafted EXCEPT ![t] = RecordOf(wanted[t], now)]
            /\ Goto(t, "publish")
            /\ UNCHANGED <<wanted, railTold>>
       ELSE Refuse(t)
  /\ UNCHANGED <<rail, files, objects>>

\* The record is made, or the preflight of a capture, at a reading of the clock.
Compile(t) ==
  /\ At(t, "compile")
  /\ \E now \in RailTimes :
       IF Compiles(wanted[t], now)
       THEN /\ drafted' = [drafted EXCEPT ![t] = RecordOf(wanted[t], now)]
            /\ Goto(t, IF wanted[t].kind = "ACQUIRE" THEN "store" ELSE "publish")
            /\ UNCHANGED <<wanted, railTold>>
       ELSE Refuse(t)
  /\ UNCHANGED <<rail, files, objects>>

\* captureEvidence(): the bytes are stored and read back; they stay, whatever
\* becomes of the receipt.
StoreBytes(t) ==
  /\ At(t, "store")
  /\ LET more == objects \cup {wanted[t].content} IN
       \/ objects' = more /\ Proceed(t, "publish")
       \/ objects' \in {objects, more} /\ Refuse(t)
  /\ UNCHANGED <<rail, files>>

\* publishImmutableFile: the file is linked, or an equal one is there, or it
\* fails, before or after the link.  The census stores read it back.
Publish(t) ==
  /\ At(t, "publish")
  /\ LET i == wanted[t].id
         linked == [files EXCEPT ![i] = drafted[t]] IN
       \/ /\ files[i] \in {None, drafted[t]}
          /\ files' = linked
          /\ IF LooksFirst /\ wanted[t].kind # "ACQUIRE" THEN Proceed(t, "confirm")
             ELSE Answer(t, drafted[t])
       \/ /\ files' \in (IF files[i] = None THEN {files, linked} ELSE {files})
          /\ Proceed(t, "winner")
  /\ UNCHANGED <<rail, objects>>

Confirm(t) ==
  /\ At(t, "confirm")
  /\ \/ /\ files[wanted[t].id] = drafted[t] /\ Inspects(wanted[t].id)
        /\ Answer(t, files[wanted[t].id])
     \/ Proceed(t, "winner")
  /\ UNCHANGED <<rail, files, objects>>

\* After a failure the record that is there answers, if it is of this request.
Winner(t) ==
  /\ At(t, "winner")
  /\ LET i == wanted[t].id IN
       IF files[i] # None /\ files[i].request = wanted[t] /\ Inspects(i)
       THEN Answer(t, files[i]) ELSE Refuse(t)
  /\ UNCHANGED <<rail, files, objects>>

\* Reading a file fails, or the process is killed.
Fail(t) ==
  /\ ~ At(t, "idle")
  /\ Refuse(t)
  /\ UNCHANGED <<rail, files, objects>>

-----------------------------------------------------------------------------
Init ==
  /\ rail \in Rails
  /\ files = [i \in RailIds |-> None]
  /\ objects = {}
  /\ railPc = [t \in RailTasks |-> "idle"]
  /\ wanted = [t \in RailTasks |-> None]
  /\ drafted = [t \in RailTasks |-> None]
  /\ railTold = {}

Next ==
  \E t \in RailTasks :
    \/ \E r \in RailRequests : Request(t, r)
    \/ Depend(t) \/ Lookup(t) \/ Compile(t) \/ StoreBytes(t)
    \/ Publish(t) \/ Confirm(t) \/ Winner(t) \/ Fail(t)

Spec == Init /\ [][Next]_railVars

-----------------------------------------------------------------------------
(* What the proofs assume of the constants, and what may be stored.        *)

OfKind(kind) == {r \in RailRequests : r.kind = kind}

AcquiredRecords == [request : OfKind("ACQUIRE"), at : RailTimes, upstream : {{}}, candidate : {None}]
NormalizedRecords ==
  [request : OfKind("NORMALIZE"), at : RailTimes, upstream : SUBSET AcquiredRecords,
   candidate : {Identity[r.content] : r \in OfKind("ACQUIRE")}]
BuiltRecords ==
  [request : OfKind("BUILD"), at : RailTimes, upstream : SUBSET NormalizedRecords, candidate : {None}]
RailRecords == AcquiredRecords \cup NormalizedRecords \cup BuiltRecords

\* The three kinds have directories of their own, so an id is of one kind; a
\* normalization is of one capture, a build of normalizations, and either may
\* name what is never stored.
RailAssumption ==
  /\ \A r \in RailRequests :
       \/ r.kind = "ACQUIRE"
       \/ r.kind = "NORMALIZE" /\ r.of # {} /\ r.of \subseteq {q.id : q \in OfKind("ACQUIRE")}
       \/ r.kind = "BUILD" /\ r.of \subseteq {q.id : q \in OfKind("NORMALIZE")}
  /\ \A r, q \in RailRequests : r.id = q.id => r.kind = q.kind
  /\ None \notin RailRecords

-----------------------------------------------------------------------------
(* Properties.                                                             *)

\* Whatever calls overlap, fail or are killed, and however the clock is set,
\* every record on the rail passes inspection from the moment its file exists:
\* its bytes are stored, and all it refers to is retained, permitted and not
\* later than itself.  And what a caller is told is the only record there will
\* be of the request it made.
RecordsInspect ==
  /\ \A i \in RailIds : files[i] # None => Inspects(i)
  /\ \A told \in railTold : told[2].request = told[1] /\ files[told[1].id] = told[2]
=============================================================================
