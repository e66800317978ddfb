---------------------------- MODULE MCHistories ----------------------------
(* The notation kernel with its history, the corpus feed, the commands the *)
(* production rail refuses, and the graphs of spatial analyses; none shares *)
(* a state with another, and each is explored by itself: `part` is chosen at *)
(* first and says which one runs.  The kernel and the feed keep their own   *)
(* variables; those of the other two are v1, v2 and so on, as their        *)
(* INSTANCE says, and those a part does not need are None.                  *)
EXTENDS NotationHistory, CorpusFeed, TLC

VARIABLES part, v1, v2, v3, v4, v5, v6, v7, v8, v9, v10, v11

after7 == <<v8, v9, v10, v11>>
slots == <<v1, v2, v3, v4, v5, v6, v7, after7>>

-----------------------------------------------------------------------------
\* CorpusFeed: a lot with a quantity that is corrected, a sample that is linked
\* to it and whose record is withdrawn, and one whose source is delivered only
\* by the second release.
Rec(id, place, subject, predicate, value, known) ==
  [ id |-> id, place |-> place, subject |-> subject, predicate |-> predicate,
    value |-> value, known |-> known, sample |-> subject # "lot", from |-> 0,
    until |-> Nil, source |-> "a", visibility |-> "COUNTERPARTY_SHARED",
    superseder |-> Nil, retraction |-> Nil ]

CorpusRecords == <<
  [Rec("quantity", 1, "lot", "gross", 40, 1) EXCEPT !.superseder = "corrected"],
  [Rec("moisture", 2, "sample", "moisture", 5, 1) EXCEPT !.retraction = "withdrawal"],
  Rec("link", 3, "sample", "sample of lot", "lot", 2),
  [Rec("corrected", 4, "lot", "gross", 41, 3) EXCEPT !.until = 5,
                                                     !.visibility = "PUBLIC_RULING"],
  [Rec("retest", 5, "sample", "moisture", 6, 2) EXCEPT !.source = "b"] >>

CorpusReleases == <<
  [ id |-> "first", known |-> 2,
    delivers |-> [COUNTERPARTY_SHARED |-> {"a"}, PUBLIC_RULING |-> {}] ],
  [ id |-> "second", known |-> 4,
    delivers |-> [COUNTERPARTY_SHARED |-> {"a", "b"}, PUBLIC_RULING |-> {"a"}] ] >>

RowsOf(table, rows) == [i \in 1 .. Len(rows) |-> [table |-> table, row |-> rows[i]]]

FeedRows ==
  RowsOf("corpora", <<"caravan">>) \o RowsOf("releases", CorpusReleases)
    \o RowsOf("records", CorpusRecords)
    \o RowsOf("retractions", <<[ id |-> "withdrawal", issued |-> 4,
                                 visibility |-> "COUNTERPARTY_SHARED" ]>>)

FeedQuestions ==
  [ kind : {"asOf"}, release : {"first", "second"},
    query : [ subject : {"lot"}, predicate : {"gross", "moisture"}, valid : {1},
              known : 2 .. 4, enforce : {TRUE}, viewer : {"COUNTERPARTY_SHARED"} ] ]
  \cup [ kind : {"records"}, release : {"second", "unknown"}, viewer : {"PUBLIC_RULING"} ]
  \cup [ kind : {"retractions"}, since : {2}, viewer : {"COUNTERPARTY_SHARED"} ]

FeedLink == "sample of lot"
FeedSeeders == 1 .. 2

\* ProductionRail: commands refused by a policy, an adapter or a purpose, members
\* that are quarantined, and an identity used for a second command.
CarrierCorpus == [kind |-> "CORPUS", record |-> "Carrier", uses |-> {"review", "rating"}]
IfcCorpus == [kind |-> "CORPUS", record |-> "IFCArtifact", uses |-> {"review"}]
SourceOf(corpus, adapter, allows) ==
  [kind |-> "SOURCE", corpus |-> corpus, adapter |-> adapter, allows |-> allows]
Both == {"INGEST", "DERIVE"} \X {"review"}
AcquireOf(id, source, content) ==
  [kind |-> "ACQUIRE", id |-> id, source |-> source, content |-> content, purpose |-> "review"]
NormalizeOf(id, source, acquisition) ==
  [kind |-> "NORMALIZE", id |-> id, source |-> source, acquisition |-> acquisition, purpose |-> "review"]
BuildOf(id, corpus, members, purpose) ==
  [kind |-> "BUILD_CANDIDATES", id |-> id, corpus |-> corpus, members |-> members, purpose |-> purpose]

Refusals == INSTANCE ProductionRail WITH Tasks <- {"t"}, Names <- {"carriers", "buildings", "open", "silent", "closed", "plans"},
  Registered <- [carriers |-> CarrierCorpus, buildings |-> IfcCorpus,
                 open |-> SourceOf("carriers", "Carrier", Both),
                 silent |-> SourceOf("carriers", "Carrier", {<<"INGEST", "review">>}),
                 closed |-> SourceOf("carriers", "Carrier", {}),
                 plans |-> SourceOf("buildings", "IFCArtifact", Both)],
  Commands <- {AcquireOf("a1", "open", "good"), AcquireOf("a1", "open", "rejected"),
               AcquireOf("a2", "silent", "good"), AcquireOf("a3", "closed", "good"),
               AcquireOf("a4", "plans", "unreadable"), AcquireOf("a5", "open", "unreadable"),
               NormalizeOf("n1", "open", "a1"), NormalizeOf("n2", "silent", "a2"),
               NormalizeOf("n3", "plans", "a4"), NormalizeOf("n4", "open", "a5"),
               BuildOf("b1", "carriers", <<"n1", "n4">>, "review"),
               BuildOf("b2", "buildings", <<"n1">>, "review"),
               BuildOf("b3", "carriers", <<"n1">>, "rating")},
  Decoded <- [good |-> "CANDIDATE", rejected |-> "REJECTED", unreadable |-> "UNREADABLE"],
  MaxIntents <- 4, MaxRegistrations <- 4, MayFail <- FALSE, MayCrash <- FALSE, LockRemoval <- {},
  intents <- v1, runs <- v2, registry <- v3, contents <- v4, made <- v5, lock <- v6, pc <- v7,
  command <- v8, draft <- v9, starts <- v10, told <- v11

\* SpatialGraph: a ring of five spaces, its passages of all kinds that differ.
Passages(from, to, kinds) ==
  {[from |-> from, to |-> to, both |-> k[1], state |-> k[2], condition |-> k[3]] : k \in kinds}
Few == {<<TRUE, "OPEN", "OPEN">>, <<FALSE, "OPEN", "OPEN">>, <<TRUE, "OPEN", "UNKNOWN">>}
Many == Few \cup {<<TRUE, "UNKNOWN", "OPEN">>, <<TRUE, "OPEN", "CLOSED">>, <<TRUE, "CLOSED", "UNKNOWN">>}
Rings ==
  {<<p, q, r, s, u>> : p \in Passages("a", "b", Many), q \in Passages("b", "c", Few),
                       r \in Passages("c", "d", Few), s \in Passages("d", "e", Few),
                       u \in Passages("a", "e", Few)}

Graphs == INSTANCE SpatialGraph WITH
  Spaces <- <<"a", "b", "c", "d", "e">>, Layouts <- Rings,
  Assumptions <- {[passage |-> 1, state |-> "CLOSED"], [passage |-> 3, state |-> "OPEN"]},
  passages <- v1, root <- v2, scenario <- v3, searching <- v4, queue <- v5,
  depths <- v6, graphs <- v7

-----------------------------------------------------------------------------
After7Idle == v8 = None /\ v9 = None /\ v10 = None /\ v11 = None
Idle ==
  /\ v1 = None /\ v2 = None /\ v3 = None /\ v4 = None
  /\ v5 = None /\ v6 = None /\ v7 = None /\ After7Idle

PartInit ==
  /\ HInit /\ FInit
  /\ \/ part \in {"notations", "feed"} /\ Idle
     \/ part = "refusals" /\ Refusals!Init
     \/ part = "graphs" /\ Graphs!Init /\ After7Idle

PartNext ==
  /\ UNCHANGED part
  /\ \/ part = "notations" /\ HNext /\ UNCHANGED <<fvars, slots>>
     \/ part = "feed" /\ FNext /\ UNCHANGED <<hvars, slots>>
     \/ /\ UNCHANGED <<hvars, fvars>>
        /\ \/ part = "refusals" /\ Refusals!Next
           \/ part = "graphs" /\ Graphs!Next /\ UNCHANGED after7

PartSpec == PartInit /\ [][PartNext]_<<part, hvars, fvars, slots>>

Symmetry == Permutations(Ids) \cup Permutations(Contents)

-----------------------------------------------------------------------------
\* What was computed is accepted by what reads it: a graph with its routes by the
\* inspection of an analysis, and what refused commands left by the catalogue.
ReadersAccept ==
  /\ part = "graphs" => Graphs!AnalysesAreReadable
  /\ part = "refusals" => Refusals!CatalogAnswers
=============================================================================
