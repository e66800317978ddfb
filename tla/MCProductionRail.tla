------------------------- MODULE MCProductionRail -------------------------
(* Instances of ProductionRail for TLC. *)
EXTENDS ProductionRail, TLC

CarrierCorpus == [kind |-> "CORPUS", record |-> "Carrier", uses |-> {"review", "rating"}]

SourceOf(corpus, adapter, allows) ==
  [kind |-> "SOURCE", corpus |-> corpus, adapter |-> adapter, allows |-> allows]

Both == {"INGEST", "DERIVE"} \X {"review"}

DecodedContent == [good |-> "CANDIDATE", rejected |-> "REJECTED", unreadable |-> "UNREADABLE"]

Acquire(id, source, content) ==
  [kind |-> "ACQUIRE", id |-> id, source |-> source, content |-> content, purpose |-> "review"]

NormalizeOf(id, source, acquisition, purpose) ==
  [kind |-> "NORMALIZE", id |-> id, source |-> source, acquisition |-> acquisition,
   purpose |-> purpose]

Build(id, corpus, members, purpose) ==
  [kind |-> "BUILD_CANDIDATES", id |-> id, corpus |-> corpus, members |-> members,
   purpose |-> purpose]

\* From bytes to a candidate build, every step of which may fail; and a
\* registration, again, under the identity of the capture.
FlowRegistered ==
  [carriers |-> CarrierCorpus, provider |-> SourceOf("carriers", "Carrier", Both)]
FlowCommands ==
  { Acquire("a", "provider", "good"),
    NormalizeOf("n", "provider", "a", "review"),
    Build("b", "carriers", <<"n">>, "review"),
    [kind |-> "REGISTER", id |-> "a", name |-> "carriers", spec |-> CarrierCorpus] }

Symmetry == Permutations(Tasks)
=============================================================================
