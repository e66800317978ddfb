---------------------------- MODULE MCServices ----------------------------
(* An instance of Services for TLC. *)
EXTENDS Services, Naturals, TLC

-----------------------------------------------------------------------------
\* GatAudit: two identities that reach the engine, one of which is asked for again
\* for a purpose that is denied; and sources of another content.
Audit(id, content, purpose) ==
  [id |-> id, source |-> "ifc", content |-> content, purpose |-> purpose]

AskedAudits == {Audit("r1", "ifc", "p"), Audit("r1", "ifc", "q"), Audit("r2", "ifc", "p")}

\* ComputedRuns: evidence of another content, without the permission to derive
\* or to retrieve, and of which the window or the retention ends.
Reference(acquisition) == [acquisition |-> acquisition, content |-> "c1"]
Policy(content, operations, effective, until) ==
  [content |-> content, operations |-> operations, effective |-> effective, retained |-> until]
Use == {"DERIVE", "RETRIEVE"}

AskedRuns == {[id |-> "r1", evidence |-> {Reference("a1")}],
              [id |-> "r1", evidence |-> {Reference("a1"), Reference("a2")}]}
EvidencePolicies ==
  {Policy("c1", Use, 3, 3), Policy("c1", Use, 2, 2), Policy("c1", Use, 3, 2),
   Policy("c1", {"DERIVE"}, 3, 3), Policy("c2", Use, 3, 3)}

\* EvidenceRail: two captures, one identity of which is asked for twice, a content
\* without a record, and a build of both; a policy ends while they are made.
Source(until) ==
  [source |-> "s", operations |-> {"INGEST", "DERIVE"}, purposes |-> {"p"}, until |-> until]
Acquire(id, content, until) ==
  [kind |-> "ACQUIRE", id |-> id, purpose |-> "p", content |-> content, policy |-> Source(until),
   capturedAt |-> 1]
Normalize(id, acquisition) ==
  [kind |-> "NORMALIZE", id |-> id, purpose |-> "p", of |-> {acquisition}, sources |-> {"s"}]
Build(id, members, cutoff) ==
  [kind |-> "BUILD", id |-> id, purpose |-> "p", of |-> members, sources |-> {"s"},
   knownThrough |-> cutoff]

AskedRecords ==
  {Acquire("a1", "c1", 3), Acquire("a1", "c2", 3), Acquire("a2", "c3", 2),
   Normalize("n1", "a1"), Normalize("n2", "a2"),
   Build("b", {"n1", "n2"}, 1)}
IdentityIn == [c1 |-> "x", c2 |-> Nil, c3 |-> "y"]

\* SpatialAnalyses: one or two sources, and a root of another layout.
Analysis(id, acquisitions, binds) ==
  [id |-> id, sources |-> {Reference(a) : a \in acquisitions}, binds |-> binds]
LayerPolicy(content, derive, effective) ==
  [content |-> content, derive |-> derive, effective |-> effective]

AskedAnalyses == {Analysis("r1", {"a1"}, TRUE), Analysis("r1", {"a1", "a2"}, TRUE),
                  Analysis("r2", {"a1"}, FALSE)}
PoliciesOfLayers == {LayerPolicy("c1", TRUE, 3), LayerPolicy("c1", TRUE, 2),
                     LayerPolicy("c1", FALSE, 3), LayerPolicy("c2", TRUE, 3)}

Symmetry == Permutations(GatTasks)
=============================================================================
