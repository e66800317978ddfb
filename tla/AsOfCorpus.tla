----------------------------- MODULE AsOfCorpus -----------------------------
(***************************************************************************)
(* What a release of a corpus answers (src/domain/corpus.ts): queryAsOf,   *)
(* the records and the retractions a viewer is given, and the status of a  *)
(* record at a knowledge time.  Two clocks run through it: when a record   *)
(* describes the world (from, until) and when it could be known (known).   *)
(*                                                                         *)
(* A corpus is a set of records and a set of retractions.  `place` is the  *)
(* position of a record in its array, which decides between records known  *)
(* at one instant.  Instants are integers, compared as the ISO strings of  *)
(* the code are.  `delivers` is what the policy of a release allows: the   *)
(* sources whose delivery to a viewer evaluateSourceUse decides ALLOWED at *)
(* the cutoff of the release.                                              *)
(***************************************************************************)
EXTENDS Integers

CONSTANTS
  Link,           \* the predicate identity.sample_of_lot
  Nil            \* no superseder, no retraction, no end of validity, no link

-----------------------------------------------------------------------------
\* The records of a release: what was knowable by its cutoff.
ReleaseRecords(c, rel) == { r \in c.records : r.known <= rel.known }

\* A query is clamped to the cutoff of the release that answers it.
KnowledgeTime(rel, q) == IF q.known <= rel.known THEN q.known ELSE rel.known

\* What was known at t of the standing of a record: a correction and a
\* withdrawal count from the day they were known themselves.
Withdrawn(c, r, t) == \E x \in c.retractions : x.id = r.retraction /\ x.issued <= t

\* Mutant: a correction counts from the start.
CorrectedEver(c, r, t) == \E x \in c.records : x.id = r.superseder

Corrected(c, r, t) == \E x \in c.records : x.id = r.superseder /\ x.known <= t

StatusAt(c, r, t) ==
  IF Withdrawn(c, r, t) THEN "RETRACTED"
  ELSE IF Corrected(c, r, t) THEN "SUPERSEDED" ELSE "CURRENT"

Within(r, t) == r.from <= t /\ (r.until = Nil \/ t < r.until)

Deliverable(rel, r, viewer) == r.source \in rel.delivers[viewer]

-----------------------------------------------------------------------------
\* The candidates on one subject, and the one that the sort puts first.
Candidates(c, rel, subject, q) ==
  { r \in ReleaseRecords(c, rel) :
      /\ r.subject = subject /\ r.predicate = q.predicate
      /\ r.known <= KnowledgeTime(rel, q) }

Before(r, x) == r.known > x.known \/ (r.known = x.known /\ r.place <= x.place)

Newest(R) == CHOOSE r \in R : \A x \in R : Before(r, x)

\* Why a candidate does not answer: the first reason the loop meets.
SetAside(c, rel, q, r) ==
  LET status == StatusAt(c, r, KnowledgeTime(rel, q))
  IN CASE status # "CURRENT" -> status
       [] ~Within(r, q.valid) -> "OUTSIDE_VALIDITY"
       [] q.enforce /\ ~Deliverable(rel, r, q.viewer) -> "NOT_DELIVERABLE"
       [] OTHER -> Nil

\* The most specific refusal when there are candidates and none of them answers.
RefusalOf(c, rel, q, R) ==
  IF \E r \in R : StatusAt(c, r, KnowledgeTime(rel, q)) = "RETRACTED" THEN "RETRACTED"
  ELSE IF q.enforce /\ \E r \in R : ~Deliverable(rel, r, q.viewer)
       THEN "NOT_DELIVERABLE" ELSE "OUTSIDE_VALIDITY"

Evaluate(c, rel, q, subject, resolution, link) ==
  LET R == Candidates(c, rel, subject, q)
      answering == { r \in R : SetAside(c, rel, q, r) = Nil }
  IN [ resolution |-> resolution, link |-> link, candidates |-> R,
       record |-> IF answering = {} THEN Nil ELSE Newest(answering),
       code |-> IF answering = {} THEN RefusalOf(c, rel, q, R) ELSE Nil,
       considered |-> IF answering = {}
                      THEN { <<r, SetAside(c, rel, q, r)>> : r \in R } ELSE {} ]

-----------------------------------------------------------------------------
\* Identity links in effect, those to the subject of a query, and the samples
\* that no link in effect connects to anything.
LinksInEffect(c, rel, q) ==
  { r \in ReleaseRecords(c, rel) :
      /\ r.predicate = Link /\ r.known <= KnowledgeTime(rel, q)
      /\ StatusAt(c, r, KnowledgeTime(rel, q)) = "CURRENT" }

LinksTo(c, rel, q) == { r \in LinksInEffect(c, rel, q) : r.value = q.subject }

UnlinkedSamples(c, rel, q) ==
  { r \in ReleaseRecords(c, rel) :
      /\ r.predicate = q.predicate /\ r.sample /\ r.known <= KnowledgeTime(rel, q)
      /\ \A l \in LinksInEffect(c, rel, q) : l.subject # r.subject }

Nothing(code, considered) ==
  [ resolution |-> "NONE", link |-> Nil, candidates |-> {}, record |-> Nil,
    code |-> code, considered |-> considered ]

\* The links to the subject whose own subject has a candidate; the first one in
\* the array is followed.
Leading(c, rel, q) ==
  { l \in LinksTo(c, rel, q) : Candidates(c, rel, l.subject, q) # {} }

First(L) == CHOOSE l \in L : \A x \in L : l.place <= x.place

\* A direct candidate keeps the links from being tried, whether it answers or not.
QueryAsOf(c, rel, q) ==
  IF Candidates(c, rel, q.subject, q) # {}
  THEN Evaluate(c, rel, q, q.subject, "DIRECT", Nil)
  ELSE IF Leading(c, rel, q) # {}
  THEN LET link == First(Leading(c, rel, q))
       IN Evaluate(c, rel, q, link.subject, "VIA_IDENTITY_LINK", link)
  ELSE IF UnlinkedSamples(c, rel, q) # {} /\ LinksTo(c, rel, q) = {}
  THEN Nothing("NO_IDENTITY_LINK",
               { <<r, "not linked">> : r \in UnlinkedSamples(c, rel, q) })
  ELSE Nothing("NO_RECORD", {})

-----------------------------------------------------------------------------
\* What a viewer may see, by class of visibility.
VisibleTo(viewer) ==
  CASE viewer = "PUBLIC_RULING" -> {"PUBLIC_RULING"}
    [] viewer = "COUNTERPARTY_SHARED" -> {"COUNTERPARTY_SHARED", "PUBLIC_RULING"}
    [] OTHER -> {"INTERNAL_ONLY", "PRIVATE_PREFLIGHT", "COUNTERPARTY_SHARED",
                 "PUBLIC_RULING"}

\* The records a viewer is given, and how many are withheld by rights and by
\* visibility; an internal viewer is held to the rights of a counterparty.
DeliverableRecords(c, rel, viewer) ==
  LET guard == IF viewer = "PUBLIC_RULING" THEN viewer ELSE "COUNTERPARTY_SHARED"
      allowed == { r \in ReleaseRecords(c, rel) : Deliverable(rel, r, guard) }
  IN [ records |-> { r \in allowed : r.visibility \in VisibleTo(viewer) },
       byRights |-> ReleaseRecords(c, rel) \ allowed,
       byVisibility |-> { r \in allowed : r.visibility \notin VisibleTo(viewer) } ]

RetractionsSince(c, since, viewer) ==
  { x \in c.retractions :
      (since = Nil \/ x.issued > since) /\ x.visibility \in VisibleTo(viewer) }

-----------------------------------------------------------------------------
(***************************************************************************)
(* What a knowledge time means.                                            *)
(***************************************************************************)

\* The records that were known and the retractions that were issued by t.  A
\* record keeps the ids of its superseder and its retraction, whose rows may be
\* missing then: it is stored, and delivered, with them.
UpTo(c, t) == [ records |-> { r \in c.records : r.known <= t },
                retractions |-> { x \in c.retractions : x.issued <= t } ]

\* The answer to a query is decided by what was known at its knowledge time:
\* without the records, corrections, withdrawals and links that came later it is
\* the same (the comment of recordStatusAt, "later corrections and withdrawals
\* are not yet known").
LooksNoFurther(c, rel, q) ==
  QueryAsOf(UpTo(c, KnowledgeTime(rel, q)), rel, q) = QueryAsOf(c, rel, q)

\* Two releases that were both cut after the knowledge time of a query answer
\* it alike when they deliver alike: a new release does not change the past.
ReleasesAgree(c, rel1, rel2, q) ==
  /\ q.known <= rel1.known /\ q.known <= rel2.known
  /\ rel1.delivers = rel2.delivers
  => QueryAsOf(c, rel1, q) = QueryAsOf(c, rel2, q)
=============================================================================
