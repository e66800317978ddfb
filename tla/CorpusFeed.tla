----------------------------- MODULE CorpusFeed -----------------------------
(***************************************************************************)
(* The corpus in Postgres: the seed script that writes its rows one by one *)
(* (scripts/seed-db.ts) and the feed that reads them with one select after *)
(* another (src/adapter/corpusSource.ts, src/adapter/feed.ts).  Neither    *)
(* side uses a transaction, several seeds may run at once, and a seed may  *)
(* be killed, or fail, at any row and be started again.                    *)
(***************************************************************************)
EXTENDS AsOfCorpus, Sequences

CONSTANTS
  Rows,           \* the rows of the fixture, in the order of the script: records
                  \* with a `table` and the `row` itself; rows keep that order in
                  \* a select without ORDER BY, as they are never updated
  Seeders,        \* processes that seed
  Questions       \* what the feed is asked: records with a `kind`

VARIABLES
  stored,         \* the positions in Rows of the rows in the database
  seeding,        \* the next position of each seed; 0 is no seed running
  completed,      \* a seed has ended with exit code 0
  reading,        \* the request being served: its question and what it has read
  reply           \* the last answer

fvars == <<stored, seeding, completed, reading, reply>>

-----------------------------------------------------------------------------
\* The rows of a table among those stored, and the corpus of a whole fixture.
TableIn(rows, table) == { Rows[i].row : i \in { j \in rows : Rows[j].table = table } }

Table(table) == TableIn(stored, table)

Fixture == [ records |-> TableIn(1 .. Len(Rows), "records"),
             retractions |-> TableIn(1 .. Len(Rows), "retractions") ]

\* What is said of a corpus, once it has been read.
Body(c, release, question) ==
  CASE question.kind = "asOf" -> QueryAsOf(c, release, question.query)
    [] question.kind = "records" -> DeliverableRecords(c, release, question.viewer)
    [] question.kind = "retractions" ->
         RetractionsSince(c, question.since, question.viewer)

ReleasesNamed(rows, id) == { r \in TableIn(rows, "releases") : r.id = id }

FixtureBody(question) ==
  IF question.kind = "retractions" THEN Body(Fixture, Nil, question)
  ELSE LET found == ReleasesNamed(1 .. Len(Rows), question.release)
       IN IF found = {} THEN Nil
          ELSE Body(Fixture, CHOOSE r \in found : TRUE, question)

-----------------------------------------------------------------------------
(***************************************************************************)
(* The seed script.                                                        *)
(***************************************************************************)

\* Mutant: a seed that finds the corpus has nothing to do.
StartSeedOnce(s) ==
  /\ seeding[s] = 0
  /\ seeding' = [seeding EXCEPT ![s] = IF Table("corpora") = {} THEN 1 ELSE Len(Rows) + 1]
  /\ UNCHANGED <<stored, completed, reading, reply>>

StartSeed(s) ==
  /\ seeding[s] = 0
  /\ seeding' = [seeding EXCEPT ![s] = 1]
  /\ UNCHANGED <<stored, completed, reading, reply>>

\* One insert, which does nothing when the row is there (onConflictDoNothing).
InsertRow(s) ==
  /\ seeding[s] \in 1 .. Len(Rows)
  /\ stored' = stored \cup {seeding[s]}
  /\ seeding' = [seeding EXCEPT ![s] = @ + 1]
  /\ UNCHANGED <<completed, reading, reply>>

EndSeed(s) ==
  /\ seeding[s] = Len(Rows) + 1
  /\ seeding' = [seeding EXCEPT ![s] = 0]
  /\ completed' = TRUE
  /\ UNCHANGED <<stored, reading, reply>>

\* A killed process, or an insert that throws: the rows so far stay.
StopSeed(s) ==
  /\ seeding[s] # 0
  /\ seeding' = [seeding EXCEPT ![s] = 0]
  /\ UNCHANGED <<stored, completed, reading, reply>>

-----------------------------------------------------------------------------
(***************************************************************************)
(* The feed.  A question about a release is answered in two rounds of the  *)
(* same reads: getRelease by the payload, whose release it quotes, and     *)
(* getRelease again by asOf or records.                                    *)
(***************************************************************************)

NothingRead == [ records |-> {}, retractions |-> {} ]

Ask(question) ==
  /\ reading = Nil
  /\ reading' = [ question |-> question, round |-> 1, release |-> Nil,
                  step |-> IF question.kind = "retractions" THEN "list" ELSE "release",
                  corpus |-> NothingRead, settled |-> completed ]
  /\ reply' = Nil
  /\ UNCHANGED <<stored, seeding, completed>>

Answer(body, corpus, release) ==
  /\ reading' = Nil
  /\ reply' = [ question |-> reading.question, body |-> body, corpus |-> corpus,
                release |-> release, settled |-> reading.settled ]

GoTo(step) == reading' = [reading EXCEPT !.step = step] /\ UNCHANGED reply

\* The release by its id; without one the answer is undefined, a 404.
ReadRelease ==
  LET found == ReleasesNamed(stored, reading.question.release)
  IN /\ reading.step = "release"
     /\ IF found = {} THEN Answer(Nil, NothingRead, Nil) ELSE GoTo("corpus")

\* listCorpora, for the retractions of every corpus.
ListCorpora ==
  /\ reading.step = "list"
  /\ IF Table("corpora") = {} THEN Answer({}, NothingRead, Nil) ELSE GoTo("corpus")

ReadCorpus ==
  /\ reading.step = "corpus"
  /\ IF Table("corpora") = {} THEN Answer(Nil, NothingRead, Nil) ELSE GoTo("releases")

\* The releases of the corpus, and among them the one that was asked for.
ReadReleases ==
  LET found == ReleasesNamed(stored, reading.question.release)
  IN /\ reading.step = "releases"
     /\ UNCHANGED reply
     /\ reading' = [reading EXCEPT !.step = "records", !.release =
                      IF reading.question.kind = "retractions" \/ found = {}
                      THEN Nil ELSE CHOOSE r \in found : TRUE]

ReadRecords ==
  /\ reading.step = "records"
  /\ UNCHANGED reply
  /\ reading' = [reading EXCEPT !.step = "retractions",
                                !.corpus.records = Table("records")]

\* The last select of a round.  What the first round read of the records and of
\* the retractions is dropped; what the second round read is the answer's.
ReadRetractions ==
  LET corpus == [reading.corpus EXCEPT !.retractions = Table("retractions")]
      question == reading.question
  IN /\ reading.step = "retractions"
     /\ \/ /\ question.kind = "retractions"
           /\ Answer(Body(corpus, Nil, question), corpus, Nil)
        \/ /\ question.kind # "retractions" /\ reading.release = Nil
           /\ Answer(Nil, NothingRead, Nil)
        \/ /\ question.kind # "retractions" /\ reading.release # Nil
           /\ reading.round = 1
           /\ reading' = [reading EXCEPT !.round = 2, !.step = "release",
                                         !.corpus = NothingRead]
           /\ UNCHANGED reply
        \/ /\ question.kind # "retractions" /\ reading.release # Nil
           /\ reading.round = 2
           /\ Answer(Body(corpus, reading.release, question), corpus, reading.release)

Read ==
  /\ reading # Nil
  /\ \/ ReadRelease \/ ListCorpora \/ ReadCorpus
     \/ ReadReleases \/ ReadRecords \/ ReadRetractions
  /\ UNCHANGED <<stored, seeding, completed>>

-----------------------------------------------------------------------------
FInit ==
  /\ stored = {}
  /\ seeding = [s \in Seeders |-> 0]
  /\ completed = FALSE
  /\ reading = Nil
  /\ reply = Nil

FNext ==
  \/ \E s \in Seeders : StartSeed(s) \/ InsertRow(s) \/ EndSeed(s) \/ StopSeed(s)
  \/ \E question \in Questions : Ask(question)
  \/ Read

FSpec == FInit /\ [][FNext]_fvars

-----------------------------------------------------------------------------
(***************************************************************************)
(* Properties.                                                             *)
(***************************************************************************)

Answered == reply # Nil /\ reply.body # Nil

\* Which record answers, its status, the candidates, the link that was followed
\* and the refusal are decided by what was knowable at the time of the question,
\* whatever rows the selects of a request happened to find: a correction or a
\* withdrawal that came later decides nothing, in a read that is torn by a running
\* seed either.  The record that answers is delivered as it is stored: the ids of
\* its superseder and of its retraction are in it from the start, and stay in the
\* payload on purpose (recordPayload; question 10 of DELIVERED_RECORD_CONTRACT).
AnswersLookNoFurther ==
  Answered /\ reply.question.kind = "asOf"
    => LooksNoFurther(reply.corpus, reply.release, reply.question.query)

\* Once a seed has ended with success, a request that begins is answered as the
\* whole fixture answers it, whatever seeds were killed before or run again
\* meanwhile; and a release is never lost between the two rounds of a request.
SettledAnswersAreTheFixtures ==
  /\ reply # Nil /\ reply.settled
       => reply.body = FixtureBody(reply.question)
  /\ reading # Nil /\ reading.round = 2
       => ReleasesNamed(stored, reading.question.release) # {}
=============================================================================
