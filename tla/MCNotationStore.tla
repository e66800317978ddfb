--------------------------- MODULE MCNotationStore ---------------------------
(* What a lock, a limit or a failure may keep waiting: saves of notations,  *)
(* registrations that compete for room in the catalog of a production rail, *)
(* and a worker that reviews requests. None shares a state with another,    *)
(* and each is explored by itself: `part` is chosen at first and says which *)
(* one runs. Saves keep the variables of NotationStore; those of the others *)
(* are v1, v2 and so on, as their INSTANCE says, and None without a part.   *)
EXTENDS NotationStore, TLC

CONSTANTS t1, t2, b1, b2, b3, c1, c2, c3, q1, q2, q3, None

VARIABLES part, v1, v2, v3, v4, v5, v6, v7, v8, v9, v10, v11, v12

slots == <<v1, v2, v3, v4, v5, v6, v7, v8, v9, v10, v11, v12>>
pvars == <<part, vars, slots>>

-----------------------------------------------------------------------------
\* Batches b1 and b3 share command c1: b3 is a draft that was sent once as b1
\* and grew before it was sent again.
MCCommandsOf == b1 :> {c1} @@ b2 :> {c2} @@ b3 :> {c1, c3}

\* ProductionRail: registrations that compete for names and for the room in the
\* catalog, where at first there is none.
Corpus(record, uses) == [kind |-> "CORPUS", record |-> record, uses |-> uses]

Registration(id, name, spec) == [kind |-> "REGISTER", id |-> id, name |-> name, spec |-> spec]

Registrations ==
  {Registration("r1", "carriers", Corpus("Carrier", {"review", "rating"})),
   Registration("r2", "carriers", Corpus("IFCArtifact", {"review"})),
   Registration("r3", "buildings", Corpus("IFCArtifact", {"review"})),
   Registration("r4", "provider", [kind |-> "SOURCE", corpus |-> "carriers", adapter |-> "Carrier",
                                   allows |-> {"INGEST", "DERIVE"} \X {"review"}])}

RailNames == {"carriers", "buildings", "provider"}
NoneRegistered == [n \in {} |-> None]
Decoders == [good |-> "CANDIDATE", rejected |-> "REJECTED", unreadable |-> "UNREADABLE"]

Catalog == INSTANCE ProductionRail WITH
  Commands <- Registrations, Names <- RailNames, Registered <- NoneRegistered, Decoded <- Decoders,
  MaxIntents <- 2, MaxRegistrations <- 1, MayFail <- TRUE, MayCrash <- TRUE, LockRemoval <- {"stale"},
  intents <- v1, runs <- v2, registry <- v3, contents <- v4, made <- v5, lock <- v6, pc <- v7,
  command <- v8, draft <- v9, starts <- v10, told <- v11

\* ReviewWorker: a request, a message the worker skips, and a handoff.
ToReviewer(q, kind, about, c) ==
  [requestId |-> q, authorId |-> "client", recipientId |-> "reviewer", kind |-> kind,
   topic |-> about, text |-> "question", context |-> c, replyTo |-> None]

Posts == [operation : {"post"},
          message : {ToReviewer(q1, "REQUEST", "topic", None),
                     ToReviewer(q2, "REQUEST", "other", "context"),
                     ToReviewer(q3, "HANDOFF", "topic", None)}]

Participants == [dc |-> "client", dr |-> "reviewer"]
Domains == [dc |-> {"domain"}, dr |-> {"domain"}]
ContextDomains == [context |-> "domain"]
Identifiers == {q1, q2, q3} \cup ({"reviewer"} \X (1 .. 5))
EmptyBoard == [definitions |-> {"dc"}, messages |-> << >>, acknowledgements |-> {}]

Reviews == INSTANCE ReviewWorker WITH
  Names <- {"client", "reviewer"}, Definitions <- {"dc", "dr"}, NameOf <- Participants,
  DomainsOf <- Domains, Contexts <- {"context"}, DomainOf <- ContextDomains,
  RequestIds <- Identifiers, Topics <- {"topic", "other"}, Texts <- {"question", "report"},
  MaxDefinitions <- 2, MaxMessages <- 5, Seed <- EmptyBoard, Workers <- {"w"},
  Programs <- {"contract", "candidate build"}, ReviewerDefinition <- "dr", ReviewTopic <- "topic",
  Observations <- {"report"}, ClientCommands <- Posts,
  PageSize <- 1, MaxPages <- 2, Limit <- 2, MaxFailures <- 1,
  board <- v1, inflight <- v2, pc <- v3, sent <- v4, page <- v5, more <- v6, cursor <- v7, pages <- v8,
  results <- v9, known <- v10, failures <- v11, program <- v12

-----------------------------------------------------------------------------
Idle ==
  /\ v1 = None /\ v2 = None /\ v3 = None /\ v4 = None /\ v5 = None /\ v6 = None
  /\ v7 = None /\ v8 = None /\ v9 = None /\ v10 = None /\ v11 = None

PartInit ==
  /\ Init
  /\ \/ part = "saves" /\ Idle /\ v12 = None
     \/ part = "registrations" /\ Catalog!Init /\ v12 = None
     \/ part = "reviews" /\ Reviews!Init

PartNext ==
  /\ UNCHANGED part
  /\ \/ part = "saves" /\ Next /\ UNCHANGED slots
     \/ part = "registrations" /\ Catalog!Next /\ UNCHANGED <<vars, v12>>
     \/ part = "reviews" /\ Reviews!Next /\ UNCHANGED vars

\* The fairness of each part is that of its own FairSpec.
PartSpec ==
  /\ PartInit /\ [][PartNext]_pvars
  /\ \A t \in Tasks : /\ WF_vars(part = "saves" /\ Step(t))
                      /\ WF_(Catalog!vars)(part = "registrations" /\ Catalog!Step(t))
  /\ WF_(Reviews!vars)(part = "reviews" /\ Reviews!Start("w"))
  /\ WF_(Reviews!vars)(part = "reviews" /\ Reviews!Step("w"))
  /\ WF_(Reviews!vars)(part = "reviews" /\ Reviews!Execute(v4["w"]))

-----------------------------------------------------------------------------
\* The catalog also answers when registrations compete for the last name and the
\* last place in it, each of which may be killed or fail.
RegistrationsKeepCatalog == part = "registrations" => Catalog!CatalogAnswers

\* Every call of the rail is answered: no call waits for catalog.lock, and neither
\* a stale lock nor a lost race for the claim keeps it going round.
Called(t) == part = "registrations" /\ ~ Catalog!At(t, "idle")

EveryCallIsAnswered == \A t \in Tasks : []<> ~ Called(t)

\* Every request is answered and acknowledged, when passes are repeated and
\* failures do not go on forever: none waits for ever. (A message never leaves
\* the board, so only its acknowledgement ends the wait.)
Waiting(i) ==
  /\ part = "reviews" /\ i \in DOMAIN v1.messages
  /\ Reviews!Assigned(v1.messages[i])
  /\ <<i, "reviewer">> \notin v1.acknowledgements

EveryRequestIsAnswered == \A i \in 1 .. 5 : []<> ~ Waiting(i)

=============================================================================
