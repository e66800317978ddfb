------------------------- MODULE CoordinationLedger -------------------------
(***************************************************************************)
(* The rules of the agent board, src/coordination/ledger.ts: what each of  *)
(* the three commands refuses and what it changes.  The board is a value;  *)
(* CoordinationStore keeps it in a file and ReviewWorker works on it.      *)
(*                                                                         *)
(* There is one scope: the server binds it and refuses any other.  Message *)
(* n is the message with sequence n, and MSG-n is its identifier.  The     *)
(* title and body of a message are one value, and so is everything in a    *)
(* definition but its identifier and domains.  The codes of refusals are   *)
(* left out: no caller in this repository acts on one.                     *)
(***************************************************************************)
EXTENDS Integers, Sequences, FiniteSets

CONSTANTS
  Names,            \* participant identifiers
  Definitions,      \* participant definitions
  NameOf,           \* the identifier of each definition
  DomainsOf,        \* the domains each definition declares
  Contexts,         \* the release contexts of the corpus
  DomainOf,         \* the domain of each release context
  RequestIds,
  Topics,
  Texts,
  None,             \* no recipient, context or parent message
  Seed,             \* the board before the first command
  MaxDefinitions,   \* 200
  MaxMessages       \* 5000

Kinds == {"NOTE", "REQUEST", "HANDOFF", "BLOCKER", "RESULT"}

MessageNumbers == 1 .. MaxMessages

Drafts == [ requestId : RequestIds, authorId : Names, recipientId : Names \cup {None},
            kind : Kinds, topic : Topics, text : Texts,
            context : Contexts \cup {None}, replyTo : MessageNumbers \cup {None} ]

Boards == [ definitions : SUBSET Definitions, messages : Seq(Drafts),
            acknowledgements : SUBSET (MessageNumbers \X Names) ]

Commands ==
  [operation : {"register"}, participant : Definitions]
    \cup [operation : {"post"}, message : Drafts]
    \cup [operation : {"acknowledge"}, messageId : MessageNumbers, participantId : Names]

ASSUME LedgerAssumption ==
  /\ NameOf \in [Definitions -> Names]
  /\ DomainOf \in [Contexts -> UNION {DomainsOf[d] : d \in Definitions}]
  /\ None \notin Names \cup Contexts \cup MessageNumbers
  /\ MaxDefinitions \in Nat
  /\ MaxMessages \in Nat

-----------------------------------------------------------------------------
Named(b, n) == { d \in b.definitions : NameOf[d] = n }

\* Participant n is registered on board b and may speak about context c.
Registered(b, n) == Named(b, n) # {}

Declares(b, n, c) == c = None \/ \E d \in Named(b, n) : DomainOf[c] \in DomainsOf[d]

\* The messages of the author of m with m's request identifier.
Prior(b, m) == { i \in DOMAIN b.messages :
                   /\ b.messages[i].authorId = m.authorId
                   /\ b.messages[i].requestId = m.requestId }

RegisterRefused(b, d) ==
  /\ d \notin b.definitions
  /\ \/ Registered(b, NameOf[d])
     \/ Cardinality(b.definitions) >= MaxDefinitions

Register(b, d) == [b EXCEPT !.definitions = @ \cup {d}]

\* A reply keeps the context and the topic of its parent.
BreaksThread(b, m) ==
  /\ m.replyTo # None
  /\ \/ m.replyTo \notin DOMAIN b.messages
     \/ b.messages[m.replyTo].context # m.context
     \/ b.messages[m.replyTo].topic # m.topic

PostRefused(b, m) ==
  \/ \E n \in {m.authorId, m.recipientId} \ {None} :
       ~ Registered(b, n) \/ ~ Declares(b, n, m.context)
  \/ m.kind = "HANDOFF" /\ m.recipientId \in {None, m.authorId}
  \/ BreaksThread(b, m)
  \/ IF Prior(b, m) = {} THEN Len(b.messages) >= MaxMessages
                         ELSE \E i \in Prior(b, m) : b.messages[i] # m

\* Mutant: a request identifier is not remembered.
PostAgain(b, m) == [b EXCEPT !.messages = Append(@, m)]

Post(b, m) ==
  IF Prior(b, m) # {} THEN b ELSE [b EXCEPT !.messages = Append(@, m)]

AcknowledgeRefused(b, i, n) ==
  \/ ~ Registered(b, n)
  \/ i \notin DOMAIN b.messages
  \/ b.messages[i].authorId = n
  \/ b.messages[i].recipientId \notin {None, n}
  \/ ~ Declares(b, n, b.messages[i].context)

Acknowledge(b, i, n) == [b EXCEPT !.acknowledgements = @ \cup {<<i, n>>}]

-----------------------------------------------------------------------------
(* applyCommand.                                                           *)

Refused(b, c) ==
  \/ c.operation = "register" /\ RegisterRefused(b, c.participant)
  \/ c.operation = "post" /\ PostRefused(b, c.message)
  \/ c.operation = "acknowledge" /\ AcknowledgeRefused(b, c.messageId, c.participantId)

Applied(b, c) ==
  CASE c.operation = "register" -> Register(b, c.participant)
    [] c.operation = "post" -> Post(b, c.message)
    [] c.operation = "acknowledge" -> Acknowledge(b, c.messageId, c.participantId)

\* Command c is accepted on board b and changes nothing: it has been applied.
InEffect(b, c) == ~ Refused(b, c) /\ Applied(b, c) = b

-----------------------------------------------------------------------------
(* What every reader of a board relies on.                                 *)

OneMessagePerRequest(b) ==
  \A i, j \in DOMAIN b.messages :
    /\ b.messages[i].authorId = b.messages[j].authorId
    /\ b.messages[i].requestId = b.messages[j].requestId
    => i = j

OneDefinitionPerName(b) ==
  \A d, e \in b.definitions : NameOf[d] = NameOf[e] => d = e

RepliesInThread(b) ==
  \A i \in DOMAIN b.messages :
    b.messages[i].replyTo # None =>
      /\ b.messages[i].replyTo \in 1 .. i - 1
      /\ b.messages[b.messages[i].replyTo].context = b.messages[i].context
      /\ b.messages[b.messages[i].replyTo].topic = b.messages[i].topic

ReceiptsOfAddressees(b) ==
  \A a \in b.acknowledgements :
    /\ a[1] \in DOMAIN b.messages
    /\ a[2] # b.messages[a[1]].authorId
    /\ b.messages[a[1]].recipientId \in {None, a[2]}

Coherent(b) ==
  /\ OneMessagePerRequest(b)
  /\ OneDefinitionPerName(b)
  /\ RepliesInThread(b)
  /\ ReceiptsOfAddressees(b)

\* The fixture of seed.ts, which load() replays a log over.
ASSUME SeedAssumption == Seed \in Boards /\ Coherent(Seed)

=============================================================================
