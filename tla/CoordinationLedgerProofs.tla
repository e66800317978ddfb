---------------------- MODULE CoordinationLedgerProofs ----------------------
(***************************************************************************)
(* What the rules of the agent board guarantee for one command, for any    *)
(* participants, messages and limits: an accepted command keeps a board    *)
(* coherent, is in effect afterwards, and leaves every command that was in *)
(* effect before it in effect.                                             *)
(***************************************************************************)
EXTENDS CoordinationLedger, SequenceTheorems, WellFoundedInduction, TLAPS

-----------------------------------------------------------------------------
(* Induction without a predicate parameter: the property is the set of the *)
(* numbers that have it.                                                   *)

LEMMA LeastElement ==
  ASSUME NEW T \in SUBSET Nat, T # {}
  PROVE  \E x \in T : \A y \in T : x <= y
<1> DEFINE Less == {p \in Nat \X Nat : p[1] < p[2]}
<1>1. IsWellFoundedOn(Less, Nat)
  BY NatLessThanWellFounded DEF OpToRel
<1> HIDE DEF Less
<1>2. PICK x \in T : \A y \in T : <<y, x>> \notin Less
  BY <1>1, WFMin
<1>3. ASSUME NEW y \in T PROVE x <= y
  <2> SUFFICES ASSUME y < x PROVE FALSE
    OBVIOUS
  <2> DEFINE p == <<y, x>>
  <2>1. p \in Nat \X Nat /\ p[1] = y /\ p[2] = x
    OBVIOUS
  <2> HIDE DEF p
  <2>2. p \in Less
    BY <2>1 DEF Less
  <2> QED BY <1>2, <2>2 DEF p
<1> QED BY <1>3

\* A set with 0 that is closed under successors up to n has all numbers up to n.
LEMMA CountingUp ==
  ASSUME NEW n \in Nat, NEW T, 0 \in T, \A k \in 0 .. n - 1 : k \in T => k + 1 \in T
  PROVE  \A k \in 0 .. n : k \in T
<1> DEFINE Missing == {k \in 0 .. n : k \notin T}
<1> SUFFICES ASSUME Missing # {} PROVE FALSE
  OBVIOUS
<1>1. Missing \in SUBSET Nat
  OBVIOUS
<1>2. PICK m \in Missing : \A k \in Missing : m <= k
  <2> HIDE DEF Missing
  <2> QED BY <1>1, LeastElement
<1>3. m # 0 /\ m \in 0 .. n /\ m \notin T
  OBVIOUS
<1>4. m - 1 \in 0 .. n - 1 /\ m - 1 \notin Missing
  BY <1>2, <1>3
<1> QED BY <1>3, <1>4

-----------------------------------------------------------------------------
(* Sequences.                                                              *)

LEMMA PrefixOfAppend ==
  ASSUME NEW S, NEW h \in Seq(S), NEW r \in S, NEW n \in 0 .. Len(h)
  PROVE  SubSeq(Append(h, r), 1, n) = SubSeq(h, 1, n)
<1>1. Len(h) \in Nat /\ \A i \in 1 .. Len(h) : h[i] \in S
  BY LenProperties, ElementOfSeq
<1>2. \A i \in 1 .. n : h[i] \in S /\ Append(h, r)[i] = h[i]
  <2> TAKE i \in 1 .. n
  <2>1. i \in 1 .. Len(h)
    BY <1>1
  <2> QED BY <1>1, <2>1, AppendProperties
<1>3. /\ SubSeq(h, 1, n) \in Seq(S)
      /\ Len(SubSeq(h, 1, n)) = IF 1 <= n THEN n - 1 + 1 ELSE 0
      /\ \A i \in 1 .. n - 1 + 1 : SubSeq(h, 1, n)[i] = h[1 + i - 1]
  BY <1>1, <1>2, SubSeqProperties
<1>4. /\ SubSeq(Append(h, r), 1, n) \in Seq(S)
      /\ Len(SubSeq(Append(h, r), 1, n)) = IF 1 <= n THEN n - 1 + 1 ELSE 0
      /\ \A i \in 1 .. n - 1 + 1 : SubSeq(Append(h, r), 1, n)[i] = Append(h, r)[1 + i - 1]
  BY <1>1, <1>2, SubSeqProperties
<1> DEFINE p == SubSeq(h, 1, n)
           q == SubSeq(Append(h, r), 1, n)
<1>5. Len(p) = Len(q) /\ \A i \in 1 .. Len(p) : i \in 1 .. n
  BY <1>1, <1>3, <1>4
<1>6. ASSUME NEW i \in 1 .. n
      PROVE  p[i] = q[i]
  <2>1. i \in 1 .. n - 1 + 1 /\ 1 + i - 1 = i
    BY <1>1
  <2> QED BY <1>2, <1>3, <1>4, <2>1
<1>7. p \in Seq(S) /\ q \in Seq(S)
  BY <1>3, <1>4
<1> HIDE DEF p, q
<1>8. p = q
  BY <1>5, <1>6, <1>7, SeqEqual
<1> QED BY <1>8 DEF p, q

-----------------------------------------------------------------------------
(* Each accepted command makes one of three changes.                       *)

\* The messages of a board after one more.
LEMMA MessagesGrow ==
  ASSUME NEW b \in Boards, NEW m \in Drafts
  PROVE  /\ Len(b.messages) \in Nat
         /\ DOMAIN b.messages = 1 .. Len(b.messages)
         /\ \A i \in DOMAIN b.messages : b.messages[i] \in Drafts
         /\ Append(b.messages, m) \in Seq(Drafts)
         /\ DOMAIN Append(b.messages, m) = 1 .. Len(b.messages) + 1
         /\ \A i \in DOMAIN b.messages : Append(b.messages, m)[i] = b.messages[i]
         /\ Append(b.messages, m)[Len(b.messages) + 1] = m
<1>1. b.messages \in Seq(Drafts)
  BY DEF Boards
<1>2. /\ Len(b.messages) \in Nat
      /\ DOMAIN b.messages = 1 .. Len(b.messages)
      /\ \A i \in DOMAIN b.messages : b.messages[i] \in Drafts
  BY <1>1, LenProperties, ElementOfSeq
<1>3. /\ Append(b.messages, m) \in Seq(Drafts)
      /\ Len(Append(b.messages, m)) = Len(b.messages) + 1
      /\ \A i \in 1 .. Len(b.messages) : Append(b.messages, m)[i] = b.messages[i]
      /\ Append(b.messages, m)[Len(b.messages) + 1] = m
  BY <1>1, AppendProperties
<1>4. DOMAIN Append(b.messages, m) = 1 .. Len(b.messages) + 1
  BY <1>3, LenProperties
<1> QED BY <1>2, <1>3, <1>4

\* What an accepted command leaves of the board: definitions and receipts are
\* only added, messages only appended.
LEMMA BoardGrows ==
  ASSUME NEW b \in Boards, NEW c \in Commands, ~ Refused(b, c)
  PROVE  /\ Applied(b, c) \in Boards
         /\ b.definitions \subseteq Applied(b, c).definitions
         /\ b.acknowledgements \subseteq Applied(b, c).acknowledgements
         /\ DOMAIN b.messages \subseteq DOMAIN Applied(b, c).messages
         /\ \A i \in DOMAIN b.messages : Applied(b, c).messages[i] = b.messages[i]
<1>1. CASE c \in [operation : {"register"}, participant : Definitions]
  <2>1. Applied(b, c) = Register(b, c.participant)
    BY <1>1 DEF Applied
  <2>2. /\ Applied(b, c).definitions = b.definitions \cup {c.participant}
        /\ Applied(b, c).messages = b.messages
        /\ Applied(b, c).acknowledgements = b.acknowledgements
        /\ Applied(b, c) \in Boards
    BY <1>1, <2>1 DEF Register, Boards
  <2> QED BY <2>2
<1>2. CASE c \in [operation : {"post"}, message : Drafts]
  <2>1. Applied(b, c) = Post(b, c.message)
    BY <1>2 DEF Applied
  <2>2. CASE Prior(b, c.message) # {}
    BY <2>1, <2>2 DEF Post
  <2>3. CASE Prior(b, c.message) = {}
    <3>1. Append(b.messages, c.message) \in Seq(Drafts)
      BY <1>2, MessagesGrow
    <3>2. /\ Applied(b, c).definitions = b.definitions
          /\ Applied(b, c).messages = Append(b.messages, c.message)
          /\ Applied(b, c).acknowledgements = b.acknowledgements
          /\ Applied(b, c) \in Boards
      BY <2>1, <2>3, <3>1 DEF Post, Boards
    <3> QED BY <1>2, <3>2, MessagesGrow
  <2> QED BY <2>2, <2>3
<1>3. CASE c \in [operation : {"acknowledge"}, messageId : MessageNumbers, participantId : Names]
  <2>1. Applied(b, c) = Acknowledge(b, c.messageId, c.participantId)
    BY <1>3 DEF Applied
  <2>2. /\ Applied(b, c).definitions = b.definitions
        /\ Applied(b, c).messages = b.messages
        /\ Applied(b, c).acknowledgements
             = b.acknowledgements \cup {<<c.messageId, c.participantId>>}
        /\ Applied(b, c) \in Boards
    BY <1>3, <2>1 DEF Acknowledge, Boards
  <2> QED BY <2>2
<1> QED BY <1>1, <1>2, <1>3 DEF Commands

-----------------------------------------------------------------------------
(* Coherence.                                                              *)

LEMMA RegisterKeepsCoherence ==
  ASSUME NEW b \in Boards, NEW d \in Definitions, Coherent(b), ~ RegisterRefused(b, d)
  PROVE  Coherent(Register(b, d))
<1>1. /\ Register(b, d).definitions = b.definitions \cup {d}
      /\ Register(b, d).messages = b.messages
      /\ Register(b, d).acknowledgements = b.acknowledgements
  BY DEF Register, Boards
<1>2. OneDefinitionPerName(Register(b, d))
  <2> SUFFICES ASSUME NEW e \in b.definitions \cup {d}, NEW f \in b.definitions \cup {d},
                      NameOf[e] = NameOf[f]
               PROVE  e = f
    BY <1>1 DEF OneDefinitionPerName
  <2>1. CASE d \in b.definitions
    BY <2>1 DEF Coherent, OneDefinitionPerName
  <2>2. CASE d \notin b.definitions
    <3>1. Named(b, NameOf[d]) = {}
      BY <2>2 DEF RegisterRefused, Registered
    <3>2. \A g \in b.definitions : NameOf[g] # NameOf[d]
      BY <3>1 DEF Named
    <3> QED BY <3>2 DEF Coherent, OneDefinitionPerName
  <2> QED BY <2>1, <2>2
<1> QED BY <1>1, <1>2 DEF Coherent, OneMessagePerRequest, RepliesInThread, ReceiptsOfAddressees

LEMMA PostKeepsCoherence ==
  ASSUME NEW b \in Boards, NEW m \in Drafts, Coherent(b), ~ PostRefused(b, m)
  PROVE  Coherent(Post(b, m))
<1>1. CASE Prior(b, m) # {}
  BY <1>1 DEF Post
<1>2. CASE Prior(b, m) = {}
  <2> DEFINE n == Len(b.messages) + 1
             messages == Append(b.messages, m)
  <2>1. /\ Post(b, m).definitions = b.definitions
        /\ Post(b, m).messages = messages
        /\ Post(b, m).acknowledgements = b.acknowledgements
    BY <1>2 DEF Post, Boards
  <2>2. /\ n \in Nat
        /\ DOMAIN b.messages = 1 .. n - 1
        /\ DOMAIN messages = 1 .. n
        /\ \A i \in 1 .. n - 1 : messages[i] = b.messages[i]
        /\ messages[n] = m
    BY MessagesGrow
  <2> HIDE DEF messages, n
  <2>3. OneMessagePerRequest(Post(b, m))
    <3>1. \A i \in 1 .. n - 1 : ~ (/\ b.messages[i].authorId = m.authorId
                                 /\ b.messages[i].requestId = m.requestId)
      BY <1>2, <2>2 DEF Prior
    <3> SUFFICES ASSUME NEW i \in 1 .. n, NEW j \in 1 .. n,
                        messages[i].authorId = messages[j].authorId,
                        messages[i].requestId = messages[j].requestId
                 PROVE  i = j
      BY <2>1, <2>2 DEF OneMessagePerRequest
    <3>2. CASE i \in 1 .. n - 1 /\ j \in 1 .. n - 1
      BY <2>2, <3>2 DEF Coherent, OneMessagePerRequest
    <3>3. CASE i = n \/ j = n
      BY <2>2, <3>1, <3>3
    <3> QED BY <2>2, <3>2, <3>3
  <2>4. RepliesInThread(Post(b, m))
    <3> SUFFICES ASSUME NEW i \in 1 .. n, messages[i].replyTo # None
                 PROVE  /\ messages[i].replyTo \in 1 .. i - 1
                        /\ messages[messages[i].replyTo].context = messages[i].context
                        /\ messages[messages[i].replyTo].topic = messages[i].topic
      BY <2>1, <2>2 DEF RepliesInThread
    <3>1. CASE i \in 1 .. n - 1
      <4>1. messages[i] = b.messages[i]
        BY <2>2, <3>1
      <4>2. /\ b.messages[i].replyTo \in 1 .. i - 1
            /\ b.messages[b.messages[i].replyTo].context = b.messages[i].context
            /\ b.messages[b.messages[i].replyTo].topic = b.messages[i].topic
        BY <2>2, <3>1, <4>1 DEF Coherent, RepliesInThread
      <4>3. messages[b.messages[i].replyTo] = b.messages[b.messages[i].replyTo]
        BY <2>2, <3>1, <4>2
      <4> QED BY <4>1, <4>2, <4>3
    <3>2. CASE i = n
      <4>1. messages[i] = m /\ m.replyTo # None
        BY <2>2, <3>2
      <4>2. /\ m.replyTo \in DOMAIN b.messages
            /\ b.messages[m.replyTo].context = m.context
            /\ b.messages[m.replyTo].topic = m.topic
        BY <4>1 DEF PostRefused, BreaksThread
      <4> QED BY <2>2, <3>2, <4>1, <4>2
    <3> QED BY <2>2, <3>1, <3>2
  <2>5. ReceiptsOfAddressees(Post(b, m))
    <3> SUFFICES ASSUME NEW a \in b.acknowledgements
                 PROVE  /\ a[1] \in 1 .. n
                        /\ a[2] # messages[a[1]].authorId
                        /\ messages[a[1]].recipientId \in {None, a[2]}
      BY <2>1, <2>2 DEF ReceiptsOfAddressees
    <3>1. /\ a[1] \in 1 .. n - 1
          /\ a[2] # b.messages[a[1]].authorId
          /\ b.messages[a[1]].recipientId \in {None, a[2]}
      BY <2>2 DEF Coherent, ReceiptsOfAddressees
    <3> QED BY <2>2, <3>1
  <2> QED BY <2>1, <2>3, <2>4, <2>5 DEF Coherent, OneDefinitionPerName
<1> QED BY <1>1, <1>2

LEMMA AcknowledgeKeepsCoherence ==
  ASSUME NEW b \in Boards, NEW i \in MessageNumbers, NEW n \in Names, Coherent(b),
         ~ AcknowledgeRefused(b, i, n)
  PROVE  Coherent(Acknowledge(b, i, n))
<1>1. /\ Acknowledge(b, i, n).definitions = b.definitions
      /\ Acknowledge(b, i, n).messages = b.messages
      /\ Acknowledge(b, i, n).acknowledgements = b.acknowledgements \cup {<<i, n>>}
  BY DEF Acknowledge, Boards
<1>2. /\ i \in DOMAIN b.messages
      /\ n # b.messages[i].authorId
      /\ b.messages[i].recipientId \in {None, n}
  BY DEF AcknowledgeRefused
<1>3. ReceiptsOfAddressees(Acknowledge(b, i, n))
  BY <1>1, <1>2 DEF Coherent, ReceiptsOfAddressees
<1> QED BY <1>1, <1>3 DEF Coherent, OneMessagePerRequest, OneDefinitionPerName, RepliesInThread

\* Message identifiers, an author's request identifiers and participant
\* identifiers each go on naming one thing, replies stay in their thread, and
\* receipts are of the addressee, whatever command applyCommand accepts.
THEOREM CommandsKeepCoherence ==
  ASSUME NEW b \in Boards, NEW c \in Commands, Coherent(b), ~ Refused(b, c)
  PROVE  Coherent(Applied(b, c))
<1>1. CASE c \in [operation : {"register"}, participant : Definitions]
  <2>1. ~ RegisterRefused(b, c.participant) /\ c.participant \in Definitions
    BY <1>1 DEF Refused
  <2>2. Applied(b, c) = Register(b, c.participant)
    BY <1>1 DEF Applied
  <2> QED BY <2>1, <2>2, RegisterKeepsCoherence
<1>2. CASE c \in [operation : {"post"}, message : Drafts]
  <2>1. ~ PostRefused(b, c.message) /\ c.message \in Drafts
    BY <1>2 DEF Refused
  <2>2. Applied(b, c) = Post(b, c.message)
    BY <1>2 DEF Applied
  <2> QED BY <2>1, <2>2, PostKeepsCoherence
<1>3. CASE c \in [operation : {"acknowledge"}, messageId : MessageNumbers, participantId : Names]
  <2>1. /\ ~ AcknowledgeRefused(b, c.messageId, c.participantId)
        /\ c.messageId \in MessageNumbers
        /\ c.participantId \in Names
    BY <1>3 DEF Refused
  <2>2. Applied(b, c) = Acknowledge(b, c.messageId, c.participantId)
    BY <1>3 DEF Applied
  <2> QED BY <2>1, <2>2, AcknowledgeKeepsCoherence
<1> QED BY <1>1, <1>2, <1>3 DEF Commands

-----------------------------------------------------------------------------
(* Effects.                                                                *)

\* Board a is board b after some accepted commands.
Grown(a, b) ==
  /\ b.definitions \subseteq a.definitions
  /\ b.acknowledgements \subseteq a.acknowledgements
  /\ DOMAIN b.messages \subseteq DOMAIN a.messages
  /\ \A i \in DOMAIN b.messages : a.messages[i] = b.messages[i]

LEMMA StandingGrows ==
  ASSUME NEW a, NEW b, Grown(a, b), NEW n, NEW c
  PROVE  /\ Registered(b, n) => Registered(a, n)
         /\ Declares(b, n, c) => Declares(a, n, c)
<1>1. Named(b, n) \subseteq Named(a, n)
  BY DEF Grown, Named
<1> QED BY <1>1 DEF Registered, Declares

\* Nothing but the limit and the use of a request identifier can turn an
\* accepted post into a refused one.
LEMMA PostStaysAccepted ==
  ASSUME NEW a, NEW b, Grown(a, b), NEW m, ~ PostRefused(b, m),
         Prior(a, m) # {}, \A i \in Prior(a, m) : a.messages[i] = m
  PROVE  ~ PostRefused(a, m)
<1>1. \A n \in {m.authorId, m.recipientId} \ {None} :
        Registered(a, n) /\ Declares(a, n, m.context)
  BY StandingGrows DEF PostRefused
<1>2. ~ BreaksThread(a, m)
  <2>1. ~ BreaksThread(b, m)
    BY DEF PostRefused
  <2> QED BY <2>1 DEF BreaksThread, Grown
<1> QED BY <1>1, <1>2 DEF PostRefused

LEMMA AcknowledgeStaysAccepted ==
  ASSUME NEW a, NEW b, Grown(a, b), NEW i, NEW n, ~ AcknowledgeRefused(b, i, n)
  PROVE  ~ AcknowledgeRefused(a, i, n)
<1>1. /\ Registered(b, n)
      /\ i \in DOMAIN b.messages
      /\ ~ (b.messages[i].authorId = n)
      /\ b.messages[i].recipientId \in {None, n}
      /\ Declares(b, n, b.messages[i].context)
  BY DEF AcknowledgeRefused
<1>2. /\ i \in DOMAIN a.messages
      /\ a.messages[i] = b.messages[i]
  BY <1>1 DEF Grown
<1>3. Registered(a, n) /\ Declares(a, n, b.messages[i].context)
  BY <1>1, StandingGrows
<1> QED BY <1>1, <1>2, <1>3 DEF AcknowledgeRefused

\* A post in effect is a message that the board holds under its identifier.
LEMMA PostInEffect ==
  ASSUME NEW b \in Boards, NEW c \in [operation : {"post"}, message : Drafts]
  PROVE  InEffect(b, c) <=> /\ ~ PostRefused(b, c.message)
                            /\ Prior(b, c.message) # {}
<1>1. /\ Applied(b, c) = Post(b, c.message)
      /\ Refused(b, c) <=> PostRefused(b, c.message)
  BY DEF Applied, Refused
<1>2. Post(b, c.message) = b <=> Prior(b, c.message) # {}
  <2>1. CASE Prior(b, c.message) # {}
    BY <2>1 DEF Post
  <2>2. CASE Prior(b, c.message) = {}
    <3>1. Post(b, c.message).messages = Append(b.messages, c.message)
      BY <2>2 DEF Post, Boards
    <3>2. DOMAIN Append(b.messages, c.message) # DOMAIN b.messages
      <4>1. /\ Len(b.messages) \in Nat
            /\ DOMAIN b.messages = 1 .. Len(b.messages)
            /\ DOMAIN Append(b.messages, c.message) = 1 .. Len(b.messages) + 1
        BY MessagesGrow
      <4> QED BY <4>1
    <3> QED BY <2>2, <3>1, <3>2
  <2> QED BY <2>1, <2>2
<1> QED BY <1>1, <1>2 DEF InEffect

\* The earlier messages of a post, after another command.
LEMMA PriorAfterCommand ==
  ASSUME NEW b \in Boards, NEW m \in Drafts, NEW d \in Commands, ~ Refused(b, d),
         Prior(b, m) # {}
  PROVE  /\ Prior(Applied(b, d), m) = Prior(b, m)
         /\ \A i \in Prior(b, m) : Applied(b, d).messages[i] = b.messages[i]
<1>1. \A i \in Prior(b, m) : Applied(b, d).messages[i] = b.messages[i]
  BY BoardGrows DEF Prior
<1>2. CASE Applied(b, d).messages = b.messages
  BY <1>1, <1>2 DEF Prior
<1>3. CASE Applied(b, d).messages # b.messages
  <2>1. /\ d \in [operation : {"post"}, message : Drafts]
        /\ Applied(b, d) = Post(b, d.message)
    <3>1. CASE d \in [operation : {"register"}, participant : Definitions]
      <4>1. Applied(b, d) = Register(b, d.participant)
        BY <3>1 DEF Applied
      <4>2. Applied(b, d).messages = b.messages
        BY <4>1 DEF Register, Boards
      <4> QED BY <1>3, <4>2
    <3>2. CASE d \in [operation : {"acknowledge"}, messageId : MessageNumbers,
                      participantId : Names]
      <4>1. Applied(b, d) = Acknowledge(b, d.messageId, d.participantId)
        BY <3>2 DEF Applied
      <4>2. Applied(b, d).messages = b.messages
        BY <4>1 DEF Acknowledge, Boards
      <4> QED BY <1>3, <4>2
    <3>3. CASE d \in [operation : {"post"}, message : Drafts]
      BY <3>3 DEF Applied
    <3> QED BY <3>1, <3>2, <3>3 DEF Commands
  <2>2. Prior(b, d.message) = {}
    BY <1>3, <2>1 DEF Post
  <2>3. Applied(b, d).messages = Append(b.messages, d.message)
    BY <2>1, <2>2 DEF Post, Boards
  <2>4. ~ (d.message.authorId = m.authorId /\ d.message.requestId = m.requestId)
    BY <2>2 DEF Prior
  <2>5. /\ Len(b.messages) \in Nat
        /\ DOMAIN b.messages = 1 .. Len(b.messages)
        /\ DOMAIN Append(b.messages, d.message) = 1 .. Len(b.messages) + 1
        /\ \A i \in DOMAIN b.messages : Append(b.messages, d.message)[i] = b.messages[i]
        /\ Append(b.messages, d.message)[Len(b.messages) + 1] = d.message
    BY <2>1, MessagesGrow
  <2>6. Prior(Applied(b, d), m) \subseteq Prior(b, m)
    <3> SUFFICES ASSUME NEW i \in Prior(Applied(b, d), m)
                 PROVE  i \in Prior(b, m)
      OBVIOUS
    <3>1. /\ i \in 1 .. Len(b.messages) + 1
          /\ Append(b.messages, d.message)[i].authorId = m.authorId
          /\ Append(b.messages, d.message)[i].requestId = m.requestId
      BY <2>3, <2>5 DEF Prior
    <3>2. i # Len(b.messages) + 1
      BY <2>4, <2>5, <3>1
    <3>3. i \in DOMAIN b.messages
      BY <2>5, <3>1, <3>2
    <3> QED BY <2>5, <3>1, <3>3 DEF Prior
  <2>7. Prior(b, m) \subseteq Prior(Applied(b, d), m)
    BY <1>1, BoardGrows DEF Prior
  <2> QED BY <1>1, <2>6, <2>7
<1> QED BY <1>2, <1>3

\* A client that sends a command again is answered from its first effect: an
\* accepted command is in effect afterwards.
THEOREM CommandTakesEffect ==
  ASSUME NEW b \in Boards, NEW c \in Commands, ~ Refused(b, c)
  PROVE  InEffect(Applied(b, c), c)
<1>1. CASE c \in [operation : {"register"}, participant : Definitions]
  <2>1. \A a : Applied(a, c) = Register(a, c.participant)
    BY <1>1 DEF Applied
  <2>2. /\ Register(b, c.participant) \in Boards
        /\ Register(b, c.participant).definitions = b.definitions \cup {c.participant}
    BY <1>1 DEF Register, Boards
  <2>3. Register(Register(b, c.participant), c.participant) = Register(b, c.participant)
    BY <2>2 DEF Register, Boards
  <2>4. ~ Refused(Register(b, c.participant), c)
    BY <1>1, <2>2 DEF Refused, RegisterRefused
  <2> QED BY <2>1, <2>3, <2>4 DEF InEffect
<1>2. CASE c \in [operation : {"post"}, message : Drafts]
  <2> DEFINE m == c.message
             a == Applied(b, c)
  <2>1. /\ a = Post(b, m)
        /\ ~ PostRefused(b, m)
        /\ m \in Drafts
    BY <1>2 DEF Applied, Refused
  <2>2. a \in Boards /\ Grown(a, b)
    BY BoardGrows DEF Grown
  <2>3. CASE Prior(b, m) # {}
    BY <1>2, <2>1, <2>3, PostInEffect DEF Post
  <2>4. CASE Prior(b, m) = {}
    <3>1. a.messages = Append(b.messages, m)
      BY <2>1, <2>4 DEF Post, Boards
    <3>2. /\ Len(b.messages) \in Nat
          /\ DOMAIN b.messages = 1 .. Len(b.messages)
          /\ DOMAIN Append(b.messages, m) = 1 .. Len(b.messages) + 1
          /\ \A i \in DOMAIN b.messages : Append(b.messages, m)[i] = b.messages[i]
          /\ Append(b.messages, m)[Len(b.messages) + 1] = m
      BY <2>1, MessagesGrow
    <3>3. Len(b.messages) + 1 \in Prior(a, m)
      BY <3>1, <3>2 DEF Prior
    <3>4. ASSUME NEW i \in Prior(a, m) PROVE a.messages[i] = m
      <4>1. /\ i \in 1 .. Len(b.messages) + 1
            /\ Append(b.messages, m)[i].authorId = m.authorId
            /\ Append(b.messages, m)[i].requestId = m.requestId
        BY <3>1, <3>2 DEF Prior
      <4>2. i \notin DOMAIN b.messages
        BY <2>4, <3>2, <4>1 DEF Prior
      <4> QED BY <3>1, <3>2, <4>1, <4>2
    <3> HIDE DEF m, a
    <3>5. ~ PostRefused(a, m)
      BY <2>1, <2>2, <3>3, <3>4, PostStaysAccepted
    <3> QED BY <1>2, <2>2, <3>3, <3>5, PostInEffect DEF m, a
  <2> QED BY <2>3, <2>4
<1>3. CASE c \in [operation : {"acknowledge"}, messageId : MessageNumbers, participantId : Names]
  <2> DEFINE i == c.messageId
             n == c.participantId
  <2>1. \A a : /\ Applied(a, c) = Acknowledge(a, i, n)
               /\ Refused(a, c) <=> AcknowledgeRefused(a, i, n)
    BY <1>3 DEF Applied, Refused
  <2>2. /\ Acknowledge(b, i, n) \in Boards
        /\ Acknowledge(b, i, n).acknowledgements = b.acknowledgements \cup {<<i, n>>}
    BY <1>3 DEF Acknowledge, Boards
  <2>3. Acknowledge(Acknowledge(b, i, n), i, n) = Acknowledge(b, i, n)
    BY <2>2 DEF Acknowledge, Boards
  <2>4. Grown(Acknowledge(b, i, n), b)
    BY <2>1, BoardGrows DEF Grown
  <2> HIDE DEF i, n
  <2>5. ~ AcknowledgeRefused(Acknowledge(b, i, n), i, n)
    BY <2>1, <2>4, AcknowledgeStaysAccepted
  <2> QED BY <2>1, <2>3, <2>5 DEF InEffect
<1> QED BY <1>1, <1>2, <1>3 DEF Commands

\* No command of anybody undoes another: what is in effect stays in effect.
THEOREM EffectsLast ==
  ASSUME NEW b \in Boards, NEW c \in Commands, InEffect(b, c),
         NEW d \in Commands, ~ Refused(b, d)
  PROVE  InEffect(Applied(b, d), c)
<1> DEFINE a == Applied(b, d)
<1>0. a \in Boards /\ Grown(a, b)
  BY BoardGrows DEF Grown
<1> HIDE DEF a
<1>1. CASE c \in [operation : {"register"}, participant : Definitions]
  <2>1. \A e : Applied(e, c) = Register(e, c.participant)
    BY <1>1 DEF Applied
  <2>2. c.participant \in b.definitions
    BY SMTT(30), <1>1, <2>1 DEF InEffect, Register, Boards
  <2>3. c.participant \in a.definitions
    BY <1>0, <2>2 DEF Grown
  <2>4. Register(a, c.participant) = a
    BY <1>0, <2>3 DEF Register, Boards
  <2>5. ~ Refused(a, c)
    BY <1>1, <2>3 DEF Refused, RegisterRefused
  <2> QED BY <2>1, <2>4, <2>5 DEF InEffect, a
<1>2. CASE c \in [operation : {"post"}, message : Drafts]
  <2>1. c.message \in Drafts
    BY <1>2
  <2>2. ~ PostRefused(b, c.message) /\ Prior(b, c.message) # {}
    BY <1>2, PostInEffect
  <2>3. \A i \in Prior(b, c.message) : b.messages[i] = c.message
    BY <2>2 DEF PostRefused
  <2>4. /\ Prior(a, c.message) = Prior(b, c.message)
        /\ \A i \in Prior(b, c.message) : a.messages[i] = b.messages[i]
    BY <2>1, <2>2, PriorAfterCommand DEF a
  <2>5. ~ PostRefused(a, c.message)
    BY <1>0, <2>2, <2>3, <2>4, PostStaysAccepted
  <2> QED BY <1>0, <1>2, <2>2, <2>4, <2>5, PostInEffect DEF a
<1>3. CASE c \in [operation : {"acknowledge"}, messageId : MessageNumbers, participantId : Names]
  <2>1. \A e : /\ Applied(e, c) = Acknowledge(e, c.messageId, c.participantId)
               /\ Refused(e, c) <=> AcknowledgeRefused(e, c.messageId, c.participantId)
    BY <1>3 DEF Applied, Refused
  <2>2. <<c.messageId, c.participantId>> \in b.acknowledgements
    <3>1. Acknowledge(b, c.messageId, c.participantId) = b
      BY <2>1 DEF InEffect
    <3>2. Acknowledge(b, c.messageId, c.participantId).acknowledgements
            = b.acknowledgements \cup {<<c.messageId, c.participantId>>}
      BY DEF Acknowledge, Boards
    <3> QED BY <3>1, <3>2
  <2>3. Acknowledge(a, c.messageId, c.participantId) = a
    BY <1>0, <2>2 DEF Acknowledge, Boards, Grown
  <2>4. ~ AcknowledgeRefused(a, c.messageId, c.participantId)
    BY <1>0, <2>1, AcknowledgeStaysAccepted DEF InEffect
  <2> QED BY <2>1, <2>3, <2>4 DEF InEffect, a
<1> QED BY <1>1, <1>2, <1>3 DEF Commands
=============================================================================
