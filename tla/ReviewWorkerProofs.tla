------------------------- MODULE ReviewWorkerProofs -------------------------
(***************************************************************************)
(* Why the review workers keep their promises, for any number of           *)
(* processes, any participants and messages, and any limits: their types,  *)
(* ReceiptHasResult, OneResult and ScanIsComplete are invariants.          *)
(*                                                                         *)
(* Messages and definitions of the board never change once they are there, *)
(* so what a process knows of them stays true however late its command is  *)
(* executed: that a result is on the board before the receipt of its       *)
(* request is sent, and that a request it has passed over is acknowledged. *)
(***************************************************************************)
EXTENDS ReviewWorker, CoordinationLedgerProofs, FiniteSetTheorems

-----------------------------------------------------------------------------
(* The inductive invariants.                                               *)

Registration == [operation |-> "register", participant |-> ReviewerDefinition]
Receipt(i) == [operation |-> "acknowledge", messageId |-> i, participantId |-> Reviewer]
Result(i, o) == [operation |-> "post", message |-> Draft(board, i, o)]

\* What a process waits for, and what it knows of the message at hand.
Serving(w) ==
  /\ page[w] \subseteq DOMAIN board.messages
  /\ pc[w] \in {"idle", "registering"} => pages[w] = 0
  /\ At(w, "registering") => sent[w] = Registration
  /\ At(w, "listing") => pages[w] < MaxPages
  /\ pc[w] \in {"posting", "reading back", "acknowledging"} =>
       page[w] # {} /\ Assigned(board.messages[Current(w)])
  /\ At(w, "posting") => \E o \in Observations : sent[w] = Result(Current(w), o)
  /\ At(w, "acknowledging") => sent[w] = Receipt(Current(w))

WorkInv ==
  /\ TypeOK
  /\ Coherent(board)
  /\ Len(board.messages) <= MaxMessages
  /\ \A w \in Workers : Serving(w)

\* The result of message i is on the board.
Answered(i) ==
  /\ i \in DOMAIN board.messages
  /\ Assigned(board.messages[i])
  /\ \E k \in DOMAIN board.messages : Binds(board, i, k)

\* No receipt is sent before the result is on the board.
ReceiptInv ==
  /\ \A a \in board.acknowledgements : a[2] = Reviewer => Answered(a[1])
  /\ \A c \in inflight :
       c.operation = "acknowledge" /\ c.participantId = Reviewer => Answered(c.messageId)

\* A result of the reviewer carries the identifier of the request it answers.
IsResult(m) == m.authorId = Reviewer => m.requestId = ResultId(m.replyTo)

ResultInv ==
  /\ \A i \in DOMAIN board.messages : IsResult(board.messages[i])
  /\ \A c \in inflight : c.operation = "post" => IsResult(c.message)

\* A request that was on the board when the pass began, and still is to be
\* answered.
Left(w, i) ==
  /\ i \in Pending(board, 0)
  /\ i <= known[w]
  /\ Assigned(board.messages[i])

\* Such a request is ahead of the process: on its page or on a later one.
Scanning(w) ==
  /\ pc[w] \notin {"idle", "registering"} => ReviewerDefinition \in board.definitions
  /\ known[w] <= Len(board.messages)
  /\ pages[w] = 0 => cursor[w] = 0
  /\ At(w, "listing") => \A i \in MessageNumbers : Left(w, i) => i > cursor[w]
  /\ pc[w] \in {"reviewing", "posting", "reading back", "acknowledging"} =>
       \A i \in MessageNumbers : Left(w, i) => i \in page[w] \/ (more[w] /\ i > cursor[w])

ScanInv == \A w \in Workers : Scanning(w)

-----------------------------------------------------------------------------
(* The inbox.                                                              *)

LEMMA MinIsFirst ==
  ASSUME NEW P \in SUBSET Nat, P # {}
  PROVE  Min(P) \in P /\ \A j \in P : Min(P) <= j
<1>1. \E i \in P : \A j \in P : i <= j
  BY LeastElement
<1> QED BY <1>1 DEF Min

LEMMA MaxIsLast ==
  ASSUME NEW n \in Nat, NEW P \in SUBSET (1 .. n), P # {}
  PROVE  Max(P) \in P /\ \A j \in P : Max(P) >= j
<1> DEFINE Bounds == {u \in Nat : \A j \in P : j <= u}
<1>1. n \in Bounds /\ Bounds \in SUBSET Nat
  OBVIOUS
<1>2. PICK u \in Bounds : \A v \in Bounds : u <= v
  <2> HIDE DEF Bounds
  <2> QED BY <1>1, LeastElement
<1>3. u \in P
  <2> SUFFICES ASSUME u \notin P PROVE FALSE
    OBVIOUS
  <2>1. \A j \in P : j \in 1 .. n /\ j <= u /\ j # u
    BY <1>2
  <2>2. u - 1 \in Nat /\ \A j \in P : j <= u - 1
    <3>1. PICK j \in P : TRUE
      OBVIOUS
    <3> QED BY <1>2, <2>1, <3>1
  <2>3. u - 1 \in Bounds
    BY <2>2
  <2> QED BY <1>2, <2>3
<1>4. \A j \in P : u >= j
  BY <1>2
<1> QED BY <1>3, <1>4 DEF Max

\* The first n messages of a set are a beginning of it.
LEMMA FirstOfIsBeginning ==
  ASSUME NEW k \in Nat, NEW P \in SUBSET (1 .. k), NEW n \in Nat \ {0}
  PROVE  /\ FirstOf(P, n) \subseteq P
         /\ \A i \in P \ FirstOf(P, n) : \A j \in FirstOf(P, n) : j < i
         /\ P # {} => FirstOf(P, n) # {}
<1> DEFINE Before(i) == {j \in P : j < i}
<1>1. \A i \in P : IsFiniteSet(Before(i)) /\ Cardinality(Before(i)) \in Nat
  <2>1. IsFiniteSet(1 .. k)
    BY FS_Interval
  <2> QED BY <2>1, FS_Subset, FS_CardinalityType
<1>2. ASSUME NEW i \in P \ FirstOf(P, n), NEW j \in FirstOf(P, n)
      PROVE  j < i
  <2>1. i \in P /\ j \in P /\ i \in 1 .. k /\ j \in 1 .. k
    BY DEF FirstOf
  <2> SUFFICES ASSUME i <= j PROVE FALSE
    BY <2>1
  <2>2. Before(i) \subseteq Before(j)
    <3> SUFFICES ASSUME NEW m \in P, m < i PROVE m < j
      OBVIOUS
    <3>1. m \in 1 .. k
      OBVIOUS
    <3> QED BY <2>1, <3>1
  <2>3. Cardinality(Before(i)) <= Cardinality(Before(j))
    BY <1>1, <2>1, <2>2, FS_Subset
  <2>4. Cardinality(Before(j)) < n /\ ~ (Cardinality(Before(i)) < n)
    BY <2>1 DEF FirstOf
  <2> QED BY <1>1, <2>1, <2>3, <2>4
<1>3. ASSUME P # {} PROVE FirstOf(P, n) # {}
  <2>1. PICK i \in P : \A j \in P : i <= j
    BY <1>3, LeastElement
  <2>2. Before(i) = {}
    <3> SUFFICES ASSUME NEW m \in P, m < i PROVE FALSE
      OBVIOUS
    <3>1. m \in 1 .. k /\ i \in 1 .. k
      OBVIOUS
    <3> QED BY <2>1, <3>1
  <2>3. Cardinality(Before(i)) < n
    BY <2>2, FS_EmptySet
  <2> QED BY <2>1, <2>3 DEF FirstOf
<1> QED BY <1>2, <1>3 DEF FirstOf

\* A page holds messages that are pending after the cursor, and the next cursor
\* passes over none of the others.
LEMMA InboxLeavesNothingBehind ==
  ASSUME NEW b \in Boards, Len(b.messages) <= MaxMessages, NEW after \in Nat
  PROVE  /\ Inbox(b, after).messages \subseteq Pending(b, after)
         /\ Inbox(b, after).messages \subseteq DOMAIN b.messages
         /\ Inbox(b, after).hasMore \in BOOLEAN
         /\ Inbox(b, after).nextSequence \in 0 .. MaxMessages
         /\ Inbox(b, after).nextSequence # 0 \/ ~ Inbox(b, after).hasMore
         /\ \A i \in Pending(b, after) :
              \/ i \in Inbox(b, after).messages
              \/ Inbox(b, after).hasMore /\ i > Inbox(b, after).nextSequence
<1> DEFINE P == Pending(b, after)
           n == Len(b.messages)
<1>1. n \in Nat /\ DOMAIN b.messages = 1 .. n /\ n <= MaxMessages /\ MaxMessages \in Nat
  BY LenProperties, LedgerAssumption DEF Boards
<1>2. P \in SUBSET (1 .. n)
  BY <1>1 DEF Pending
<1>3. PageSize \in Nat \ {0}
  BY WorkerAssumption
<1> DEFINE first == FirstOf(P, PageSize)
<1>4. /\ Inbox(b, after).messages = first
      /\ Inbox(b, after).hasMore = (first # P)
      /\ Inbox(b, after).nextSequence = IF first # P THEN Max(first) ELSE n
  BY DEF Inbox
<1> HIDE DEF P, n
<1>5. /\ first \subseteq P
      /\ \A i \in P \ first : \A j \in first : j < i
      /\ P # {} => first # {}
  BY <1>1, <1>2, <1>3, FirstOfIsBeginning
<1> HIDE DEF first
<1>6. ASSUME first # P PROVE Max(first) \in first
  BY <1>1, <1>2, <1>5, <1>6, MaxIsLast
<1>7. first # P => Max(first) \in 1 .. n
  BY <1>2, <1>5, <1>6
<1>8. /\ Inbox(b, after).nextSequence \in 0 .. MaxMessages
      /\ Inbox(b, after).nextSequence # 0 \/ ~ Inbox(b, after).hasMore
  <2>1. CASE first # P
    <3>1. Inbox(b, after).nextSequence = Max(first)
      BY <1>4, <2>1
    <3> QED BY <1>1, <1>7, <2>1, <3>1
  <2>2. CASE first = P
    <3>1. Inbox(b, after).nextSequence = n /\ ~ Inbox(b, after).hasMore
      BY <1>4, <2>2
    <3> QED BY <1>1, <3>1
  <2> QED BY <2>1, <2>2
<1>9. \A i \in P : i \in first \/ (first # P /\ i > Max(first))
  <2> SUFFICES ASSUME NEW i \in P \ first PROVE i > Max(first)
    OBVIOUS
  <2>1. i \in 1 .. n /\ Max(first) \in 1 .. n /\ Max(first) < i
    BY <1>2, <1>5, <1>6, <1>7
  <2> QED BY <1>1, <2>1
<1>10. \A i \in P : \/ i \in Inbox(b, after).messages
                    \/ Inbox(b, after).hasMore /\ i > Inbox(b, after).nextSequence
  BY <1>4, <1>9
<1>11. /\ Inbox(b, after).messages \subseteq P
       /\ Inbox(b, after).messages \subseteq DOMAIN b.messages
  BY <1>1, <1>2, <1>4, <1>5
<1>12. P = Pending(b, after)
  BY DEF P
<1> HIDE DEF Inbox
<1> QED BY <1>4, <1>8, <1>10, <1>11, <1>12

-----------------------------------------------------------------------------
(* Commands take effect.                                                   *)

\* What an accepted command adds to a board comes from the command.
LEMMA CommandAdds ==
  ASSUME NEW b \in Boards, NEW c \in Commands, ~ Refused(b, c),
         Len(b.messages) <= MaxMessages
  PROVE  /\ Len(b.messages) <= Len(Applied(b, c).messages)
         /\ Len(Applied(b, c).messages) <= MaxMessages
         /\ \A i \in DOMAIN Applied(b, c).messages :
              \/ i \in DOMAIN b.messages
              \/ c.operation = "post" /\ Applied(b, c).messages[i] = c.message
         /\ \A a \in Applied(b, c).acknowledgements :
              \/ a \in b.acknowledgements
              \/ c.operation = "acknowledge" /\ a = <<c.messageId, c.participantId>>
<1>1. /\ Len(b.messages) \in Nat
      /\ DOMAIN b.messages = 1 .. Len(b.messages)
      /\ MaxMessages \in Nat
  BY LenProperties, LedgerAssumption DEF Boards
<1>2. CASE c \in [operation : {"register"}, participant : Definitions]
  <2>1. Applied(b, c) = Register(b, c.participant)
    BY <1>2 DEF Applied
  <2>2. /\ Applied(b, c).messages = b.messages
        /\ Applied(b, c).acknowledgements = b.acknowledgements
    BY <2>1 DEF Register, Boards
  <2> QED BY <1>1, <2>2
<1>3. CASE c \in [operation : {"acknowledge"}, messageId : MessageNumbers, participantId : Names]
  <2>1. Applied(b, c) = Acknowledge(b, c.messageId, c.participantId)
    BY <1>3 DEF Applied
  <2>2. /\ Applied(b, c).messages = b.messages
        /\ Applied(b, c).acknowledgements
             = b.acknowledgements \cup {<<c.messageId, c.participantId>>}
    BY <2>1 DEF Acknowledge, Boards
  <2> QED BY <1>1, <1>3, <2>2
<1>4. CASE c \in [operation : {"post"}, message : Drafts]
  <2>1. Applied(b, c) = Post(b, c.message) /\ ~ PostRefused(b, c.message)
    BY <1>4 DEF Applied, Refused
  <2>2. CASE Prior(b, c.message) # {}
    BY <1>1, <2>1, <2>2 DEF Post
  <2>3. CASE Prior(b, c.message) = {}
    <3>1. /\ Applied(b, c).messages = Append(b.messages, c.message)
          /\ Applied(b, c).acknowledgements = b.acknowledgements
      BY <2>1, <2>3 DEF Post, Boards
    <3>2. /\ Len(Append(b.messages, c.message)) = Len(b.messages) + 1
          /\ DOMAIN Append(b.messages, c.message) = 1 .. Len(b.messages) + 1
          /\ Append(b.messages, c.message)[Len(b.messages) + 1] = c.message
      <4>1. /\ Append(b.messages, c.message) \in Seq(Drafts)
            /\ DOMAIN Append(b.messages, c.message) = 1 .. Len(b.messages) + 1
            /\ Append(b.messages, c.message)[Len(b.messages) + 1] = c.message
        BY <1>4, MessagesGrow
      <4>2. b.messages \in Seq(Drafts) /\ c.message \in Drafts
        BY <1>4 DEF Boards
      <4> QED BY <4>1, <4>2, AppendProperties
    <3>3. Len(b.messages) < MaxMessages
      BY <1>1, <2>1, <2>3 DEF PostRefused
    <3>4. \A i \in 1 .. Len(b.messages) + 1 :
            i \in DOMAIN b.messages \/ i = Len(b.messages) + 1
      BY <1>1
    <3> QED BY <1>1, <1>4, <3>1, <3>2, <3>3, <3>4
  <2> QED BY <2>2, <2>3
<1> QED BY <1>2, <1>3, <1>4 DEF Commands

\* The board of a step, from the commands in flight or of a client.
BoardStep ==
  /\ inflight' \subseteq inflight
  /\ UNCHANGED <<pc, sent, page, results, scan, failures, program>>
  /\ \/ UNCHANGED board
     \/ \E c \in inflight \cup ClientCommands :
          ~ Refused(board, c) /\ board' = Applied(board, c)

WorkerStep(w) == Start(w) \/ Step(w) \/ Fail(w)

LEMMA StepsAreOfBoardOrWorker ==
  ASSUME [Next]_vars
  PROVE  BoardStep \/ \E w \in Workers : WorkerStep(w)
<1>1. ASSUME NEW c \in inflight, Execute(c) PROVE BoardStep
  BY <1>1 DEF Execute, BoardStep
<1>2. ASSUME NEW c \in ClientCommands, ClientStep(c) PROVE BoardStep
  BY <1>2 DEF ClientStep, BoardStep
<1>3. ASSUME UNCHANGED vars PROVE BoardStep
  BY <1>3 DEF vars, scan, BoardStep
<1> QED BY <1>1, <1>2, <1>3 DEF Next, WorkerStep

\* The board after a step: messages, definitions and receipts are added, each
\* by a command in flight or of a client.
LEMMA BoardOnlyGrows ==
  ASSUME WorkInv, BoardStep
  PROVE  /\ board' \in Boards
         /\ Coherent(board')
         /\ Len(board'.messages) <= MaxMessages
         /\ Len(board.messages) <= Len(board'.messages)
         /\ Grown(board', board)
         /\ \A i \in DOMAIN board'.messages \ DOMAIN board.messages :
              \E c \in inflight \cup ClientCommands :
                c.operation = "post" /\ board'.messages[i] = c.message
         /\ \A a \in board'.acknowledgements \ board.acknowledgements :
              \E c \in inflight \cup ClientCommands :
                c.operation = "acknowledge" /\ a = <<c.messageId, c.participantId>>
<1>1. board \in Boards /\ Coherent(board) /\ Len(board.messages) <= MaxMessages
  BY DEF WorkInv, TypeOK
<1>2. inflight \cup ClientCommands \subseteq Commands
  BY WorkerAssumption DEF WorkInv, TypeOK
<1>3. CASE UNCHANGED board
  <2>1. Len(board.messages) \in Nat
    BY <1>1, LenProperties DEF Boards
  <2> QED BY <1>1, <1>3, <2>1 DEF Grown
<1>4. CASE \E c \in inflight \cup ClientCommands :
             ~ Refused(board, c) /\ board' = Applied(board, c)
  <2>1. PICK c \in inflight \cup ClientCommands :
               ~ Refused(board, c) /\ board' = Applied(board, c)
    BY <1>4
  <2>2. c \in Commands
    BY <1>2
  <2>3. board' \in Boards /\ Grown(board', board) /\ Coherent(board')
    BY <1>1, <2>1, <2>2, BoardGrows, CommandsKeepCoherence DEF Grown
  <2> QED BY <1>1, <2>1, <2>2, <2>3, CommandAdds
<1> QED BY <1>3, <1>4 DEF BoardStep

-----------------------------------------------------------------------------
(* What the invariants say of a board stays true when it grows.            *)

LEMMA BoardFacts ==
  ASSUME WorkInv
  PROVE  /\ board \in Boards
         /\ Len(board.messages) \in Nat
         /\ DOMAIN board.messages = 1 .. Len(board.messages)
         /\ DOMAIN board.messages \subseteq MessageNumbers
         /\ MessageNumbers \subseteq Nat \ {0}
         /\ MaxMessages \in Nat
<1>1. /\ Len(board.messages) \in Nat
      /\ DOMAIN board.messages = 1 .. Len(board.messages)
      /\ MaxMessages \in Nat
      /\ Len(board.messages) <= MaxMessages
      /\ board \in Boards
  BY LenProperties, LedgerAssumption DEF WorkInv, TypeOK, Boards
<1> QED BY <1>1 DEF MessageNumbers

LEMMA CurrentIsOnPage ==
  ASSUME WorkInv, NEW w \in Workers, page[w] # {}
  PROVE  /\ Current(w) \in page[w]
         /\ Current(w) \in DOMAIN board.messages
         /\ Current(w) \in MessageNumbers
<1>1. page[w] \subseteq DOMAIN board.messages
  BY DEF WorkInv, Serving
<1>2. page[w] \in SUBSET Nat
  BY <1>1, BoardFacts
<1>3. Current(w) \in page[w]
  BY <1>2, MinIsFirst DEF Current
<1> QED BY <1>1, <1>3, BoardFacts

LEMMA DraftsStay ==
  ASSUME NEW a \in Boards, NEW b \in Boards, Grown(a, b), NEW i \in DOMAIN b.messages
  PROVE  /\ \A o : Draft(a, i, o) = Draft(b, i, o)
         /\ \A k \in DOMAIN b.messages : Binds(b, i, k) => Binds(a, i, k)
<1>1. a.messages[i] = b.messages[i]
  BY DEF Grown
<1>2. \A o : Draft(a, i, o) = Draft(b, i, o)
  BY <1>1 DEF Draft
<1>3. \A k \in DOMAIN b.messages : a.messages[k] = b.messages[k]
  BY DEF Grown
<1> QED BY <1>2, <1>3 DEF Binds

LEMMA BoardKeepsServing ==
  ASSUME WorkInv, BoardStep, NEW w \in Workers
  PROVE  Serving(w)'
<1>1. /\ board \in Boards /\ board' \in Boards /\ Grown(board', board)
      /\ DOMAIN board.messages \subseteq DOMAIN board'.messages
      /\ \A i \in DOMAIN board.messages : board'.messages[i] = board.messages[i]
  BY BoardFacts, BoardOnlyGrows DEF Grown
<1>2. UNCHANGED <<pc, sent, page, pages, program>>
  BY DEF BoardStep, scan
<1>3. Serving(w)
  BY DEF WorkInv
<1>4. Current(w)' = Current(w)
  BY <1>2 DEF Current
<1>5. (page[w] \subseteq DOMAIN board.messages)'
  BY <1>1, <1>2, <1>3 DEF Serving
<1>6. ASSUME page[w] # {}
      PROVE  /\ Assigned(board.messages[Current(w)])' <=> Assigned(board.messages[Current(w)])
             /\ \A o : Result(Current(w), o)' = Result(Current(w), o)
  <2>1. Current(w) \in DOMAIN board.messages
    BY <1>6, CurrentIsOnPage
  <2>2. board'.messages[Current(w)] = board.messages[Current(w)]
    BY <1>1, <2>1
  <2>3. \A o : Draft(board', Current(w), o) = Draft(board, Current(w), o)
    BY <1>1, <2>1, DraftsStay
  <2> QED BY <1>2, <1>4, <2>2, <2>3 DEF Assigned, Result
<1>7. (At(w, "posting") => \E o \in Observations : sent[w] = Result(Current(w), o))'
  BY <1>2, <1>3, <1>6 DEF Serving, At
<1> QED BY <1>2, <1>3, <1>4, <1>5, <1>6, <1>7 DEF Serving, At

LEMMA AnswersStay ==
  ASSUME WorkInv, [Next]_vars, NEW i, Answered(i)
  PROVE  Answered(i)'
<1>1. CASE BoardStep
  <2>1. /\ board \in Boards /\ board' \in Boards /\ Grown(board', board)
        /\ DOMAIN board.messages \subseteq DOMAIN board'.messages
        /\ board'.messages[i] = board.messages[i]
        /\ program' = program
    BY <1>1, BoardFacts, BoardOnlyGrows DEF Grown, Answered, BoardStep
  <2>2. \A k \in DOMAIN board.messages : Binds(board, i, k) => Binds(board', i, k)
    BY <2>1, DraftsStay DEF Answered
  <2> QED BY <2>1, <2>2 DEF Answered, Assigned
<1>2. CASE \E w \in Workers : WorkerStep(w)
  <2>1. board' = board /\ program' = program
    BY <1>2 DEF WorkerStep, Start, Step, Fail, RegistrationReturns, FetchPage, Skip, Review,
                PostReturns, PostRefusedAsConflict, PostSettles, ReadBack, ReceiptReturns, EndPage
  <2> QED BY <2>1 DEF Answered, Assigned, Binds
<1> QED BY <1>1, <1>2, StepsAreOfBoardOrWorker

-----------------------------------------------------------------------------
(* What a process does to its own variables.                               *)

Places == { "idle", "registering", "listing", "reviewing", "posting",
            "reading back", "acknowledging" }

RowTypes ==
  /\ pc \in [Workers -> Places]
  /\ sent \in [Workers -> Commands \cup {None}]
  /\ page \in [Workers -> SUBSET MessageNumbers]
  /\ more \in [Workers -> BOOLEAN]
  /\ cursor \in [Workers -> 0 .. MaxMessages]
  /\ pages \in [Workers -> 0 .. MaxPages]
  /\ results \in [Workers -> 0 .. Limit - 1]
  /\ known \in [Workers -> 0 .. MaxMessages]

LEMMA TypesOfRows == TypeOK <=> /\ board \in Boards
                                /\ inflight \subseteq Commands
                                /\ RowTypes
                                /\ failures \in 0 .. MaxFailures
                                /\ program \in Programs
  BY DEF TypeOK, RowTypes, Places

LEMMA Limits ==
  /\ MaxPages \in Nat \ {0}
  /\ Limit \in Nat \ {0}
  /\ MaxFailures \in Nat
  /\ MaxMessages \in Nat
  BY WorkerAssumption, LedgerAssumption

LEMMA WorkerCommands ==
  ASSUME WorkInv
  PROVE  /\ Reviewer \in Names
         /\ Registration \in Commands
         /\ \A i \in MessageNumbers : Receipt(i) \in Commands
         /\ \A i \in DOMAIN board.messages, o \in Observations :
              Draft(board, i, o) \in Drafts /\ Result(i, o) \in Commands
<1>1. Reviewer \in Names
  BY WorkerAssumption, LedgerAssumption DEF Reviewer
<1>2. Registration \in Commands
  BY WorkerAssumption DEF Registration, Commands
<1>3. \A i \in MessageNumbers : Receipt(i) \in Commands
  BY <1>1 DEF Receipt, Commands
<1>4. ASSUME NEW i \in DOMAIN board.messages, NEW o \in Observations
      PROVE  Draft(board, i, o) \in Drafts /\ Result(i, o) \in Commands
  <2>1. board.messages \in Seq(Drafts) /\ i \in MessageNumbers
    BY BoardFacts DEF Boards
  <2>2. board.messages[i] \in Drafts
    BY <2>1, BoardFacts, ElementOfSeq
  <2>3. ResultId(i) \in RequestIds /\ o \in Texts
    BY <2>1, WorkerAssumption
  <2>4. Draft(board, i, o) \in Drafts
    BY <1>1, <2>1, <2>2, <2>3 DEF Draft, Drafts, Kinds
  <2> QED BY <2>4 DEF Result, Commands
<1> QED BY <1>1, <1>2, <1>3, <1>4

LEMMA OtherRowsStay ==
  ASSUME TypeOK, NEW w \in Workers, WorkerStep(w), NEW v \in Workers, v # w
  PROVE  UNCHANGED <<pc[v], sent[v], page[v], more[v], cursor[v], pages[v], results[v], known[v]>>
<1>1. RowTypes
  BY TypesOfRows
<1>2. ASSUME NEW place, Goto(w, place) PROVE pc'[v] = pc[v]
  BY <1>1, <1>2 DEF Goto, RowTypes
<1>3. ASSUME NEW c, NEW place, Send(w, c, place) PROVE pc'[v] = pc[v] /\ sent'[v] = sent[v]
  BY <1>1, <1>3, <1>2 DEF Send, RowTypes
<1>4. ASSUME EndPass(w)
      PROVE  UNCHANGED <<pc[v], sent[v], page[v], more[v], cursor[v], pages[v], results[v], known[v]>>
  BY <1>1, <1>2, <1>4 DEF EndPass, RowTypes
<1>5. ASSUME SendReceipt(w) \/ SendResult(w) PROVE pc'[v] = pc[v] /\ sent'[v] = sent[v]
  BY <1>3, <1>5 DEF SendReceipt, SendResult
<1>6. ASSUME UseSaved(w)
      PROVE  UNCHANGED <<pc[v], sent[v], page[v], more[v], cursor[v], pages[v], results[v], known[v]>>
  BY <1>4, <1>5, <1>6 DEF UseSaved, scan
<1>7. CASE Start(w)
  BY <1>3, <1>7 DEF Start, scan
<1>8. CASE Fail(w)
  BY <1>4, <1>8 DEF Fail
<1>9. CASE Step(w)
  <2>1. CASE RegistrationReturns(w)
    BY <1>2, <2>1 DEF RegistrationReturns, scan
  <2>2. CASE FetchPage(w)
    BY <1>1, <1>2, <2>2 DEF FetchPage, RowTypes
  <2>3. CASE Skip(w)
    BY <1>1, <2>3 DEF Skip, RowTypes, scan
  <2>4. CASE Review(w)
    BY <1>5, <1>6, <2>4 DEF Review, scan
  <2>5. CASE PostReturns(w)
    BY <1>5, <2>5 DEF PostReturns, scan
  <2>6. CASE PostRefusedAsConflict(w)
    BY <1>4, <2>6 DEF PostRefusedAsConflict
  <2>7. CASE PostSettles(w)
    BY <1>2, <2>7 DEF PostSettles, scan
  <2>8. CASE ReadBack(w)
    BY <1>4, <1>6, <2>8 DEF ReadBack
  <2>9. CASE ReceiptReturns(w)
    BY <1>1, <1>2, <1>4, <2>9 DEF ReceiptReturns, RowTypes, scan
  <2>10. CASE EndPage(w)
    BY <1>2, <1>4, <2>10 DEF EndPage, scan
  <2> QED BY <1>9, <2>1, <2>2, <2>3, <2>4, <2>5, <2>6, <2>7, <2>8, <2>9, <2>10 DEF Step
<1> QED BY <1>7, <1>8, <1>9 DEF WorkerStep

LEMMA GotoTypes ==
  ASSUME RowTypes, NEW w \in Workers, NEW place \in Places, Goto(w, place)
  PROVE  pc' \in [Workers -> Places] /\ pc'[w] = place
  BY DEF RowTypes, Goto

LEMMA SendTypes ==
  ASSUME RowTypes, NEW w \in Workers, NEW c \in Commands, NEW place \in Places, Send(w, c, place)
  PROVE  /\ pc' \in [Workers -> Places] /\ pc'[w] = place
         /\ sent' \in [Workers -> Commands \cup {None}] /\ sent'[w] = c
         /\ inflight' = inflight \cup {c}
  BY GotoTypes DEF RowTypes, Send

LEMMA EndPassTypes ==
  ASSUME RowTypes, NEW w \in Workers, EndPass(w)
  PROVE  /\ RowTypes'
         /\ pc'[w] = "idle" /\ page'[w] = {} /\ cursor'[w] = 0 /\ pages'[w] = 0 /\ known'[w] = 0
<1>1. pc' \in [Workers -> Places] /\ pc'[w] = "idle"
  BY GotoTypes DEF EndPass, Places
<1>2. /\ MaxMessages \in Nat /\ MaxPages \in Nat /\ Limit \in Nat \ {0}
      /\ 0 \in 0 .. MaxMessages /\ 0 \in 0 .. MaxPages /\ 0 \in 0 .. Limit - 1
  BY Limits
<1>3. /\ sent' \in [Workers -> Commands \cup {None}]
      /\ page' \in [Workers -> SUBSET MessageNumbers] /\ page'[w] = {}
      /\ more' \in [Workers -> BOOLEAN]
  BY DEF EndPass, RowTypes
<1>4. /\ cursor' \in [Workers -> 0 .. MaxMessages] /\ cursor'[w] = 0
      /\ pages' \in [Workers -> 0 .. MaxPages] /\ pages'[w] = 0
      /\ results' \in [Workers -> 0 .. Limit - 1]
      /\ known' \in [Workers -> 0 .. MaxMessages] /\ known'[w] = 0
  BY <1>2 DEF EndPass, RowTypes
<1> QED BY <1>1, <1>3, <1>4 DEF RowTypes

LEMMA SendReceiptTypes ==
  ASSUME WorkInv, NEW w \in Workers, page[w] # {}, SendReceipt(w)
  PROVE  /\ pc' \in [Workers -> Places] /\ pc'[w] = "acknowledging"
         /\ sent' \in [Workers -> Commands \cup {None}] /\ sent'[w] = Receipt(Current(w))
         /\ inflight' = inflight \cup {Receipt(Current(w))}
         /\ inflight' \subseteq Commands
<1>1. RowTypes /\ inflight \subseteq Commands
  BY TypesOfRows DEF WorkInv
<1>2. Receipt(Current(w)) \in Commands
  BY CurrentIsOnPage, WorkerCommands
<1>3. Send(w, Receipt(Current(w)), "acknowledging")
  BY DEF SendReceipt, Receipt
<1> QED BY <1>1, <1>2, <1>3, SendTypes DEF Places

LEMMA SendResultTypes ==
  ASSUME WorkInv, NEW w \in Workers, page[w] # {}, SendResult(w)
  PROVE  /\ pc' \in [Workers -> Places] /\ pc'[w] = "posting"
         /\ sent' \in [Workers -> Commands \cup {None}]
         /\ inflight' \subseteq Commands
         /\ \E o \in Observations : /\ sent'[w] = Result(Current(w), o)
                                    /\ inflight' = inflight \cup {Result(Current(w), o)}
<1>1. RowTypes /\ inflight \subseteq Commands
  BY TypesOfRows DEF WorkInv
<1>2. PICK o \in Observations : Send(w, Result(Current(w), o), "posting")
  BY DEF SendResult, Result
<1>3. Result(Current(w), o) \in Commands
  BY CurrentIsOnPage, WorkerCommands
<1> QED BY <1>1, <1>2, <1>3, SendTypes DEF Places

LEMMA WorkerStepsLeaveBoard ==
  ASSUME NEW w \in Workers, WorkerStep(w)
  PROVE  UNCHANGED <<board, program>>
  BY DEF WorkerStep, Start, Step, Fail, RegistrationReturns, FetchPage, Skip, Review, PostReturns,
         PostRefusedAsConflict, PostSettles, ReadBack, ReceiptReturns, EndPage

LEMMA WorkerKeepsServing ==
  ASSUME WorkInv, NEW w \in Workers, WorkerStep(w)
  PROVE  TypeOK' /\ Serving(w)'
<1>1. /\ RowTypes /\ inflight \subseteq Commands /\ failures \in 0 .. MaxFailures
      /\ board' \in Boards /\ program' \in Programs
  BY TypesOfRows, WorkerStepsLeaveBoard DEF WorkInv
<1>2. /\ board' = board /\ program' = program
      /\ \A i, o : Result(i, o)' = Result(i, o)
      /\ \A i : Assigned(board.messages[i])' <=> Assigned(board.messages[i])
  BY WorkerStepsLeaveBoard DEF Result, Assigned
<1>3. /\ page[w] \subseteq DOMAIN board.messages
      /\ page[w] # {} => Current(w) \in page[w]
  BY CurrentIsOnPage DEF WorkInv, Serving
<1>4. Serving(w)
  BY DEF WorkInv
<1>5. SUFFICES /\ RowTypes' /\ inflight' \subseteq Commands /\ failures' \in 0 .. MaxFailures
               /\ Serving(w)'
  BY <1>1, TypesOfRows DEF TypeOK, RowTypes, Places
<1>6. ASSUME page'[w] = page[w]
      PROVE  Current(w)' = Current(w)
  BY <1>6 DEF Current
<1>7. ASSUME EndPass(w), inflight' = inflight, failures' \in 0 .. MaxFailures
      PROVE  /\ RowTypes' /\ inflight' \subseteq Commands /\ failures' \in 0 .. MaxFailures
             /\ Serving(w)'
  BY <1>1, <1>7, EndPassTypes DEF Serving, At
<1>8. ASSUME page[w] # {}, Assigned(board.messages[Current(w)]), SendReceipt(w),
             UNCHANGED <<page, results, scan, failures>>
      PROVE  /\ RowTypes' /\ inflight' \subseteq Commands /\ failures' \in 0 .. MaxFailures
             /\ Serving(w)'
  <2>1. /\ pc' \in [Workers -> Places] /\ pc'[w] = "acknowledging"
        /\ sent' \in [Workers -> Commands \cup {None}] /\ sent'[w] = Receipt(Current(w))
        /\ inflight' \subseteq Commands
    BY <1>8, SendReceiptTypes
  <2>2. RowTypes'
    BY <1>1, <1>8, <2>1 DEF RowTypes, scan
  <2> QED BY <1>1, <1>2, <1>3, <1>6, <1>8, <2>1, <2>2 DEF Serving, At
<1>9. ASSUME page[w] # {}, Assigned(board.messages[Current(w)]), UseSaved(w), UNCHANGED failures
      PROVE  /\ RowTypes' /\ inflight' \subseteq Commands /\ failures' \in 0 .. MaxFailures
             /\ Serving(w)'
  BY <1>1, <1>7, <1>8, <1>9 DEF UseSaved
<1>10. CASE Start(w)
  <2>1. Registration \in Commands /\ Send(w, Registration, "registering")
    BY <1>10, WorkerCommands DEF Start, Registration
  <2>2. /\ pc' \in [Workers -> Places] /\ pc'[w] = "registering"
        /\ sent' \in [Workers -> Commands \cup {None}] /\ sent'[w] = Registration
        /\ inflight' \subseteq Commands
    BY <1>1, <2>1, SendTypes DEF Places
  <2>3. RowTypes' /\ page' = page /\ pages' = pages /\ failures' = failures
    BY <1>1, <1>10, <2>2 DEF Start, RowTypes, scan
  <2>4. pages'[w] = 0
    BY <1>4, <1>10, <2>3 DEF Start, Serving, At
  <2> QED BY <1>1, <1>2, <1>3, <2>2, <2>3, <2>4 DEF Serving, At
<1>11. CASE Fail(w)
  <2>1. failures' \in 0 .. MaxFailures
    BY <1>1, <1>11, Limits DEF Fail
  <2> QED BY <1>7, <1>11, <2>1 DEF Fail
<1>12. CASE RegistrationReturns(w)
  <2>1. pc' \in [Workers -> Places] /\ pc'[w] = "listing"
    BY <1>1, <1>12, GotoTypes DEF RegistrationReturns, Places
  <2>2. RowTypes' /\ UNCHANGED <<inflight, sent, page, pages, failures>>
    BY <1>1, <1>12, <2>1 DEF RegistrationReturns, RowTypes, scan
  <2>3. pages[w] < MaxPages
    BY <1>4, <1>12, Limits DEF RegistrationReturns, Serving, At
  <2> QED BY <1>1, <1>2, <1>3, <2>1, <2>2, <2>3 DEF Serving, At
<1>13. CASE FetchPage(w)
  <2> DEFINE inbox == Inbox(board, cursor[w])
  <2>1. /\ cursor[w] \in Nat
        /\ Len(board.messages) <= MaxMessages
    BY <1>1, Limits DEF RowTypes, WorkInv
  <2>2. /\ inbox.messages \subseteq DOMAIN board.messages
        /\ inbox.hasMore \in BOOLEAN
        /\ inbox.nextSequence \in 0 .. MaxMessages
    BY <2>1, BoardFacts, InboxLeavesNothingBehind
  <2>3. /\ page' = [page EXCEPT ![w] = inbox.messages]
        /\ more' = [more EXCEPT ![w] = inbox.hasMore]
        /\ cursor' = [cursor EXCEPT ![w] = inbox.nextSequence]
    BY <1>13 DEF FetchPage
  <2> HIDE DEF inbox
  <2>4. pc' \in [Workers -> Places] /\ pc'[w] = "reviewing"
    BY <1>1, <1>13, GotoTypes DEF FetchPage, Places
  <2>5. /\ page' \in [Workers -> SUBSET MessageNumbers]
        /\ page'[w] = inbox.messages
        /\ more' \in [Workers -> BOOLEAN]
        /\ cursor' \in [Workers -> 0 .. MaxMessages]
    BY <1>1, <2>2, <2>3, BoardFacts DEF RowTypes
  <2>6. pages' \in [Workers -> 0 .. MaxPages]
    <3>1. pages[w] \in 0 .. MaxPages /\ pages[w] < MaxPages
      BY <1>1, <1>4, <1>13 DEF FetchPage, Serving, RowTypes
    <3>2. pages[w] + 1 \in 0 .. MaxPages
      BY <3>1, Limits
    <3>3. pages' = [pages EXCEPT ![w] = pages[w] + 1]
      BY <1>13 DEF FetchPage
    <3> QED BY <1>1, <3>2, <3>3 DEF RowTypes
  <2>7. known' \in [Workers -> 0 .. MaxMessages]
    <3>1. Len(board.messages) \in 0 .. MaxMessages
      BY <2>1, BoardFacts
    <3> QED BY <1>1, <1>13, <3>1 DEF FetchPage, RowTypes
  <2>8. UNCHANGED <<sent, results, inflight, failures>>
    BY <1>13 DEF FetchPage
  <2>9. RowTypes'
    BY <1>1, <2>4, <2>5, <2>6, <2>7, <2>8 DEF RowTypes
  <2> QED BY <1>1, <1>2, <2>2, <2>4, <2>5, <2>8, <2>9 DEF Serving, At
<1>14. CASE Skip(w)
  <2>1. UNCHANGED <<pc, sent, results, scan, inflight, failures>> /\ At(w, "reviewing")
    BY <1>14 DEF Skip, Reviewing
  <2>2. /\ page' = [page EXCEPT ![w] = page[w] \ {Current(w)}]
        /\ page' \in [Workers -> SUBSET MessageNumbers]
        /\ page'[w] \subseteq page[w]
    BY <1>1, <1>14 DEF Skip, RowTypes
  <2>3. RowTypes'
    BY <1>1, <2>1, <2>2 DEF RowTypes, scan
  <2> QED BY <1>1, <1>2, <1>3, <2>1, <2>2, <2>3 DEF Serving, At
<1>15. CASE Review(w)
  <2>1. page[w] # {} /\ Assigned(board.messages[Current(w)]) /\ failures' = failures
    BY <1>15 DEF Review, Reviewing
  <2>2. CASE UseSaved(w)
    BY <1>9, <2>1, <2>2
  <2>3. CASE SendResult(w) /\ UNCHANGED <<page, results, scan>>
    <3>1. /\ pc' \in [Workers -> Places] /\ pc'[w] = "posting"
          /\ sent' \in [Workers -> Commands \cup {None}]
          /\ inflight' \subseteq Commands
          /\ \E o \in Observations : sent'[w] = Result(Current(w), o)
      BY <2>1, <2>3, SendResultTypes
    <3>2. RowTypes'
      BY <1>1, <2>3, <3>1 DEF RowTypes, scan
    <3>3. \E o \in Observations : sent'[w] = Result(Current(w), o)'
      BY <1>2, <1>6, <2>3, <3>1 DEF Result
    <3> QED BY <1>1, <1>2, <1>3, <1>6, <2>1, <2>3, <3>1, <3>2, <3>3 DEF Serving, At
  <2> QED BY <1>15, <2>2, <2>3 DEF Review
<1>16. CASE PostReturns(w)
  BY <1>4, <1>8, <1>16 DEF PostReturns, Serving, At
<1>17. CASE PostRefusedAsConflict(w)
  BY <1>1, <1>7, <1>17 DEF PostRefusedAsConflict
<1>18. CASE PostSettles(w)
  <2>1. page[w] # {} /\ Assigned(board.messages[Current(w)])
    BY <1>4, <1>18 DEF PostSettles, Serving, At
  <2>2. pc' \in [Workers -> Places] /\ pc'[w] = "reading back"
    BY <1>1, <1>18, GotoTypes DEF PostSettles, Places
  <2>3. UNCHANGED <<sent, page, results, scan, inflight>>
    BY <1>18 DEF PostSettles
  <2>4. failures' \in 0 .. MaxFailures
    <3>1. failures' = failures \/ (failures < MaxFailures /\ failures' = failures + 1)
      BY <1>18 DEF PostSettles
    <3> QED BY <1>1, <3>1, Limits
  <2>5. RowTypes'
    BY <1>1, <2>2, <2>3 DEF RowTypes, scan
  <2> QED BY <1>1, <1>2, <1>3, <1>6, <2>1, <2>2, <2>3, <2>4, <2>5 DEF Serving, At
<1>19. CASE ReadBack(w)
  <2>1. page[w] # {} /\ Assigned(board.messages[Current(w)]) /\ failures' = failures
    BY <1>4, <1>19 DEF ReadBack, Serving, At
  <2> QED BY <1>1, <1>7, <1>9, <1>19, <2>1 DEF ReadBack
<1>20. CASE ReceiptReturns(w)
  <2>1. inflight' = inflight /\ failures' = failures
    BY <1>20 DEF ReceiptReturns
  <2>2. CASE results[w] + 1 >= Limit
    BY <1>1, <1>7, <1>20, <2>1, <2>2 DEF ReceiptReturns
  <2>3. CASE ~ (results[w] + 1 >= Limit)
    <3>1. /\ Goto(w, "reviewing")
          /\ page' = [page EXCEPT ![w] = page[w] \ {Current(w)}]
          /\ results' = [results EXCEPT ![w] = results[w] + 1]
          /\ UNCHANGED <<sent, scan>>
      BY <1>20, <2>3 DEF ReceiptReturns
    <3>2. pc' \in [Workers -> Places] /\ pc'[w] = "reviewing"
      BY <1>1, <3>1, GotoTypes DEF Places
    <3>3. page' \in [Workers -> SUBSET MessageNumbers] /\ page'[w] \subseteq page[w]
      BY <1>1, <3>1 DEF RowTypes
    <3>4. results[w] + 1 \in 0 .. Limit - 1
      BY <1>1, <2>3, Limits DEF RowTypes
    <3>5. results' \in [Workers -> 0 .. Limit - 1]
      BY <1>1, <3>1, <3>4 DEF RowTypes
    <3>6. RowTypes'
      BY <1>1, <3>1, <3>2, <3>3, <3>5 DEF RowTypes, scan
    <3> QED BY <1>1, <1>2, <1>3, <2>1, <3>2, <3>3, <3>6 DEF Serving, At
  <2> QED BY <2>2, <2>3
<1>21. CASE EndPage(w)
  <2>1. inflight' = inflight /\ failures' = failures
    BY <1>21 DEF EndPage
  <2>2. CASE more[w] /\ pages[w] < MaxPages
    <3>1. Goto(w, "listing") /\ UNCHANGED <<sent, page, results, scan>>
      BY <1>21, <2>2 DEF EndPage
    <3>2. pc' \in [Workers -> Places] /\ pc'[w] = "listing"
      BY <1>1, <3>1, GotoTypes DEF Places
    <3>3. RowTypes'
      BY <1>1, <3>1, <3>2 DEF RowTypes, scan
    <3> QED BY <1>1, <1>2, <1>3, <2>1, <2>2, <3>1, <3>2, <3>3 DEF Serving, At, scan
  <2>3. CASE ~ (more[w] /\ pages[w] < MaxPages)
    BY <1>1, <1>7, <1>21, <2>1, <2>3 DEF EndPage
  <2> QED BY <2>2, <2>3
<1> QED BY <1>10, <1>11, <1>12, <1>13, <1>14, <1>15, <1>16, <1>17, <1>18, <1>19, <1>20, <1>21
        DEF WorkerStep, Step

-----------------------------------------------------------------------------
(* Types, and what each process knows.                                     *)

LEMMA InitWork == Init => WorkInv
<1> SUFFICES ASSUME Init PROVE WorkInv
  OBVIOUS
<1>1. /\ board \in Boards /\ Coherent(board) /\ Len(board.messages) <= MaxMessages
  BY SeedAssumption, WorkerAssumption DEF Init
<1>2. /\ 0 \in 0 .. MaxMessages /\ 0 \in 0 .. MaxPages /\ 0 \in 0 .. Limit - 1
      /\ 0 \in 0 .. MaxFailures
  BY Limits
<1>3. RowTypes
  BY <1>2 DEF Init, RowTypes, Places
<1>4. TypeOK
  BY <1>1, <1>2, <1>3, TypesOfRows DEF Init
<1>5. \A w \in Workers : Serving(w)
  BY DEF Init, Serving, At
<1> QED BY <1>1, <1>4, <1>5 DEF WorkInv

LEMMA WorkInvInductive == WorkInv /\ [Next]_vars => WorkInv'
<1> SUFFICES ASSUME WorkInv, [Next]_vars PROVE WorkInv'
  OBVIOUS
<1>1. CASE BoardStep
  <2>1. /\ board' \in Boards /\ Coherent(board') /\ Len(board'.messages) <= MaxMessages
    BY <1>1, BoardOnlyGrows
  <2>2. inflight' \subseteq inflight
        /\ UNCHANGED <<pc, sent, page, results, more, cursor, pages, known, failures, program>>
    BY <1>1 DEF BoardStep, scan
  <2>3. TypeOK'
    BY <2>1, <2>2 DEF WorkInv, TypeOK
  <2>4. \A w \in Workers : Serving(w)'
    BY <1>1, BoardKeepsServing
  <2> QED BY <2>1, <2>3, <2>4 DEF WorkInv
<1>2. ASSUME NEW w \in Workers, WorkerStep(w) PROVE WorkInv'
  <2>1. board' = board /\ program' = program
    BY <1>2, WorkerStepsLeaveBoard
  <2>2. TypeOK' /\ Serving(w)'
    BY <1>2, WorkerKeepsServing
  <2>3. ASSUME NEW v \in Workers, v # w PROVE Serving(v)'
    <3>1. UNCHANGED <<pc[v], sent[v], page[v], pages[v]>>
      BY <1>2, <2>3, OtherRowsStay DEF WorkInv
    <3>2. Serving(v) /\ Current(v)' = Current(v)
      BY <3>1 DEF WorkInv, Current
    <3>3. \A o : Result(Current(v), o)' = Result(Current(v), o)
      BY <2>1, <3>2 DEF Result
    <3>4. Assigned(board.messages[Current(v)])' <=> Assigned(board.messages[Current(v)])
      BY <2>1, <3>2 DEF Assigned
    <3> QED BY <2>1, <3>1, <3>2, <3>3, <3>4 DEF Serving, At
  <2> QED BY <2>1, <2>2, <2>3 DEF WorkInv
<1> QED BY <1>1, <1>2, StepsAreOfBoardOrWorker

\* The workers' variables keep their types, and the board never exceeds its
\* limits, in every behaviour.
THEOREM WorkersTypeCorrect == Spec => []TypeOK
<1>1. WorkInv => TypeOK
  BY DEF WorkInv
<1> QED BY InitWork, WorkInvInductive, <1>1, PTL DEF Spec

-----------------------------------------------------------------------------
(* A receipt has its result.                                               *)

\* A result in effect is on the board.
LEMMA ResultInEffect ==
  ASSUME WorkInv, NEW i \in DOMAIN board.messages, NEW o \in Observations,
         InEffect(board, Result(i, o)), Assigned(board.messages[i])
  PROVE  Answered(i)
<1>1. Draft(board, i, o) \in Drafts
  BY WorkerCommands
<1>2. Result(i, o) \in [operation : {"post"}, message : Drafts] /\ Result(i, o).message = Draft(board, i, o)
  BY <1>1 DEF Result
<1>3. /\ ~ PostRefused(board, Draft(board, i, o))
      /\ Prior(board, Draft(board, i, o)) # {}
  BY <1>2, BoardFacts, PostInEffect
<1>4. PICK k \in Prior(board, Draft(board, i, o)) : TRUE
  BY <1>3
<1>5. board.messages[k] = Draft(board, i, o)
  BY <1>3, <1>4 DEF PostRefused
<1>6. k \in DOMAIN board.messages
  BY <1>4 DEF Prior
<1> QED BY <1>5, <1>6 DEF Answered, Binds

\* What a step of a process puts in flight.
LEMMA WhatWorkersSend ==
  ASSUME WorkInv, NEW w \in Workers, WorkerStep(w), NEW c \in inflight' \ inflight
  PROVE  \/ c = Registration
         \/ page[w] # {} /\ \E o \in Observations : c = Result(Current(w), o)
         \/ c = Receipt(Current(w)) /\ Answered(Current(w))
<1>1. RowTypes /\ Serving(w)
  BY TypesOfRows DEF WorkInv
<1>2. ASSUME page[w] # {}, Assigned(board.messages[Current(w)]), UseSaved(w)
      PROVE  c = Receipt(Current(w)) /\ Answered(Current(w))
  <2>1. /\ Saved(board, Current(w)) # {}
        /\ \A k \in Saved(board, Current(w)) : Binds(board, Current(w), k)
        /\ SendReceipt(w)
    BY <1>2 DEF UseSaved
  <2>2. \E k \in DOMAIN board.messages : Binds(board, Current(w), k)
    BY <2>1 DEF Saved
  <2> QED BY <1>2, <2>1, <2>2, CurrentIsOnPage, SendReceiptTypes DEF Answered
<1>3. CASE Start(w)
  <2>1. Send(w, Registration, "registering")
    BY <1>3 DEF Start, Registration
  <2> QED BY <2>1 DEF Send
<1>4. CASE Review(w)
  <2>1. page[w] # {} /\ Assigned(board.messages[Current(w)])
    BY <1>4 DEF Review, Reviewing
  <2>2. CASE UseSaved(w)
    BY <1>2, <2>1, <2>2
  <2>3. CASE SendResult(w)
    BY <2>1, <2>3, SendResultTypes
  <2> QED BY <1>4, <2>2, <2>3 DEF Review
<1>5. CASE PostReturns(w)
  <2>1. At(w, "posting") /\ InEffect(board, sent[w]) /\ SendReceipt(w)
    BY <1>5 DEF PostReturns, Returns
  <2>2. page[w] # {} /\ Assigned(board.messages[Current(w)])
    BY <1>1, <2>1 DEF Serving, At
  <2>3. PICK o \in Observations : sent[w] = Result(Current(w), o)
    BY <1>1, <2>1 DEF Serving
  <2>4. Answered(Current(w))
    <3>1. InEffect(board, Result(Current(w), o)) /\ Current(w) \in DOMAIN board.messages
      BY <2>1, <2>2, <2>3, CurrentIsOnPage
    <3> QED BY <2>2, <3>1, ResultInEffect
  <2> QED BY <2>1, <2>2, <2>4, SendReceiptTypes
<1>6. CASE ReadBack(w)
  <2>1. page[w] # {} /\ Assigned(board.messages[Current(w)])
    BY <1>1, <1>6 DEF ReadBack, Serving, At
  <2> QED BY <1>2, <1>6, <2>1 DEF ReadBack
<1> QED BY <1>3, <1>4, <1>5, <1>6
        DEF WorkerStep, Step, Fail, RegistrationReturns, FetchPage, Skip, PostRefusedAsConflict,
            PostSettles, ReceiptReturns, EndPage

LEMMA ReceiptInvInductive == WorkInv /\ ReceiptInv /\ [Next]_vars => ReceiptInv'
<1> SUFFICES ASSUME WorkInv, ReceiptInv, [Next]_vars PROVE ReceiptInv'
  OBVIOUS
<1>1. \A i : Answered(i) => Answered(i)'
  BY AnswersStay
<1>2. CASE BoardStep
  <2>1. ASSUME NEW a \in board'.acknowledgements, a[2] = Reviewer
        PROVE  Answered(a[1])'
    <3>1. CASE a \in board.acknowledgements
      BY <1>1, <2>1, <3>1 DEF ReceiptInv
    <3>2. CASE a \notin board.acknowledgements
      <4>1. PICK c \in inflight \cup ClientCommands :
                   c.operation = "acknowledge" /\ a = <<c.messageId, c.participantId>>
        BY <1>2, <2>1, <3>2, BoardOnlyGrows
      <4>2. c \in inflight /\ c.participantId = Reviewer /\ a[1] = c.messageId
        BY <2>1, <4>1, ReceiptAssumption
      <4> QED BY <1>1, <4>1, <4>2 DEF ReceiptInv
    <3> QED BY <3>1, <3>2
  <2>2. inflight' \subseteq inflight
    BY <1>2 DEF BoardStep
  <2> QED BY <1>1, <2>1, <2>2 DEF ReceiptInv
<1>3. ASSUME NEW w \in Workers, WorkerStep(w) PROVE ReceiptInv'
  <2>1. board' = board
    BY <1>3, WorkerStepsLeaveBoard
  <2>2. ASSUME NEW c \in inflight', c.operation = "acknowledge", c.participantId = Reviewer
        PROVE  Answered(c.messageId)'
    <3>1. CASE c \in inflight
      BY <1>1, <2>2, <3>1 DEF ReceiptInv
    <3>2. CASE c \notin inflight
      <4>1. PICK i : c = Receipt(i) /\ Answered(i)
        BY <1>3, <2>2, <3>2, WhatWorkersSend DEF Registration, Result
      <4>2. c.messageId = i
        BY <4>1 DEF Receipt
      <4> QED BY <1>1, <4>1, <4>2
    <3> QED BY <3>1, <3>2
  <2> QED BY <1>1, <2>1, <2>2 DEF ReceiptInv
<1> QED BY <1>2, <1>3, StepsAreOfBoardOrWorker

\* The worker saves the result before acknowledging the request, whatever is
\* lost, repeated, delayed or done by another process of the same worker.
THEOREM ReceiptsHaveResults == Spec => []ReceiptHasResult
<1>1. Init => ReceiptInv
  BY ReceiptAssumption DEF Init, ReceiptInv
<1>2. ReceiptInv => ReceiptHasResult
  BY DEF ReceiptInv, Answered, ReceiptHasResult
<1> QED BY InitWork, WorkInvInductive, ReceiptInvInductive, <1>1, <1>2, PTL DEF Spec

-----------------------------------------------------------------------------
(* A request has one result.                                               *)

LEMMA ResultInvInductive == WorkInv /\ ResultInv /\ [Next]_vars => ResultInv'
<1> SUFFICES ASSUME WorkInv, ResultInv, [Next]_vars PROVE ResultInv'
  OBVIOUS
<1>1. CASE BoardStep
  <2>1. ASSUME NEW i \in DOMAIN board'.messages PROVE IsResult(board'.messages[i])
    <3>1. CASE i \in DOMAIN board.messages
      <4>1. board'.messages[i] = board.messages[i]
        BY <1>1, <3>1, BoardOnlyGrows DEF Grown
      <4> QED BY <3>1, <4>1 DEF ResultInv
    <3>2. CASE i \notin DOMAIN board.messages
      <4>1. PICK c \in inflight \cup ClientCommands :
                   c.operation = "post" /\ board'.messages[i] = c.message
        BY <1>1, <3>2, BoardOnlyGrows
      <4>2. IsResult(c.message)
        BY <4>1, ResultAssumption DEF ResultInv, IsResult
      <4> QED BY <4>1, <4>2
    <3> QED BY <3>1, <3>2
  <2>2. inflight' \subseteq inflight
    BY <1>1 DEF BoardStep
  <2> QED BY <2>1, <2>2 DEF ResultInv
<1>2. ASSUME NEW w \in Workers, WorkerStep(w) PROVE ResultInv'
  <2>1. board' = board
    BY <1>2, WorkerStepsLeaveBoard
  <2>2. ASSUME NEW c \in inflight', c.operation = "post" PROVE IsResult(c.message)
    <3>1. CASE c \in inflight
      BY <2>2, <3>1 DEF ResultInv
    <3>2. CASE c \notin inflight
      <4>1. \E o \in Observations : c = Result(Current(w), o)
        BY <1>2, <2>2, <3>2, WhatWorkersSend DEF Registration, Receipt
      <4> QED BY <4>1 DEF Result, Draft, IsResult
    <3> QED BY <3>1, <3>2
  <2> QED BY <2>1, <2>2 DEF ResultInv
<1> QED BY <1>1, <1>2, StepsAreOfBoardOrWorker

\* Processes that inspect the same request and observe different things leave
\* one result on the board.
THEOREM OneResultPerRequest == Spec => []OneResult
<1>1. Init => ResultInv
  BY ResultAssumption DEF Init, ResultInv, IsResult
<1>2. WorkInv /\ ResultInv => OneResult
  BY DEF WorkInv, ResultInv, IsResult, Coherent, OneMessagePerRequest, OneResult
<1> QED BY InitWork, WorkInvInductive, ResultInvInductive, <1>1, <1>2, PTL DEF Spec

-----------------------------------------------------------------------------
(* A complete scan leaves nothing behind.                                  *)

\* A request that was on the board earlier and is still to be answered was to be
\* answered then: the reviewer's definition, once registered, is its only one.
LEMMA PendingWasPending ==
  ASSUME NEW a \in Boards, NEW b \in Boards, Grown(a, b), OneDefinitionPerName(a),
         ReviewerDefinition \in b.definitions, NEW i \in Pending(a, 0), i \in DOMAIN b.messages
  PROVE  i \in Pending(b, 0)
<1>1. /\ a.messages[i] = b.messages[i]
      /\ b.acknowledgements \subseteq a.acknowledgements
      /\ ReviewerDefinition \in a.definitions
  BY DEF Grown
<1>2. /\ Named(a, Reviewer) \subseteq {ReviewerDefinition}
      /\ ReviewerDefinition \in Named(b, Reviewer)
  BY <1>1 DEF Named, Reviewer, OneDefinitionPerName
<1>3. Declares(a, Reviewer, a.messages[i].context)
  BY DEF Pending
<1>4. Declares(b, Reviewer, b.messages[i].context)
  BY <1>1, <1>2, <1>3 DEF Declares
<1> QED BY <1>1, <1>4 DEF Pending

LEMMA BoardKeepsScanning ==
  ASSUME WorkInv, BoardStep, NEW w \in Workers, Scanning(w)
  PROVE  Scanning(w)'
<1>1. /\ board \in Boards /\ board' \in Boards /\ Grown(board', board)
      /\ Len(board.messages) \in Nat
      /\ Len(board'.messages) \in Nat
      /\ Len(board.messages) <= Len(board'.messages)
      /\ DOMAIN board.messages = 1 .. Len(board.messages)
      /\ OneDefinitionPerName(board')
  BY BoardFacts, BoardOnlyGrows, LenProperties DEF Boards, Coherent
<1>2. UNCHANGED <<pc[w], page[w], more[w], cursor[w], pages[w], known[w], program>>
  BY DEF BoardStep, scan
<1>3. known[w] \in Nat /\ known[w] <= Len(board.messages)
  <2>1. known[w] \in 0 .. MaxMessages
    BY TypesOfRows DEF WorkInv, RowTypes
  <2>2. known[w] <= Len(board.messages)
    BY DEF Scanning
  <2> QED BY <2>1, <2>2, Limits
<1>4. ASSUME NEW i \in MessageNumbers, Left(w, i)', pc[w] \notin {"idle", "registering"}
      PROVE  Left(w, i)
  <2>1. /\ i \in Pending(board', 0) /\ i <= known[w]
        /\ Assigned(board.messages[i])'
    BY <1>2, <1>4 DEF Left
  <2>2. i \in DOMAIN board.messages
    <3>1. i \in Nat \ {0}
      BY BoardFacts
    <3> QED BY <1>1, <1>3, <2>1, <3>1
  <2>3. i \in Pending(board, 0)
    BY <1>1, <1>4, <2>1, <2>2, PendingWasPending DEF Scanning
  <2>4. board'.messages[i] = board.messages[i]
    BY <1>1, <2>2 DEF Grown
  <2>5. Assigned(board.messages[i])
    BY <1>2, <2>1, <2>4 DEF Assigned
  <2> QED BY <2>1, <2>3, <2>5 DEF Left
<1>5. (pc[w] \notin {"idle", "registering"} => ReviewerDefinition \in board.definitions)'
  BY <1>1, <1>2 DEF Scanning, Grown
<1>6. (known[w] <= Len(board.messages))'
  BY <1>1, <1>2, <1>3
<1>7. (At(w, "listing") => \A i \in MessageNumbers : Left(w, i) => i > cursor[w])'
  BY <1>2, <1>4 DEF Scanning, At
<1>8. (pc[w] \in {"reviewing", "posting", "reading back", "acknowledging"} =>
         \A i \in MessageNumbers : Left(w, i) => i \in page[w] \/ (more[w] /\ i > cursor[w]))'
  <2> SUFFICES ASSUME pc[w] \in {"reviewing", "posting", "reading back", "acknowledging"},
                      NEW i \in MessageNumbers, Left(w, i)'
               PROVE  i \in page[w] \/ (more[w] /\ i > cursor[w])
    BY <1>2
  <2>1. Left(w, i)
    BY <1>4
  <2> QED BY <2>1 DEF Scanning
<1> QED BY <1>2, <1>5, <1>6, <1>7, <1>8 DEF Scanning

LEMMA WorkerKeepsScanning ==
  ASSUME WorkInv, NEW w \in Workers, Scanning(w), WorkerStep(w)
  PROVE  Scanning(w)'
<1>1. RowTypes /\ Serving(w)
  BY TypesOfRows DEF WorkInv
<1>2. /\ board' = board /\ program' = program
      /\ \A i : Assigned(board.messages[i])' <=> Assigned(board.messages[i])
  BY WorkerStepsLeaveBoard DEF Assigned
<1>3. ASSUME known'[w] = known[w], NEW i
      PROVE  Left(w, i)' <=> Left(w, i)
  BY <1>2, <1>3 DEF Left
<1>4. /\ Len(board.messages) \in Nat /\ known[w] \in Nat
      /\ MessageNumbers \subseteq Nat \ {0}
      /\ known[w] <= Len(board.messages)
      /\ pages[w] = 0 => cursor[w] = 0
  <2>1. known[w] \in 0 .. MaxMessages
    BY <1>1 DEF RowTypes
  <2>2. known[w] <= Len(board.messages) /\ (pages[w] = 0 => cursor[w] = 0)
    BY DEF Scanning
  <2> QED BY <2>1, <2>2, BoardFacts, Limits
<1>5. ASSUME EndPass(w) PROVE Scanning(w)'
  <2>1. pc'[w] = "idle" /\ cursor'[w] = 0 /\ known'[w] = 0
    BY <1>1, <1>5, EndPassTypes
  <2>2. known'[w] <= Len(board'.messages)
    BY <1>2, <1>4, <2>1
  <2> QED BY <2>1, <2>2 DEF Scanning, At
\* The scan does not change while a message is served.
<1>6. ASSUME UNCHANGED <<page, scan>>, ReviewerDefinition \in board.definitions,
             pc[w] \in {"reviewing", "posting", "reading back", "acknowledging"},
             pc'[w] \in {"reviewing", "posting", "reading back", "acknowledging"}
      PROVE  Scanning(w)'
  BY <1>2, <1>3, <1>6 DEF Scanning, At, scan
<1>7. ASSUME UseSaved(w), page[w] # {}, pc[w] \in {"reviewing", "reading back"}
      PROVE  Scanning(w)'
  <2>1. CASE EndPass(w)
    BY <1>5, <2>1
  <2>2. CASE SendReceipt(w) /\ UNCHANGED <<page, results, scan>>
    <3>1. pc'[w] = "acknowledging"
      BY <1>7, <2>2, SendReceiptTypes
    <3> QED BY <1>6, <1>7, <2>2, <3>1 DEF Scanning
  <2> QED BY <1>7, <2>1, <2>2 DEF UseSaved
\* The message at hand is done with.
<1>8. ASSUME page' = [page EXCEPT ![w] = page[w] \ {Current(w)}], UNCHANGED scan,
             pc[w] \in {"reviewing", "acknowledging"}, pc'[w] = "reviewing", ~ Left(w, Current(w))
      PROVE  Scanning(w)'
  <2>1. page'[w] = page[w] \ {Current(w)}
    BY <1>1, <1>8 DEF RowTypes
  <2>2. UNCHANGED <<more[w], cursor[w], pages[w], known[w]>>
    BY <1>8 DEF scan
  <2>3. ASSUME NEW i \in MessageNumbers, Left(w, i)'
        PROVE  i \in page'[w] \/ (more'[w] /\ i > cursor'[w])
    <3>1. Left(w, i) /\ i # Current(w)
      BY <1>3, <1>8, <2>2, <2>3
    <3>2. i \in page[w] \/ (more[w] /\ i > cursor[w])
      BY <1>8, <3>1 DEF Scanning
    <3> QED BY <2>1, <2>2, <3>1, <3>2
  <2> QED BY <1>2, <1>8, <2>2, <2>3 DEF Scanning, At
<1>9. CASE Start(w)
  <2>1. Registration \in Commands /\ Send(w, Registration, "registering") /\ UNCHANGED scan
    BY <1>9, WorkerCommands DEF Start, Registration
  <2>2. pc'[w] = "registering"
    BY <1>1, <2>1, SendTypes DEF Places
  <2> QED BY <1>2, <2>1, <2>2 DEF Scanning, At, scan
<1>10. CASE Fail(w)
  BY <1>5, <1>10 DEF Fail
<1>11. CASE RegistrationReturns(w)
  <2>1. At(w, "registering") /\ InEffect(board, Registration) /\ UNCHANGED scan
    BY <1>1, <1>11 DEF RegistrationReturns, Returns, Serving
  <2>2. pc'[w] = "listing"
    BY <1>1, <1>11, GotoTypes DEF RegistrationReturns, Places
  <2>3. ReviewerDefinition \in board.definitions
    <3>1. Register(board, ReviewerDefinition) = board
      BY <2>1 DEF InEffect, Applied, Registration
    <3>2. Register(board, ReviewerDefinition).definitions = board.definitions \cup {ReviewerDefinition}
      BY BoardFacts DEF Register, Boards
    <3> QED BY <3>1, <3>2
  <2>4. cursor[w] = 0
    BY <1>1, <2>1 DEF Serving, Scanning, At
  <2>5. \A i \in MessageNumbers : i > cursor'[w]
    <3>1. cursor'[w] = 0
      BY <2>1, <2>4 DEF scan
    <3>2. \A i \in MessageNumbers : i \in Nat \ {0}
      BY <1>4
    <3> QED BY <3>1, <3>2
  <2> QED BY <1>2, <2>1, <2>2, <2>3, <2>5 DEF Scanning, At, scan
<1>12. CASE FetchPage(w)
  <2> DEFINE inbox == Inbox(board, cursor[w])
  <2>1. /\ cursor[w] \in Nat
        /\ Len(board.messages) <= MaxMessages
        /\ board \in Boards
        /\ At(w, "listing")
    <3>1. cursor[w] \in 0 .. MaxMessages
      BY <1>1 DEF RowTypes
    <3>2. cursor[w] \in Nat
      BY <3>1, Limits
    <3> QED BY <1>12, <3>2 DEF WorkInv, TypeOK, FetchPage
  <2>2. \A i \in Pending(board, cursor[w]) :
          i \in inbox.messages \/ (inbox.hasMore /\ i > inbox.nextSequence)
    BY <2>1, InboxLeavesNothingBehind
  <2>3. /\ page' = [page EXCEPT ![w] = inbox.messages]
        /\ more' = [more EXCEPT ![w] = inbox.hasMore]
        /\ cursor' = [cursor EXCEPT ![w] = inbox.nextSequence]
    BY <1>12 DEF FetchPage
  <2> HIDE DEF inbox
  <2>4. /\ page'[w] = inbox.messages
        /\ more'[w] = inbox.hasMore
        /\ cursor'[w] = inbox.nextSequence
    BY <1>1, <2>3 DEF RowTypes
  <2>5. /\ pages'[w] # 0
        /\ known'[w] = IF pages[w] = 0 THEN Len(board.messages) ELSE known[w]
    <3>1. pages[w] \in Nat /\ pages' = [pages EXCEPT ![w] = pages[w] + 1]
      BY <1>1, <1>12, Limits DEF FetchPage, RowTypes
    <3>2. known' = [known EXCEPT ![w] = IF pages[w] = 0 THEN Len(board.messages) ELSE known[w]]
      BY <1>12 DEF FetchPage
    <3> QED BY <1>1, <3>1, <3>2 DEF RowTypes
  <2>6. pc'[w] = "reviewing"
    BY <1>1, <1>12, GotoTypes DEF FetchPage, Places
  <2>7. ASSUME NEW i \in MessageNumbers, Left(w, i)'
        PROVE  i \in page'[w] \/ (more'[w] /\ i > cursor'[w])
    <3>1. i \in Pending(board, 0) /\ Assigned(board.messages[i]) /\ i <= known'[w]
      BY <1>2, <2>7 DEF Left
    <3>2. i > cursor[w]
      <4>1. CASE pages[w] = 0
        <5>1. i \in Nat \ {0}
          BY <1>4
        <5> QED BY <1>4, <4>1, <5>1
      <4>2. CASE pages[w] # 0
        BY <2>1, <2>5, <3>1, <4>2 DEF Scanning, Left
      <4> QED BY <4>1, <4>2
    <3>3. i \in Pending(board, cursor[w])
      BY <3>1, <3>2 DEF Pending
    <3> QED BY <2>2, <2>4, <3>3
  <2>8. known'[w] <= Len(board.messages)
    BY <1>4, <2>5
  <2> QED BY <1>2, <2>1, <2>5, <2>6, <2>7, <2>8 DEF Scanning, At
<1>13. CASE Skip(w)
  <2>1. pc' = pc /\ ~ Left(w, Current(w)) /\ UNCHANGED scan
    BY <1>13 DEF Skip, Left
  <2> QED BY <1>8, <1>13, <2>1 DEF Skip, Reviewing, At
<1>14. CASE Review(w)
  <2>1. page[w] # {} /\ pc[w] = "reviewing"
    BY <1>14 DEF Review, Reviewing, At
  <2>2. CASE SendResult(w) /\ UNCHANGED <<page, results, scan>>
    <3>1. pc'[w] = "posting"
      BY <2>1, <2>2, SendResultTypes
    <3> QED BY <1>6, <2>1, <2>2, <3>1 DEF Scanning
  <2> QED BY <1>7, <1>14, <2>1, <2>2 DEF Review
<1>15. CASE PostReturns(w)
  <2>1. pc[w] = "posting" /\ page[w] # {}
    BY <1>1, <1>15 DEF PostReturns, Serving, At
  <2>2. pc'[w] = "acknowledging"
    BY <1>15, <2>1, SendReceiptTypes DEF PostReturns
  <2> QED BY <1>6, <1>15, <2>1, <2>2 DEF PostReturns, Scanning
<1>16. CASE PostRefusedAsConflict(w)
  BY <1>5, <1>16 DEF PostRefusedAsConflict
<1>17. CASE PostSettles(w)
  <2>1. pc'[w] = "reading back"
    BY <1>1, <1>17, GotoTypes DEF PostSettles, Places
  <2> QED BY <1>6, <1>17, <2>1 DEF PostSettles, Scanning, At
<1>18. CASE ReadBack(w)
  <2>1. page[w] # {} /\ pc[w] = "reading back"
    BY <1>1, <1>18 DEF ReadBack, Serving, At
  <2> QED BY <1>5, <1>7, <1>18, <2>1 DEF ReadBack
<1>19. CASE ReceiptReturns(w)
  <2>1. pc[w] = "acknowledging" /\ InEffect(board, Receipt(Current(w)))
    BY <1>1, <1>19 DEF ReceiptReturns, Returns, Serving, At
  <2>2. <<Current(w), Reviewer>> \in board.acknowledgements
    <3>1. Acknowledge(board, Current(w), Reviewer) = board
      BY <2>1 DEF InEffect, Applied, Receipt
    <3>2. Acknowledge(board, Current(w), Reviewer).acknowledgements
            = board.acknowledgements \cup {<<Current(w), Reviewer>>}
      BY BoardFacts DEF Acknowledge, Boards
    <3> QED BY <3>1, <3>2
  <2>3. ~ Left(w, Current(w))
    BY <2>2 DEF Left, Pending
  <2>4. CASE EndPass(w)
    BY <1>5, <2>4
  <2>5. CASE /\ Goto(w, "reviewing")
             /\ page' = [page EXCEPT ![w] = page[w] \ {Current(w)}]
             /\ UNCHANGED scan
    <3>1. pc'[w] = "reviewing"
      BY <1>1, <2>5, GotoTypes DEF Places
    <3> QED BY <1>8, <2>1, <2>3, <2>5, <3>1
  <2> QED BY <1>19, <2>4, <2>5 DEF ReceiptReturns
<1>20. CASE EndPage(w)
  <2>1. pc[w] = "reviewing" /\ page[w] = {}
    BY <1>20 DEF EndPage, At
  <2>2. CASE EndPass(w)
    BY <1>5, <2>2
  <2>3. CASE Goto(w, "listing") /\ UNCHANGED <<page, scan>>
    <3>1. pc'[w] = "listing"
      BY <1>1, <2>3, GotoTypes DEF Places
    <3>2. UNCHANGED <<more[w], cursor[w], pages[w], known[w]>>
      BY <2>3 DEF scan
    <3>3. ASSUME NEW i \in MessageNumbers, Left(w, i)' PROVE i > cursor'[w]
      <4>1. Left(w, i)
        BY <1>3, <3>2, <3>3
      <4> QED BY <2>1, <3>2, <4>1 DEF Scanning
    <3> QED BY <1>2, <2>1, <3>1, <3>2, <3>3 DEF Scanning, At
  <2> QED BY <1>20, <2>2, <2>3 DEF EndPage
<1> QED BY <1>9, <1>10, <1>11, <1>12, <1>13, <1>14, <1>15, <1>16, <1>17, <1>18, <1>19, <1>20
        DEF WorkerStep, Step

LEMMA ScanInvInductive == WorkInv /\ ScanInv /\ [Next]_vars => ScanInv'
<1> SUFFICES ASSUME WorkInv, ScanInv, [Next]_vars PROVE ScanInv'
  OBVIOUS
<1>1. CASE BoardStep
  BY <1>1, BoardKeepsScanning DEF ScanInv
<1>2. ASSUME NEW w \in Workers, WorkerStep(w) PROVE ScanInv'
  <2>1. board' = board /\ program' = program
    BY <1>2, WorkerStepsLeaveBoard
  <2>2. ASSUME NEW v \in Workers, v # w PROVE Scanning(v)'
    <3>1. UNCHANGED <<pc[v], page[v], more[v], cursor[v], pages[v], known[v]>>
      BY <1>2, <2>2, OtherRowsStay DEF WorkInv
    <3>2. \A i : Left(v, i)' <=> Left(v, i)
      BY <2>1, <3>1 DEF Left, Assigned
    <3> QED BY <2>1, <3>1, <3>2 DEF ScanInv, Scanning, At
  <2> QED BY <1>2, <2>2, WorkerKeepsScanning DEF ScanInv
<1> QED BY <1>1, <1>2, StepsAreOfBoardOrWorker

\* A pass that reports scanComplete has left no request behind that was on the
\* board when it began, although its pages shrink while it and others
\* acknowledge.
THEOREM CompleteScansLeaveNothing == Spec => []ScanIsComplete
<1>1. Init => ScanInv
  <2> SUFFICES ASSUME Init PROVE ScanInv
    OBVIOUS
  <2>1. WorkInv
    BY InitWork
  <2>2. Len(board.messages) \in Nat
    BY <2>1, BoardFacts
  <2> QED BY <2>2 DEF Init, ScanInv, Scanning, At
<1>2. WorkInv /\ ScanInv => ScanIsComplete
  <2> SUFFICES ASSUME WorkInv, ScanInv, NEW w \in Workers, At(w, "reviewing"), page[w] = {},
                      ~ more[w], NEW i \in Pending(board, 0), i <= known[w],
                      Assigned(board.messages[i])
               PROVE  FALSE
    BY DEF ScanIsComplete
  <2>1. i \in MessageNumbers
    BY BoardFacts DEF Pending
  <2> QED BY <2>1 DEF ScanInv, Scanning, Left, At
<1> QED BY InitWork, WorkInvInductive, ScanInvInductive, <1>1, <1>2, PTL DEF Spec

=============================================================================
