---------------------------- MODULE ReviewWorker ----------------------------
(***************************************************************************)
(* The two review workers of the agent board: runContractReviewOnce and    *)
(* runCandidateBuildReviewOnce (src/coordination/contract-review.ts and    *)
(* candidate-build-review.ts), as passes that any number of processes run  *)
(* at the same time through the HTTP client (clients/javascript/           *)
(* coordination.mjs).  Commands take effect on the board one at a time,    *)
(* which is what CoordinationStore shows of the repository behind it.      *)
(*                                                                         *)
(* A call of the client sends the same command up to three times.  The     *)
(* call may fail although the server executed it, or will still execute    *)
(* it: a command in flight may be executed at any later time, and more     *)
(* than once.  The report a worker posts is an observation that two passes *)
(* need not agree on: of the registered definitions for the one worker, of *)
(* a build on disk for the other.                                          *)
(***************************************************************************)
EXTENDS CoordinationLedger, FiniteSetsExt

CONSTANTS
  Workers,          \* processes that run passes
  Programs,         \* which worker is run: of {"contract", "candidate build"}
  ReviewerDefinition,
  ReviewTopic,
  Observations,     \* the reports an inspection can give
  ClientCommands,   \* what other participants send
  PageSize,         \* 100 messages of an inbox page
  MaxPages,         \* 50 pages of one pass
  Limit,            \* results of one pass
  MaxFailures       \* bound on failed calls and killed workers

Reviewer == NameOf[ReviewerDefinition]

\* Mutant: the identifier of the result does not name the request.
OneResultId(i) == <<Reviewer, 1>>

\* `${CONTRACT_REVIEWER_ID}:${message.id}`
ResultId(i) == <<Reviewer, i>>

ASSUME WorkerAssumption ==
  /\ Programs \subseteq {"contract", "candidate build"}
  /\ ReviewerDefinition \in Definitions
  /\ ReviewTopic \in Topics
  /\ Observations \subseteq Texts
  /\ \A i \in MessageNumbers : ResultId(i) \in RequestIds
  /\ {PageSize, MaxPages, Limit} \subseteq Nat \ {0}
  /\ MaxFailures \in Nat
  /\ ClientCommands \subseteq Commands
  /\ Len(Seed.messages) <= MaxMessages

\* The board does not authenticate: that nobody else acknowledges or posts in
\* the reviewer's name is what the workers rely on.
ASSUME ReceiptAssumption ==
  /\ \A c \in ClientCommands : c.operation = "acknowledge" => c.participantId # Reviewer
  /\ \A a \in Seed.acknowledgements : a[2] # Reviewer

ASSUME ResultAssumption ==
  /\ \A c \in ClientCommands : c.operation = "post" => c.message.authorId # Reviewer
  /\ \A i \in DOMAIN Seed.messages : Seed.messages[i].authorId # Reviewer

VARIABLES
  board,            \* what the repository holds
  inflight,         \* commands sent and possibly still to be executed
  pc,               \* where each worker is in its pass
  sent,             \* the command a worker waits for
  page,             \* the messages of the inbox page still to be looked at, in order
  more,             \* whether the inbox said that there are more messages
  cursor,           \* afterSequence of the next page
  pages,            \* pages fetched in this pass
  results,          \* processed + recovered in this pass
  known,            \* history: messages on the board at the pass's first page
  failures,         \* failures so far
  program           \* which worker the processes run

vars == <<board, inflight, pc, sent, page, more, cursor, pages, results, known, failures, program>>
scan == <<more, cursor, pages, known>>

-----------------------------------------------------------------------------
(* The inbox, src/coordination/inbox.ts.                                   *)

\* The messages after a cursor that are directed to the reviewer, that it may
\* read and has no receipt for.
Pending(b, after) ==
  { i \in DOMAIN b.messages :
      /\ i > after
      /\ b.messages[i].authorId # Reviewer
      /\ b.messages[i].recipientId = Reviewer
      /\ Declares(b, Reviewer, b.messages[i].context)
      /\ <<i, Reviewer>> \notin b.acknowledgements }

\* The first n of a set of messages, in order of sequence.
FirstOf(P, n) == { i \in P : Cardinality({ j \in P : j < i }) < n }

\* Mutant: the cursor counts messages instead of naming the last one.
InboxByOffset(b, after) ==
  LET eligible == Pending(b, 0)
      rest == eligible \ FirstOf(eligible, after)
      first == FirstOf(rest, PageSize)
  IN [ messages |-> first,
       hasMore |-> first # rest,
       nextSequence |-> after + Cardinality(first) ]

Inbox(b, after) ==
  LET eligible == Pending(b, after)
      first == FirstOf(eligible, PageSize)
      hasMore == first # eligible
  IN [ messages |-> first,
       hasMore |-> hasMore,
       nextSequence |-> IF hasMore THEN Max(first) ELSE Len(b.messages) ]

\* A message the worker serves; it skips what else its inbox holds.
Assigned(m) ==
  /\ m.kind \in {"REQUEST", "HANDOFF"}
  /\ m.topic = ReviewTopic
  /\ program = "candidate build" => m.context = None

\* Mutant: the request identifier depends on what was observed.
DraftByContent(b, i, o) ==
  [ requestId |-> <<Reviewer, i, o>>, authorId |-> Reviewer,
    recipientId |-> b.messages[i].authorId, kind |-> "RESULT",
    topic |-> b.messages[i].topic, text |-> o,
    context |-> b.messages[i].context, replyTo |-> i ]

Draft(b, i, o) ==
  [ requestId |-> ResultId(i), authorId |-> Reviewer,
    recipientId |-> b.messages[i].authorId, kind |-> "RESULT",
    topic |-> b.messages[i].topic, text |-> o,
    context |-> b.messages[i].context, replyTo |-> i ]

\* Where board b holds results under the request identifier of message i, and
\* the check a worker makes before it reuses one.
Saved(b, i) == { k \in DOMAIN b.messages :
                   /\ b.messages[k].authorId = Reviewer
                   /\ b.messages[k].requestId = ResultId(i) }

Binds(b, i, k) == \E o \in Observations : b.messages[k] = Draft(b, i, o)

-----------------------------------------------------------------------------
(* Calls.                                                                  *)

At(w, place) == pc[w] = place
Goto(w, place) == pc' = [pc EXCEPT ![w] = place]

\* Send command c and wait for the answer at the given place.
Send(w, c, place) ==
  /\ inflight' = inflight \cup {c}
  /\ sent' = [sent EXCEPT ![w] = c]
  /\ Goto(w, place)

\* The client returns: the server executed the command, now or before.
Returns(w) == InEffect(board, sent[w])

\* The pass is over: it returned, threw, or its process was killed.
EndPass(w) ==
  /\ Goto(w, "idle")
  /\ sent' = [sent EXCEPT ![w] = None]
  /\ page' = [page EXCEPT ![w] = {}]
  /\ more' = [more EXCEPT ![w] = FALSE]
  /\ cursor' = [cursor EXCEPT ![w] = 0]
  /\ pages' = [pages EXCEPT ![w] = 0]
  /\ results' = [results EXCEPT ![w] = 0]
  /\ known' = [known EXCEPT ![w] = 0]

\* The server executes a command in flight, of which a copy may remain.
Execute(c) ==
  /\ c \in inflight
  /\ inflight' \in {inflight, inflight \ {c}}
  /\ board' = IF Refused(board, c) THEN board ELSE Applied(board, c)
  /\ UNCHANGED <<pc, sent, page, results, scan, failures, program>>

\* Another participant registers or posts.
ClientStep(c) ==
  /\ ~ Refused(board, c)
  /\ board' = Applied(board, c)
  /\ UNCHANGED <<inflight, pc, sent, page, results, scan, failures, program>>

-----------------------------------------------------------------------------
(* One pass.                                                               *)

\* The first snapshot and the registration.
Start(w) ==
  /\ At(w, "idle")
  /\ Send(w, [operation |-> "register", participant |-> ReviewerDefinition], "registering")
  /\ UNCHANGED <<board, page, results, scan, failures, program>>

RegistrationReturns(w) ==
  /\ At(w, "registering")
  /\ Returns(w)
  /\ Goto(w, "listing")
  /\ UNCHANGED <<board, inflight, sent, page, results, scan, failures>>

FetchPage(w) ==
  /\ At(w, "listing")
  /\ LET inbox == Inbox(board, cursor[w]) IN
       /\ page' = [page EXCEPT ![w] = inbox.messages]
       /\ more' = [more EXCEPT ![w] = inbox.hasMore]
       /\ cursor' = [cursor EXCEPT ![w] = inbox.nextSequence]
  /\ pages' = [pages EXCEPT ![w] = @ + 1]
  /\ known' = [known EXCEPT ![w] = IF pages[w] = 0 THEN Len(board.messages) ELSE @]
  /\ Goto(w, "reviewing")
  /\ UNCHANGED <<board, inflight, sent, results, failures>>

\* Worker w looks at the next message of its page.
Current(w) == Min(page[w])

Reviewing(w) == At(w, "reviewing") /\ page[w] # {}

Skip(w) ==
  /\ Reviewing(w)
  /\ ~ Assigned(board.messages[Current(w)])
  /\ page' = [page EXCEPT ![w] = @ \ {Current(w)}]
  /\ UNCHANGED <<board, inflight, pc, sent, results, scan, failures>>

SendReceipt(w) ==
  Send(w, [operation |-> "acknowledge", messageId |-> Current(w),
           participantId |-> Reviewer], "acknowledging")

SendResult(w) ==
  \E o \in Observations :
    Send(w, [operation |-> "post", message |-> Draft(board, Current(w), o)], "posting")

\* A result is on the board: it is acknowledged if it is the worker's result
\* for this message, and ends the pass with an error if not.
UseSaved(w) ==
  /\ Saved(board, Current(w)) # {}
  /\ IF \A k \in Saved(board, Current(w)) : Binds(board, Current(w), k)
     THEN SendReceipt(w) /\ UNCHANGED <<page, results, scan>>
     ELSE EndPass(w) /\ UNCHANGED inflight

\* Mutant: the receipt does not wait for the result.
ReviewWithoutWaiting(w) ==
  /\ Reviewing(w)
  /\ Assigned(board.messages[Current(w)])
  /\ \E o \in Observations :
       LET receipt == [operation |-> "acknowledge", messageId |-> Current(w),
                       participantId |-> Reviewer]
           result == [operation |-> "post", message |-> Draft(board, Current(w), o)]
       IN /\ inflight' = inflight \cup {receipt, result}
          /\ sent' = [sent EXCEPT ![w] = receipt]
          /\ Goto(w, "acknowledging")
  /\ UNCHANGED <<board, page, results, scan, failures>>

\* The snapshot that looks for a saved result, and the inspection and the post
\* when there is none.
Review(w) ==
  /\ Reviewing(w)
  /\ Assigned(board.messages[Current(w)])
  /\ \/ UseSaved(w)
     \/ /\ Saved(board, Current(w)) = {}
        /\ SendResult(w)
        /\ UNCHANGED <<page, results, scan>>
  /\ UNCHANGED <<board, failures>>

\* The contract worker acknowledges at once.
PostReturns(w) ==
  /\ program = "contract"
  /\ At(w, "posting")
  /\ Returns(w)
  /\ SendReceipt(w)
  /\ UNCHANGED <<board, page, results, scan, failures>>

\* Another process used the identifier for a different report.
PostRefusedAsConflict(w) ==
  /\ program = "contract"
  /\ At(w, "posting")
  /\ Refused(board, sent[w])
  /\ EndPass(w)
  /\ UNCHANGED <<board, inflight, failures>>

\* The candidate build worker reads the board whether the post returned, was
\* refused, or failed with the command still in flight.
PostSettles(w) ==
  /\ program = "candidate build"
  /\ At(w, "posting")
  /\ \/ (Returns(w) \/ Refused(board, sent[w])) /\ UNCHANGED failures
     \/ failures < MaxFailures /\ failures' = failures + 1
  /\ Goto(w, "reading back")
  /\ UNCHANGED <<board, inflight, sent, page, results, scan>>

ReadBack(w) ==
  /\ At(w, "reading back")
  /\ \/ UseSaved(w)
     \/ Saved(board, Current(w)) = {} /\ EndPass(w) /\ UNCHANGED inflight
  /\ UNCHANGED <<board, failures>>

ReceiptReturns(w) ==
  /\ At(w, "acknowledging")
  /\ Returns(w)
  /\ IF results[w] + 1 >= Limit
     THEN EndPass(w)
     ELSE /\ Goto(w, "reviewing")
          /\ page' = [page EXCEPT ![w] = @ \ {Current(w)}]
          /\ results' = [results EXCEPT ![w] = @ + 1]
          /\ UNCHANGED <<sent, scan>>
  /\ UNCHANGED <<board, inflight, failures>>

EndPage(w) ==
  /\ At(w, "reviewing")
  /\ page[w] = {}
  /\ IF more[w] /\ pages[w] < MaxPages
     THEN Goto(w, "listing") /\ UNCHANGED <<sent, page, results, scan>>
     ELSE EndPass(w)
  /\ UNCHANGED <<board, inflight, failures>>

\* A call fails, or the process is killed.  What was sent stays in flight.
Fail(w) ==
  /\ ~ At(w, "idle")
  /\ failures < MaxFailures
  /\ failures' = failures + 1
  /\ EndPass(w)
  /\ UNCHANGED <<board, inflight, program>>

-----------------------------------------------------------------------------
Init ==
  /\ board = Seed
  /\ inflight = {}
  /\ pc = [w \in Workers |-> "idle"]
  /\ sent = [w \in Workers |-> None]
  /\ page = [w \in Workers |-> {}]
  /\ more = [w \in Workers |-> FALSE]
  /\ cursor = [w \in Workers |-> 0]
  /\ pages = [w \in Workers |-> 0]
  /\ results = [w \in Workers |-> 0]
  /\ known = [w \in Workers |-> 0]
  /\ failures = 0
  /\ program \in Programs

Step(w) ==
  /\ \/ RegistrationReturns(w)
     \/ FetchPage(w)
     \/ Skip(w)
     \/ Review(w)
     \/ PostReturns(w)
     \/ PostRefusedAsConflict(w)
     \/ PostSettles(w)
     \/ ReadBack(w)
     \/ ReceiptReturns(w)
     \/ EndPage(w)
  /\ UNCHANGED program

Next ==
  \/ \E c \in inflight : Execute(c)
  \/ \E c \in ClientCommands : ClientStep(c)
  \/ \E w \in Workers : Start(w) \/ Step(w) \/ Fail(w)

Spec == Init /\ [][Next]_vars

\* Passes are started again and again, a running pass goes on, and the server
\* executes the command a worker waits for.
FairSpec ==
  /\ Spec
  /\ \A w \in Workers : /\ WF_vars(Start(w))
                        /\ WF_vars(Step(w))
                        /\ WF_vars(Execute(sent[w]))

-----------------------------------------------------------------------------
(* Type invariant.                                                         *)
TypeOK ==
  /\ board \in Boards
  /\ inflight \subseteq Commands
  /\ pc \in [Workers -> { "idle", "registering", "listing", "reviewing", "posting",
                          "reading back", "acknowledging" }]
  /\ sent \in [Workers -> Commands \cup {None}]
  /\ page \in [Workers -> SUBSET MessageNumbers]
  /\ more \in [Workers -> BOOLEAN]
  /\ cursor \in [Workers -> 0 .. MaxMessages]
  /\ pages \in [Workers -> 0 .. MaxPages]
  /\ results \in [Workers -> 0 .. Limit - 1]
  /\ known \in [Workers -> 0 .. MaxMessages]
  /\ failures \in 0 .. MaxFailures
  /\ program \in Programs

\* The worker saves the result before acknowledging the request, whatever is
\* lost, repeated, delayed or done by another process of the same worker; and
\* what it does not serve stays pending.
ReceiptHasResult ==
  \A a \in board.acknowledgements :
    a[2] = Reviewer =>
      /\ Assigned(board.messages[a[1]])
      /\ \E k \in DOMAIN board.messages : Binds(board, a[1], k)

\* Two processes that inspect the same request and observe different things
\* leave one result on the board.
OneResult ==
  \A i, j \in DOMAIN board.messages :
    /\ board.messages[i].authorId = Reviewer
    /\ board.messages[j].authorId = Reviewer
    /\ board.messages[i].replyTo = board.messages[j].replyTo
    => i = j

\* A pass that reports scanComplete has left no request behind that was on the
\* board when it began, although its pages shrink while it and others
\* acknowledge.
ScanIsComplete ==
  \A w \in Workers :
    At(w, "reviewing") /\ page[w] = {} /\ ~ more[w]
      => \A i \in Pending(board, 0) : i <= known[w] => ~ Assigned(board.messages[i])

=============================================================================
