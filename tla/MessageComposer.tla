-------------------------- MODULE MessageComposer --------------------------
(***************************************************************************)
(* The composer of the message board,                                      *)
(* components/coordination/CoordinationWorkspace.tsx: a draft, at most one *)
(* request at a time, and a request id that is made when a draft is first  *)
(* posted and kept until the draft is edited or confirmed.                 *)
(*                                                                         *)
(* The board is CoordinationLedger, of which only what posting needs is    *)
(* here: a request id of an author names one message.  Texts stand for     *)
(* everything an edit changes; crypto.randomUUID() never repeats itself.   *)
(***************************************************************************)
EXTENDS Naturals, FiniteSets

CONSTANTS
  Texts,            \* what may be written
  MaxDrafts,        \* bound: drafts begun in a session of the page
  None

VARIABLES
  board,            \* messages on the board: text, request id and the draft they came from
  composing,        \* the draft: its text, request id and, for the property, its number
  shownBoard,       \* the snapshot on the page
  posting,          \* the command in flight, None, or "refresh"
  composerError,    \* whether the last request failed
  minted            \* request ids made

composerVars == <<board, composing, shownBoard, posting, composerError, minted>>

Blank(n) == [text |-> None, requestId |-> 0, number |-> n]

-----------------------------------------------------------------------------
\* updateDraft(): a draft that is edited is another message; the form is
\* disabled while a request is in flight.
Edit(text) ==
  /\ posting = None
  /\ composing.text # text
  /\ composing.number < MaxDrafts
  /\ composing' = [text |-> text, requestId |-> 0, number |-> composing.number + 1]
  /\ UNCHANGED <<board, shownBoard, posting, composerError, minted>>

\* postMessage(): the id is made once and stored in the draft before it is sent.
Post ==
  /\ posting = None /\ composing.text # None
  /\ minted' = IF composing.requestId = 0 THEN minted + 1 ELSE minted
  /\ composing' = [composing EXCEPT !.requestId = IF @ = 0 THEN minted' ELSE @]
  /\ posting' = composing'
  /\ composerError' = FALSE
  /\ UNCHANGED <<board, shownBoard>>

Refresh ==
  /\ posting = None
  /\ posting' = [text |-> None, requestId |-> 0, number |-> 0]
  /\ composerError' = FALSE
  /\ UNCHANGED <<board, composing, shownBoard, minted>>

IsPost == posting # None /\ posting.text # None
Accepts(message) ==
  \A m \in board : m.requestId = message.requestId => m.text = message.text
With(message) ==
  IF \E m \in board : m.requestId = message.requestId THEN board ELSE board \cup {message}

\* The board answers with its snapshot; a post that is confirmed leaves a blank
\* draft.
Succeed ==
  /\ posting # None
  /\ IsPost => Accepts(posting)
  /\ board' = IF IsPost THEN With(posting) ELSE board
  /\ shownBoard' = board'
  /\ composing' = IF IsPost THEN Blank(composing.number) ELSE composing
  /\ posting' = None
  /\ UNCHANGED <<composerError, minted>>

\* Any failure: the board refuses, or the answer is lost, the message posted or
\* not.  The draft stays as it was sent.
FailRequest ==
  /\ posting # None
  /\ board' \in {board} \cup (IF IsPost /\ Accepts(posting) THEN {With(posting)} ELSE {})
  /\ posting' = None
  /\ composerError' = TRUE
  /\ UNCHANGED <<composing, shownBoard, minted>>

Init ==
  /\ board = {}
  /\ composing = Blank(0)
  /\ shownBoard = {}
  /\ posting = None
  /\ composerError = FALSE
  /\ minted = 0

Next ==
  \/ \E text \in Texts : Edit(text)
  \/ Post \/ Refresh \/ Succeed \/ FailRequest

Spec == Init /\ [][Next]_composerVars

-----------------------------------------------------------------------------
(* What the proofs assume of the constants.                                *)

ComposerAssumption == None \notin Texts

-----------------------------------------------------------------------------
(* Properties.                                                             *)

\* A draft that is posted again after a failure is on the board once, and is
\* never refused as another message under a used request id.
PostedOnce ==
  /\ \A m, n \in board : m.number = n.number => m = n
  /\ IsPost => Accepts(posting)
=============================================================================
