--------------------------- MODULE NotationDraft ---------------------------
(***************************************************************************)
(* The draft of the notation workspace, useNotationController of           *)
(* components/notations/NotationWorkspace.tsx: the commands the kernel     *)
(* accepted and that are not saved, the text in the forms, the copy of     *)
(* both in sessionStorage, and one request at a time to the notation store *)
(* (NotationStore), which others save to as well.                          *)
(*                                                                         *)
(* A command is its identifier, the order of a batch does not matter here, *)
(* and the forms are one field that is empty or not.  A page reload, which *)
(* the browser asks about first, forgets everything but the copy.  The     *)
(* service is enabled; the limit of commands, which only disables          *)
(* controls, the selection and the wording are left out.                   *)
(***************************************************************************)
EXTENDS Naturals, Sequences

CONSTANTS
  DraftCommands,    \* identifiers of commands
  None,
  MaxSaved          \* MAX_NOTATION_SAVED_VERSIONS

VARIABLES
  saved,            \* the store: the commands of each saved version
  snapshot,         \* the saved version the workspace shows, or None
  pending,          \* commands the kernel accepted, not yet saved
  typed,            \* whether there is text in the forms
  inFlight,         \* the request that is running, or None
  conflict,         \* the drafts that were set aside, or None
  confirmReload,    \* whether the dialog is open
  hydrated,         \* whether the first load is over
  stored,           \* the copy in sessionStorage, or None
  validatedAt,      \* history: the version the pending commands were accepted at
  accepted,         \* history: the commands the kernel accepted
  discarded,        \* history: the commands whose loss was confirmed
  setAside,         \* history: the commands dropped by keeping stale drafts
  unasked           \* history: commands a reload discarded unasked

memory == <<snapshot, pending, typed, inFlight, conflict, confirmReload, hydrated>>
draftHistory == <<validatedAt, accepted, discarded, setAside, unasked>>
draftVars == <<saved, memory, stored, draftHistory>>

-----------------------------------------------------------------------------
busy == inFlight # None
unsaved == pending # {} \/ typed

Version == Len(saved)

Drafts(reason) ==
  [reason |-> reason, base |-> snapshot, pending |-> pending, typed |-> typed]

\* begin(): a request leaves, unless one is running.
Send(kind, commands, drafts) ==
  /\ ~ busy
  /\ inFlight' = [kind |-> kind, base |-> snapshot, commands |-> commands, drafts |-> drafts,
                  asked |-> confirmReload, reply |-> "none", version |-> 0]

\* Mutant: the copy is written before the first load is over.
PersistFromTheStart ==
  stored' = IF snapshot' = None \/ conflict' # None THEN stored
            ELSE IF ~ unsaved' THEN None
            ELSE [base |-> snapshot', pending |-> pending', typed |-> typed']

\* The effect that keeps the copy up to date after each change.
Persist ==
  stored' = IF ~ hydrated' \/ snapshot' = None \/ conflict' # None THEN stored
            ELSE IF ~ unsaved' THEN None
            ELSE [base |-> snapshot', pending |-> pending', typed |-> typed']

-----------------------------------------------------------------------------
(* The store: read(), preview() and save() of NotationStore, one at a time. *)
Answered(reply, version) ==
  inFlight' = [inFlight EXCEPT !.reply = reply, !.version = version]

\* What the store does to a request: a repeated last save is confirmed.
Serve ==
  /\ busy /\ inFlight.reply = "none"
  /\ LET kind == inFlight.kind
         current == inFlight.base = Version
         repeated == /\ Version > 0 /\ inFlight.base = Version - 1
                     /\ saved[Version] = inFlight.commands
         refusal == IF ~ current THEN "VERSION_CONFLICT" ELSE "CAPACITY" IN
       \/ kind \in {"load", "reload"} /\ Answered("ok", Version) /\ UNCHANGED saved
       \/ /\ kind \in {"preview", "restore"} /\ UNCHANGED saved
          /\ IF current /\ Version < MaxSaved THEN Answered("ok", Version)
             ELSE Answered(refusal, 0)
       \/ /\ kind = "save"
          /\ IF repeated THEN Answered("ok", Version) /\ UNCHANGED saved
             ELSE IF current /\ Version < MaxSaved
             THEN saved' = Append(saved, inFlight.commands) /\ Answered("ok", Version + 1)
             ELSE Answered(refusal, 0) /\ UNCHANGED saved
  /\ UNCHANGED <<snapshot, pending, typed, conflict, confirmReload, hydrated, stored, draftHistory>>

\* A request, or its reply, is lost, or the kernel does not complete.
Lose ==
  /\ busy /\ inFlight.reply # "failed"
  /\ Answered("failed", 0)
  /\ UNCHANGED <<saved, snapshot, pending, typed, conflict, confirmReload, hydrated, stored,
                 draftHistory>>

\* Somebody else saves.
OthersSave ==
  /\ Version < MaxSaved
  /\ saved' = Append(saved, {})
  /\ UNCHANGED <<memory, stored, draftHistory>>

-----------------------------------------------------------------------------
(* The first load, loadInitial().                                          *)
Arrived(kind) == busy /\ inFlight.kind = kind /\ inFlight.reply = "ok"
Failed(kinds) == busy /\ inFlight.kind \in kinds /\ inFlight.reply \notin {"none", "ok"}

Load ==
  /\ ~ hydrated
  /\ Send("load", {}, stored)
  /\ UNCHANGED <<saved, snapshot, pending, typed, conflict, confirmReload, hydrated, stored,
                 draftHistory>>

\* A copy from another version is set aside; otherwise its text is restored,
\* and its commands are sent to the kernel again.
Loaded ==
  /\ Arrived("load")
  /\ snapshot' = inFlight.version
  /\ LET copy == inFlight.drafts IN
       \/ /\ copy = None
          /\ inFlight' = None /\ hydrated' = TRUE
          /\ UNCHANGED <<typed, conflict>>
       \/ /\ copy # None /\ copy.base # inFlight.version
          /\ conflict' = [reason |-> "STALE_DRAFTS", base |-> copy.base,
                          pending |-> copy.pending, typed |-> copy.typed]
          /\ inFlight' = None /\ hydrated' = TRUE
          /\ UNCHANGED typed
       \/ /\ copy # None /\ copy.base = inFlight.version
          /\ typed' = copy.typed
          /\ IF copy.pending = {} THEN inFlight' = None /\ hydrated' = TRUE
             ELSE /\ inFlight' = [inFlight EXCEPT !.kind = "restore", !.base = inFlight.version,
                                  !.commands = copy.pending, !.reply = "none", !.version = 0]
                  /\ UNCHANGED hydrated
          /\ UNCHANGED conflict
  /\ UNCHANGED <<saved, pending, confirmReload, draftHistory>>
  /\ Persist

LoadFailed ==
  /\ Failed({"load"})
  /\ inFlight' = None /\ hydrated' = TRUE
  /\ UNCHANGED <<saved, snapshot, pending, typed, conflict, confirmReload, draftHistory>>
  /\ Persist

Restored ==
  /\ Arrived("restore")
  /\ pending' = inFlight.commands
  /\ validatedAt' = inFlight.base
  /\ inFlight' = None /\ hydrated' = TRUE
  /\ UNCHANGED <<saved, snapshot, typed, conflict, confirmReload,
                 accepted, discarded, setAside, unasked>>
  /\ Persist

RestoreFailed ==
  /\ Failed({"restore"})
  /\ LET copy == inFlight.drafts IN
       conflict' = [reason |-> "STALE_DRAFTS", base |-> copy.base, pending |-> copy.pending,
                    typed |-> copy.typed]
  /\ inFlight' = None /\ hydrated' = TRUE
  /\ UNCHANGED <<saved, snapshot, pending, typed, confirmReload, draftHistory>>
  /\ Persist

-----------------------------------------------------------------------------
(* The controls.                                                           *)
locked == busy \/ snapshot = None \/ confirmReload
previewLocked == locked \/ snapshot >= MaxSaved

Type ==
  /\ ~ previewLocked
  /\ typed' = ~ typed
  /\ UNCHANGED <<saved, snapshot, pending, inFlight, conflict, confirmReload, hydrated, draftHistory>>
  /\ Persist

\* preview(): of a form, which it clears, or of UNDO and REDO.
Preview(k) ==
  /\ ~ previewLocked
  /\ k \notin accepted
  /\ Send("preview", pending \cup {k}, None)
  /\ UNCHANGED <<saved, snapshot, pending, typed, conflict, confirmReload, hydrated, stored,
                 draftHistory>>

Previewed ==
  /\ Arrived("preview")
  /\ inFlight.version = snapshot
  /\ pending' = inFlight.commands
  /\ accepted' = accepted \cup inFlight.commands
  /\ validatedAt' = inFlight.base
  /\ typed' \in {FALSE, typed}
  /\ inFlight' = None
  /\ UNCHANGED <<saved, snapshot, conflict, confirmReload, hydrated, discarded, setAside, unasked>>
  /\ Persist

Save ==
  /\ ~ locked /\ snapshot < MaxSaved
  /\ pending # {} /\ ~ typed
  /\ Send("save", pending, None)
  /\ UNCHANGED <<saved, snapshot, pending, typed, conflict, confirmReload, hydrated, stored,
                 draftHistory>>

Saved ==
  /\ Arrived("save")
  /\ snapshot' = inFlight.version
  /\ pending' = {}
  /\ inFlight' = None
  /\ UNCHANGED <<saved, typed, conflict, confirmReload, hydrated, draftHistory>>
  /\ Persist

\* fail(): a conflict sets the drafts aside for inspection, and keeps them.
RequestFailed ==
  /\ Failed({"preview", "save", "reload"})
  /\ conflict' = IF inFlight.reply = "VERSION_CONFLICT" /\ unsaved
                 THEN Drafts("VERSION_CONFLICT") ELSE conflict
  /\ inFlight' = None
  /\ UNCHANGED <<saved, snapshot, pending, typed, confirmReload, hydrated, draftHistory>>
  /\ Persist

\* The reload button: with unsaved work it opens the dialog, as does the one
\* of the conflict panel.
Reload ==
  /\ ~ confirmReload
  /\ \/ /\ (unsaved /\ ~ busy) \/ (conflict # None /\ snapshot # None)
        /\ confirmReload' = TRUE /\ UNCHANGED inFlight
     \/ ~ unsaved /\ hydrated /\ Send("reload", {}, None) /\ UNCHANGED confirmReload
  /\ UNCHANGED <<saved, snapshot, pending, typed, conflict, hydrated, stored, draftHistory>>

\* The dialog: keep editing, or discard the drafts and reload.
AnswerDialog ==
  /\ confirmReload
  /\ \/ confirmReload' = FALSE /\ UNCHANGED inFlight
     \/ Send("reload", {}, None) /\ UNCHANGED confirmReload
  /\ UNCHANGED <<saved, snapshot, pending, typed, conflict, hydrated, stored, draftHistory>>

Kept ==
  pending \cup (IF conflict = None THEN {} ELSE conflict.pending)
          \cup (IF stored = None THEN {} ELSE stored.pending)

\* A reload is over: drafts, conflict and copy are gone, asked or not.
Reloaded ==
  /\ Arrived("reload")
  /\ snapshot' = inFlight.version
  /\ pending' = {} /\ typed' = FALSE
  /\ conflict' = None
  /\ confirmReload' = FALSE
  /\ inFlight' = None
  /\ stored' = None
  /\ IF inFlight.asked THEN discarded' = discarded \cup Kept /\ UNCHANGED unasked
     ELSE unasked' = unasked \cup Kept /\ UNCHANGED discarded
  /\ UNCHANGED <<saved, hydrated, validatedAt, accepted, setAside>>

\* "Keep working with these drafts": of stale drafts only the text is kept; the
\* copy, the last place of their commands, is overwritten.
KeepDrafts ==
  /\ conflict # None /\ snapshot # None
  /\ typed' = IF conflict.reason = "STALE_DRAFTS" THEN conflict.typed ELSE typed
  /\ conflict' = None
  /\ UNCHANGED <<saved, snapshot, pending, inFlight, confirmReload, hydrated,
                 validatedAt, accepted, discarded, unasked>>
  /\ Persist
  /\ setAside' = setAside \cup (Kept \ Kept')

\* The browser reloads the page, and asks first while there is unsaved work:
\* commands accepted while a conflict is shown are not in the copy.  A request
\* that left may still reach the store: that is as if it had been served before.
ReloadPage ==
  /\ discarded' = discarded \cup
       (IF conflict = None THEN {} ELSE pending \ (IF stored = None THEN {} ELSE stored.pending))
  /\ snapshot' = None /\ pending' = {} /\ typed' = FALSE
  /\ inFlight' = None /\ conflict' = None /\ confirmReload' = FALSE /\ hydrated' = FALSE
  /\ UNCHANGED <<saved, stored, validatedAt, accepted, setAside, unasked>>

-----------------------------------------------------------------------------
Init ==
  /\ saved = <<>>
  /\ snapshot = None /\ pending = {} /\ typed = FALSE
  /\ inFlight = None /\ conflict = None /\ confirmReload = FALSE /\ hydrated = FALSE
  /\ stored = None
  /\ validatedAt = 0
  /\ accepted = {} /\ discarded = {} /\ setAside = {} /\ unasked = {}

Next ==
  \/ Serve \/ Lose \/ OthersSave
  \/ Load \/ Loaded \/ LoadFailed \/ Restored \/ RestoreFailed
  \/ Type \/ Save \/ Saved \/ Previewed \/ RequestFailed
  \/ \E k \in DraftCommands : Preview(k)
  \/ Reload \/ AnswerDialog \/ Reloaded \/ KeepDrafts \/ ReloadPage

Spec == Init /\ [][Next]_draftVars

-----------------------------------------------------------------------------
(* What the proofs assume of the constants, and the records of the page.   *)

Copies == [base : Nat \cup {None}, pending : SUBSET DraftCommands, typed : BOOLEAN]
Conflicts ==
  [reason : {"STALE_DRAFTS", "VERSION_CONFLICT"}, base : Nat \cup {None},
   pending : SUBSET DraftCommands, typed : BOOLEAN]
Requests ==
  [kind : {"load", "restore", "preview", "save", "reload"}, base : Nat \cup {None},
   commands : SUBSET DraftCommands, drafts : Copies \cup {None}, asked : BOOLEAN,
   reply : {"none", "ok", "failed", "VERSION_CONFLICT", "CAPACITY"}, version : Nat]

\* None is none of the data it stands in for.
DraftAssumption ==
  /\ MaxSaved \in Nat
  /\ None \notin Nat /\ None \notin Copies /\ None \notin Conflicts /\ None \notin Requests

-----------------------------------------------------------------------------
(* Properties.                                                             *)

\* A command the kernel accepted is saved, or it is still in the draft, in the
\* drafts that were set aside, or in the copy of this tab, whichever replies
\* are lost or late and whenever the page is reloaded.  Every other way out is
\* exempted by name: a loss that was confirmed, and the two that are refuted as
\* promises of the documentation, by keeping stale drafts (PendingAreRetained)
\* and by a reload that does not ask (DiscardIsConfirmed).
WorkIsKept ==
  accepted \subseteq
    Kept \cup (UNION {saved[v] : v \in 1 .. Version}) \cup discarded \cup setAside \cup unasked

\* "Original saved base version" (docs/LOCAL_NOTATION_STATE_KERNEL.md): the
\* version that is sent along with pending commands is the one the kernel
\* accepted them at; no reload, save or late reply rebases a draft.
DraftKeepsItsBase == pending # {} => snapshot = validatedAt

\* "Reload discarding unsaved commands or text requires explicit confirmation"
\* (docs/LOCAL_NOTATION_STATE_KERNEL.md:50).
DiscardIsConfirmed == unasked = {}

\* "The frontend retains pending commands until Save succeeds" (line 50 as well)
\* and "Keeping the drafts keeps them copyable" (ConflictPanel.tsx): what is
\* neither saved nor discarded is still there, also after stale drafts are kept.
PendingAreRetained ==
  accepted \subseteq Kept \cup (UNION {saved[v] : v \in 1 .. Version}) \cup discarded \cup unasked
=============================================================================
