--------------------------- MODULE SourceCapture ---------------------------
(***************************************************************************)
(* The two operator-run connectors, acquisition/store.ts (the FMCSA        *)
(* company census) and acquisition/samsara-store.ts (GPS history):         *)
(* capture() and inspect() of processes that share one folder.             *)
(*                                                                         *)
(* A capture binds its request by an intent, takes a slot of the minute    *)
(* and one of the day, contacts the provider, stores the bytes it got and  *)
(* closes with a receipt.  All of these are immutable files                *)
(* (ImmutableFiles).  An inspection reads them one after the other, while  *)
(* another process may be writing them.                                    *)
(*                                                                         *)
(* A scope is what a request asks for: the carriers of a census request,   *)
(* or the authorization, and with it the connection, of a Samsara request. *)
(* What a provider answers is abstracted to whether it can be parsed.  The *)
(* source policy is in force before PolicyEnd.  Digests and the formats of *)
(* the stored records are left out.                                        *)
(***************************************************************************)
EXTENDS Integers, FiniteSets

CONSTANTS
  Tasks,            \* calls of capture and inspect that may run at once
  Requests,         \* requests: an identity and a scope
  None,
  MaxTime,          \* the clock shows minutes 0 .. MaxTime, and may be set back
  DayLength,        \* minutes of a day
  DaySlots,         \* 4 requests in a day
  PolicyEnd,        \* the minute from which the policy permits nothing
  MayFail,          \* whether calls of the file system may fail
  MayCrash          \* whether a process may be killed

Ids == {r.id : r \in Requests}

ASSUME CaptureAssumption ==
  /\ None \notin Requests
  /\ MaxTime \in Nat
  /\ DayLength \in Nat \ {0}
  /\ DaySlots \in Nat
  /\ MayFail \in BOOLEAN
  /\ MayCrash \in BOOLEAN

Times == 0 .. MaxTime
Day(at) == at \div DayLength
Days == {Day(at) : at \in Times}

\* The records a capture leaves behind.
Codes == {"none", "LOCAL_BUDGET_EXHAUSTED", "FETCH_FAILED"}
Intents == [scope : {r.scope : r \in Requests}, at : Times]
Acquisitions == [content : {"good", "bad"}, at : Times]
Receipts == [state : {"FAILED", "CAPTURED", "QUARANTINED"}, code : Codes, at : Times]

\* A record that is absent is none of them, and a request is an identity and a
\* scope and nothing else.
ASSUME AbsentAssumption ==
  /\ None \notin Ids
  /\ None \notin Intents \cup Acquisitions \cup Receipts
  /\ \A r \in Requests : r = [id |-> r.id, scope |-> r.scope]

VARIABLES
  store,            \* "census" or "samsara"; does not change
  intents,          \* the intent of each identity, or None
  minutes,          \* the identity that took the slot of each minute, or None
  days,             \* the identities that took the slots of each day, or None
  binding,          \* samsara-binding.json: the scope bound to the folder
  evidence,         \* the acquisition of each identity, or None
  receipts,         \* the receipt of each identity, or None
  pc,               \* where each call is
  request,          \* the request of each call
  why,              \* what its inspection is for
  seen,             \* what its inspection has read
  draft,            \* what its capture has found out
  starts,           \* history: how often the work of an identity was begun
  contacts,         \* history: how often a provider was contacted for it
  told,             \* history: the requests and receipts answered
  misread           \* history: identities that took a slot of their own for lost

files == <<intents, minutes, days, binding, evidence, receipts>>
locals == <<request, why, seen, draft>>
history == <<starts, contacts, told, misread>>
vars == <<store, files, pc, locals, history>>

-----------------------------------------------------------------------------
At(t, place) == pc[t] = place
Goto(t, place) == pc' = [pc EXCEPT ![t] = place]

Id(t) == request[t].id

Active(at) == at < PolicyEnd

NothingSeen == [receipt |-> None, evidence |-> None, now |-> 0]
NoDraft == [at |-> 0, earliest |-> 0, slot |-> 1, content |-> "none", code |-> "none"]

\* The call is over: its caller got an exception, or an inspection without a
\* receipt.
Rest(t) ==
  /\ Goto(t, "idle")
  /\ request' = [request EXCEPT ![t] = None]
  /\ why' = [why EXCEPT ![t] = "none"]
  /\ seen' = [seen EXCEPT ![t] = NothingSeen]
  /\ draft' = [draft EXCEPT ![t] = NoDraft]

Refuse(t) == Rest(t) /\ UNCHANGED told

Proceed(t, place) == Goto(t, place) /\ UNCHANGED <<locals, told>>

\* A draft with more in it, on the way to a place.
Draft(t, place, d) ==
  /\ Goto(t, place)
  /\ draft' = [draft EXCEPT ![t] = d]
  /\ UNCHANGED <<request, why, seen, told>>

See(t, place, s) ==
  /\ Goto(t, place)
  /\ seen' = [seen EXCEPT ![t] = s]
  /\ UNCHANGED <<request, why, draft, told>>

\* The capture calls inspect().
Inspect(t) ==
  /\ Goto(t, "inspect")
  /\ why' = [why EXCEPT ![t] = "again"]
  /\ draft' = [draft EXCEPT ![t] = NoDraft]
  /\ UNCHANGED <<request, seen, told>>

\* The capture is over; its receipt is next.
Conclude(t, code, earliest) ==
  Draft(t, "finish", [draft[t] EXCEPT !.code = code, !.earliest = earliest])

-----------------------------------------------------------------------------
(* inspect().                                                              *)
OwnsMinute(i, at) == minutes[at] = i
OwnsDay(i, at) == \E slot \in 1 .. DaySlots : days[Day(at)][slot] = i

\* validateBudget: whoever may have contacted the provider paid for it.
Paid(i, at) == OwnsMinute(i, at) /\ OwnsDay(i, at)

\* validateBudgetDenial: there was no slot left to take.
Denied(i, at) ==
  /\ minutes[at] # None
  /\ OwnsMinute(i, at) => \A slot \in 1 .. DaySlots : days[Day(at)][slot] \notin {None, i}

Receipt(state, code, at) == [state |-> state, code |-> code, at |-> at]

\* Whether the records that were read fit together.
Consistent(i, intent, receipt, acquired) ==
  /\ Active(intent.at)
  /\ acquired # None => acquired.at >= intent.at /\ Paid(i, intent.at)
  /\ receipt # None =>
       /\ receipt.at >= intent.at
       /\ \/ /\ receipt.state = "FAILED" /\ acquired = None
             /\ IF receipt.code = "LOCAL_BUDGET_EXHAUSTED"
                THEN Denied(i, intent.at) ELSE Paid(i, intent.at)
          \/ /\ receipt.state # "FAILED" /\ acquired # None
             /\ Paid(i, intent.at)
             /\ receipt.at >= acquired.at /\ Active(acquired.at)
             /\ receipt.state = (IF acquired.content = "good" THEN "CAPTURED" ELSE "QUARANTINED")

\* A client asks for a capture.  inspect() by itself is one that ends at
\* Claim, as a capture does when collection is not enabled.
Begin(t, r) ==
  /\ At(t, "idle")
  /\ Goto(t, "inspect")
  /\ request' = [request EXCEPT ![t] = r]
  /\ why' = [why EXCEPT ![t] = "first"]
  /\ UNCHANGED <<store, files, seen, draft, history>>

\* Customer data is only shown while its use is authorized now, under the
\* connection this folder is bound to, and if it does not come from later.
Shown(intent, now) ==
  store = "samsara" => now >= intent.at /\ Active(now) /\ binding = intent.scope

Past(s) ==
  store = "samsara" =>
    \A record \in {s.receipt, s.evidence} : record # None => record.at <= s.now

\* Mutant: the receipt is read last.
EvidenceFirst == <<"evidence", "receipt">>

\* The records an inspection reads, in its order.
Order == IF store = "census" THEN <<"receipt", "evidence">> ELSE <<"evidence", "receipt">>

ReadIntent(t) ==
  /\ At(t, "inspect")
  /\ LET intent == intents[Id(t)] IN
       \/ intent = None /\ Proceed(t, "orphan")
       \/ intent # None /\ store = "census" /\ Proceed(t, "first record")
       \/ \E now \in Times :
            /\ intent # None /\ store = "samsara" /\ Shown(intent, now)
            /\ See(t, "first record", [NothingSeen EXCEPT !.now = now])
       \/ \E now \in Times :
            /\ (intent # None /\ ~ Shown(intent, now)) \/ MayFail
            /\ Refuse(t)
  /\ UNCHANGED <<store, files, starts, contacts, misread>>

\* Without an intent there may be no other record of the request either.  A
\* capture goes on when there is none; after a lost claim it throws.
CheckOrphan(t) ==
  /\ At(t, "orphan")
  /\ \/ /\ receipts[Id(t)] = None /\ evidence[Id(t)] = None /\ why[t] = "first"
        /\ Proceed(t, "claim")
     \/ /\ receipts[Id(t)] # None \/ evidence[Id(t)] # None \/ why[t] = "again" \/ MayFail
        /\ Refuse(t)
  /\ UNCHANGED <<store, files, starts, contacts, misread>>

Read(t, record, place) ==
  See(t, place, [seen[t] EXCEPT ![record] = IF record = "receipt" THEN receipts[Id(t)]
                                            ELSE evidence[Id(t)]])

ReadRecord(t) ==
  /\ \/ At(t, "first record") /\ Read(t, Order[1], "second record")
     \/ At(t, "second record") /\ Read(t, Order[2], "judge")
  /\ UNCHANGED <<store, files, starts, contacts, misread>>

\* The inspection ends, and with it the call: with the receipt, INCOMPLETE, a
\* conflict of scopes, or a refusal of the history.
Judge(t) ==
  /\ At(t, "judge")
  /\ LET s == seen[t]
         intent == intents[Id(t)]
         answers == /\ Consistent(Id(t), intent, s.receipt, s.evidence) /\ Past(s)
                    /\ intent.scope = request[t].scope
                    /\ s.receipt # None IN
       \/ answers /\ Rest(t) /\ told' = told \cup {<<request[t], s.receipt>>}
       \/ (~ answers \/ MayFail) /\ Refuse(t)
  /\ UNCHANGED <<store, files, starts, contacts, misread>>

-----------------------------------------------------------------------------
(* capture().                                                              *)

\* Collection is not enabled, the policy denies it, or the clock is taken.
Claim(t) ==
  /\ At(t, "claim")
  /\ \/ \E now \in Times :
          /\ Active(now)
          /\ Draft(t, IF store = "samsara" THEN "bind" ELSE "intend", [draft[t] EXCEPT !.at = now])
     \/ Refuse(t)
  /\ UNCHANGED <<store, files, starts, contacts, misread>>

\* The folder is bound to the first connection; a later one has to be it.
Bind(t) ==
  /\ At(t, "bind")
  /\ \/ binding \in {None, request[t].scope} /\ binding' = request[t].scope /\ Proceed(t, "intend")
     \/ binding \notin {None, request[t].scope} /\ UNCHANGED binding /\ Refuse(t)
     \/ MayFail /\ binding' \in {binding, IF binding = None THEN request[t].scope ELSE binding}
                /\ Refuse(t)
  /\ UNCHANGED <<store, intents, minutes, days, evidence, receipts, starts, contacts, misread>>

\* Mutant: whoever finds his own request claimed works on it.
PublishIntentOrResume(t) ==
  /\ At(t, "intend")
  /\ LET i == Id(t) IN
       \/ /\ intents[i] = None
          /\ intents' = [intents EXCEPT ![i] = [scope |-> request[t].scope, at |-> draft[t].at]]
          /\ Proceed(t, "minute")
       \/ /\ intents[i] # None /\ intents[i].scope = request[t].scope
          /\ UNCHANGED intents
          /\ Draft(t, "minute", [draft[t] EXCEPT !.at = intents[i].at])
       \/ /\ intents[i] # None /\ intents[i].scope # request[t].scope
          /\ UNCHANGED intents
          /\ Inspect(t)
  /\ UNCHANGED <<store, minutes, days, binding, evidence, receipts, starts, contacts, misread>>

\* The intent is published, create-only and with a nonce of its own.  A call
\* that did not create it, or does not know, inspects what is there.
PublishIntent(t) ==
  /\ At(t, "intend")
  /\ LET i == Id(t)
         made == [intents EXCEPT ![i] = [scope |-> request[t].scope, at |-> draft[t].at]] IN
       \/ intents[i] = None /\ intents' = made /\ Proceed(t, "minute")
       \/ /\ intents' \in (IF intents[i] # None THEN {intents} ELSE
                           IF MayFail THEN {intents, made} ELSE {})
          /\ Inspect(t)
  /\ UNCHANGED <<store, minutes, days, binding, evidence, receipts, starts, contacts, misread>>

\* budget(): a call that publishes the claim of a slot and throws may have made
\* it.  The census store throws on, when the slot is its own or nobody's.  The
\* Samsara store asks only whether there is a claim, and if there is one takes
\* the slot for lost, its own as well.
Misreads(t) ==
  /\ MayFail /\ store = "samsara"
  /\ misread' = misread \cup {Id(t)}

\* reserveBudget: the slot of the minute in which the request was started.  A
\* failure that cannot be told from a success ends the call, without a receipt.
TakeMinute(t) ==
  /\ At(t, "minute")
  /\ LET m == draft[t].at
         taken == [minutes EXCEPT ![m] = Id(t)]
         lost == Conclude(t, "LOCAL_BUDGET_EXHAUSTED", draft[t].at) IN
       \/ minutes[m] = None /\ minutes' = taken /\ Proceed(t, "day") /\ UNCHANGED misread
       \/ minutes[m] # None /\ UNCHANGED <<minutes, misread>> /\ lost
       \/ minutes[m] = None /\ minutes' = taken /\ Misreads(t) /\ lost
       \/ MayFail /\ minutes' \in {minutes, IF minutes[m] = None THEN taken ELSE minutes}
                  /\ Refuse(t) /\ UNCHANGED misread
  /\ starts' = [starts EXCEPT ![Id(t)] = @ + 1]
  /\ UNCHANGED <<store, intents, days, binding, evidence, receipts, contacts>>

\* Mutant: a slot of the day that was free when it was looked at is taken.
TakeDayTogether(t) ==
  /\ At(t, "day")
  /\ LET d == Day(draft[t].at)
         free == {slot \in 1 .. DaySlots : days[d][slot] = None} IN
       \/ /\ days' = [days EXCEPT ![d][DaySlots] = Id(t)]
          /\ Proceed(t, "contact")
       \/ /\ free = {} /\ UNCHANGED days
          /\ Conclude(t, "LOCAL_BUDGET_EXHAUSTED", draft[t].at)
  /\ UNCHANGED <<store, intents, minutes, binding, evidence, receipts, starts, contacts, misread>>

\* The slots of the day are tried in their order.
TakeDay(t) ==
  /\ At(t, "day")
  /\ LET d == Day(draft[t].at)
         slot == draft[t].slot
         taken == [days EXCEPT ![d][slot] = Id(t)]
         free == slot <= DaySlots /\ days[d][slot] = None
         lost == Draft(t, "day", [draft[t] EXCEPT !.slot = @ + 1]) IN
       \/ free /\ days' = taken /\ Proceed(t, "contact") /\ UNCHANGED misread
       \/ slot <= DaySlots /\ ~ free /\ UNCHANGED <<days, misread>> /\ lost
       \/ free /\ days' = taken /\ Misreads(t) /\ lost
       \/ /\ slot > DaySlots /\ UNCHANGED <<days, misread>>
          /\ Conclude(t, "LOCAL_BUDGET_EXHAUSTED", draft[t].at)
       \/ /\ MayFail /\ slot <= DaySlots /\ days' \in {days, IF free THEN taken ELSE days}
          /\ Refuse(t) /\ UNCHANGED misread
  /\ UNCHANGED <<store, intents, minutes, binding, evidence, receipts, starts, contacts>>

Contact(t) ==
  /\ At(t, "contact")
  /\ contacts' = [contacts EXCEPT ![Id(t)] = @ + 1]
  /\ Proceed(t, "waiting")
  /\ UNCHANGED <<store, files, starts, misread>>

\* The provider answers, or the fetch fails.  Bytes are only kept if the
\* clock has not gone back and the policy still permits it.
Respond(t) ==
  /\ At(t, "waiting")
  /\ \/ Conclude(t, "FETCH_FAILED", draft[t].at)
     \/ \E now \in Times :
          LET kept == now >= draft[t].at /\ Active(now) IN
            \/ \E content \in {"good", "bad"} :
                 kept /\ Draft(t, "store", [draft[t] EXCEPT !.content = content, !.earliest = now])
            \/ ~ kept /\ Refuse(t)
  /\ UNCHANGED <<store, files, starts, contacts, misread>>

\* The bytes enter the evidence rail before anything is parsed.
StoreEvidence(t) ==
  /\ At(t, "store")
  /\ LET d == draft[t]
         stored == [evidence EXCEPT ![Id(t)] = [content |-> d.content, at |-> d.earliest]] IN
       \/ evidence' = stored /\ Proceed(t, "finish")
       \/ MayFail /\ evidence' \in {evidence, stored} /\ Refuse(t)
  /\ UNCHANGED <<store, intents, minutes, days, binding, receipts, starts, contacts, misread>>

Outcome(d, now) ==
  Receipt(IF d.code # "none" THEN "FAILED" ELSE IF d.content = "good" THEN "CAPTURED"
          ELSE "QUARANTINED", d.code, now)

\* finish(): the receipt is published and inspected, unless the clock went
\* back since the evidence was captured.
Finish(t) ==
  /\ At(t, "finish")
  /\ \E now \in Times :
       LET closed == [receipts EXCEPT ![Id(t)] = Outcome(draft[t], now)]
           late == now < draft[t].earliest IN
         \/ ~ late /\ receipts' = closed /\ Inspect(t)
         \/ late /\ UNCHANGED receipts /\ Refuse(t)
         \/ MayFail /\ ~ late /\ receipts' \in {receipts, closed} /\ Refuse(t)
  /\ UNCHANGED <<store, intents, minutes, days, binding, evidence, starts, contacts, misread>>

-----------------------------------------------------------------------------
(* Failures.                                                               *)
Crash(t) ==
  /\ MayCrash
  /\ ~ At(t, "idle")
  /\ Refuse(t)
  /\ UNCHANGED <<store, files, starts, contacts, misread>>

-----------------------------------------------------------------------------
Init ==
  /\ store \in {"census", "samsara"}
  /\ intents = [i \in Ids |-> None]
  /\ minutes = [m \in Times |-> None]
  /\ days = [d \in Days |-> [slot \in 1 .. DaySlots |-> None]]
  /\ binding = None
  /\ evidence = [i \in Ids |-> None]
  /\ receipts = [i \in Ids |-> None]
  /\ pc = [t \in Tasks |-> "idle"]
  /\ request = [t \in Tasks |-> None]
  /\ why = [t \in Tasks |-> "none"]
  /\ seen = [t \in Tasks |-> NothingSeen]
  /\ draft = [t \in Tasks |-> NoDraft]
  /\ starts = [i \in Ids |-> 0]
  /\ contacts = [i \in Ids |-> 0]
  /\ told = {}
  /\ misread = {}

Step(t) ==
  \/ ReadIntent(t) \/ CheckOrphan(t) \/ ReadRecord(t) \/ Judge(t)
  \/ Claim(t) \/ Bind(t) \/ PublishIntent(t) \/ TakeMinute(t) \/ TakeDay(t)
  \/ Contact(t) \/ Respond(t) \/ StoreEvidence(t) \/ Finish(t)

Next ==
  \/ \E t \in Tasks :
       \/ \E r \in Requests : Begin(t, r)
       \/ Step(t)
       \/ Crash(t)

Spec == Init /\ [][Next]_vars

-----------------------------------------------------------------------------
(* Type invariant.                                                         *)
Places ==
  {"idle", "inspect", "orphan", "first record", "second record", "judge", "claim", "bind",
   "intend", "minute", "day", "contact", "waiting", "store", "finish"}

TypeOK ==
  /\ store \in {"census", "samsara"}
  /\ intents \in [Ids -> Intents \cup {None}]
  /\ minutes \in [Times -> Ids \cup {None}]
  /\ days \in [Days -> [1 .. DaySlots -> Ids \cup {None}]]
  /\ binding \in {r.scope : r \in Requests} \cup {None}
  /\ evidence \in [Ids -> Acquisitions \cup {None}]
  /\ receipts \in [Ids -> Receipts \cup {None}]
  /\ pc \in [Tasks -> Places]
  /\ request \in [Tasks -> Requests \cup {None}]
  /\ why \in [Tasks -> {"none", "first", "again"}]
  /\ seen \in [Tasks -> [receipt : Receipts \cup {None}, evidence : Acquisitions \cup {None},
                         now : Times]]
  /\ draft \in [Tasks -> [at : Times, earliest : Times, slot : 1 .. DaySlots + 1,
                          content : {"none", "good", "bad"}, code : Codes]]
  /\ starts \in [Ids -> Nat]
  /\ contacts \in [Ids -> Nat]
  /\ told \subseteq Requests \X Receipts
  /\ misread \subseteq Ids

-----------------------------------------------------------------------------
(* Safety.                                                                 *)

\* "Atomic create-only files permit at most one outbound attempt per UTC
\* minute and four per UTC day" (docs/LOCAL_SOURCE_CONNECTORS.md), counted by
\* the minute in which an attempt was started: across processes, kills and
\* failing calls, and for one request never more than one attempt.
BudgetHolds ==
  LET spent == {i \in Ids : contacts[i] > 0} IN
  /\ \A i \in Ids : contacts[i] <= 1
  /\ \A i, j \in spent : i # j => intents[i].at # intents[j].at
  /\ \A d \in Days : Cardinality({i \in spent : Day(intents[i].at) = d}) <= DaySlots

\* A denial of a GPS request by itself: a slot of its own was taken for lost.
SelfDenied(i) ==
  /\ store = "samsara" /\ i \in misread
  /\ OwnsMinute(i, intents[i].at) /\ Active(intents[i].at)
  /\ evidence[i] = None
  /\ \E at \in Times : at >= intents[i].at
                     /\ receipts[i] = Receipt("FAILED", "LOCAL_BUDGET_EXHAUSTED", at)

\* What captures leave behind, finished, refused or interrupted anywhere,
\* passes the checks of every later inspection, except the denial of a GPS
\* request by itself, which no inspection accepts: that such denials occur is
\* shown by a run of its own (DenialsAreJustified).  The census store reads the
\* receipt before the evidence, so that what it puts together while a capture
\* is running passes the checks as well.
HistoryValidates ==
  /\ \A i \in Ids :
       IF intents[i] = None THEN receipts[i] = None /\ evidence[i] = None
       ELSE Consistent(i, intents[i], receipts[i], evidence[i]) \/ SelfDenied(i)
  /\ \A t \in Tasks :
       At(t, "judge") /\ store = "census" =>
         Consistent(Id(t), intents[Id(t)], seen[t].receipt, seen[t].evidence)

\* What samsara-store.ts:134-139 asserts of a saved LOCAL_BUDGET_EXHAUSTED, the
\* recheck of "budget bindings" of docs/SAMSARA_CONNECTOR.md: a request that was
\* denied has no slot of its own, unless its minute, while others have the day.
DenialsAreJustified ==
  \A i \in Ids :
    receipts[i] # None /\ receipts[i].code = "LOCAL_BUDGET_EXHAUSTED" => Denied(i, intents[i].at)

\* "Exact retries do not recontact the provider or repair history. Changed
\* requests under an existing ID conflict" (docs/SAMSARA_CONNECTOR.md): an
\* identity is bound to one scope, is worked on once, by the call that created
\* its intent, and has one receipt, which is all that anybody is told.
Scopes == [i \in Ids |-> IF intents[i] = None THEN None
                         ELSE [id |-> i, scope |-> intents[i].scope]]

Contract == INSTANCE RunsOnce WITH Commands <- Requests, bound <- Scopes, outcome <- receipts

RunsOnceSpec == Contract!Spec

=============================================================================
