--------------------------- MODULE ServicesProofs ---------------------------
(***************************************************************************)
(* Proofs about services that share no state with one another, for any     *)
(* number of calls, any requests and any clock: the two operator-run       *)
(* connectors, whose module this one extends, and those of Services: the   *)
(* GAT audits, the compute stores, the spatial analyses, the evidence      *)
(* rail, the slots of the production workers and one contact of a          *)
(* connector. Each is proved of its own specification; the last section    *)
(* concludes what the runs of Services check.                              *)
(***************************************************************************)
EXTENDS SourceCapture, Services, FiniteSetTheorems, TLAPS

-----------------------------------------------------------------------------
(* SourceCapture. The inductive invariant.                                 *)

\* The call that created the intent of its identity works on it, alone.
Working(t) == pc[t] \in {"minute", "day", "contact", "waiting", "store", "finish"}

WorksAlone ==
  \A t, u \in Tasks : Working(t) /\ Working(u) /\ Id(t) = Id(u) => t = u

\* What identity i has paid, and has not paid, of the budget.
NoMinute(i) == \A m \in Times : minutes[m] # i
NoDay(i) == \A d \in Days, slot \in 1 .. DaySlots : days[d][slot] # i

\* What a working call knows at each of its places.
Progress(t) ==
  LET i == Id(t)
      d == draft[t]
      contacted(n) == starts[i] = 1 /\ contacts[i] = n IN
  /\ intents[i] = [scope |-> request[t].scope, at |-> d.at]
  /\ receipts[i] = None
  /\ ~ At(t, "finish") => d.code = "none" /\ evidence[i] = None
  /\ At(t, "minute") => starts[i] = 0 /\ contacts[i] = 0 /\ NoMinute(i) /\ NoDay(i) /\ d.slot = 1
  /\ At(t, "day") =>
       /\ contacted(0) /\ OwnsMinute(i, d.at) /\ (i \in misread \/ NoDay(i))
       /\ \A slot \in 1 .. DaySlots : slot < d.slot => days[Day(d.at)][slot] # None
  /\ At(t, "contact") => contacted(0) /\ Paid(i, d.at)
  /\ At(t, "waiting") => contacted(1) /\ Paid(i, d.at)
  /\ At(t, "store") =>
       /\ contacted(1) /\ Paid(i, d.at)
       /\ d.content # "none" /\ d.earliest >= d.at /\ Active(d.earliest)
  /\ At(t, "finish") =>
       /\ starts[i] = 1
       /\ d.earliest >= d.at
       /\ \/ /\ d.code = "none" /\ d.content # "none" /\ Active(d.earliest) /\ Paid(i, d.at)
             /\ evidence[i] = [content |-> d.content, at |-> d.earliest]
          \/ d.code = "FETCH_FAILED" /\ evidence[i] = None /\ Paid(i, d.at)
          \/ /\ d.code = "LOCAL_BUDGET_EXHAUSTED" /\ evidence[i] = None
             /\ Denied(i, d.at) \/ (i \in misread /\ OwnsMinute(i, d.at))

\* What an inspection has read was there when it read it, and still is.
Reading(t) == pc[t] \in {"first record", "second record", "judge"}

Found(t) ==
  /\ intents[Id(t)] # None
  /\ seen[t].receipt \in {None, receipts[Id(t)]}
  /\ seen[t].evidence \in {None, evidence[Id(t)]}
  /\ At(t, "first record") => seen[t].receipt = None /\ seen[t].evidence = None
  /\ At(t, "second record") /\ store = "census" => seen[t].evidence = None
  /\ At(t, "judge") /\ store = "census" /\ seen[t].receipt # None =>
       seen[t].evidence = evidence[Id(t)]

CallInv(t) ==
  /\ At(t, "idle") <=> request[t] = None
  /\ ~ Reading(t) => seen[t] = NothingSeen
  /\ pc[t] \in {"idle", "inspect", "orphan", "claim"} => draft[t] = NoDraft
  /\ pc[t] \in {"bind", "intend"} =>
       Active(draft[t].at) /\ draft[t].slot = 1 /\ draft[t].code = "none"
  /\ Working(t) => Progress(t)
  /\ Reading(t) => Found(t)

\* The records of an identity fit together, or are a denial by itself.
Fits(i, intent, receipt, acquired) ==
  \/ Consistent(i, intent, receipt, acquired)
  \/ /\ i \in misread /\ OwnsMinute(i, intent.at) /\ Active(intent.at) /\ acquired = None
     /\ \E at \in Times : at >= intent.at
                        /\ receipt = Receipt("FAILED", "LOCAL_BUDGET_EXHAUSTED", at)

\* What the files say of each identity.
IdentityInv(i) ==
  /\ intents[i] = None =>
       /\ starts[i] = 0 /\ contacts[i] = 0 /\ NoMinute(i) /\ NoDay(i)
       /\ receipts[i] = None /\ evidence[i] = None
  /\ intents[i] # None =>
       /\ Fits(i, intents[i], receipts[i], evidence[i])
       /\ [id |-> i, scope |-> intents[i].scope] \in Requests
  /\ contacts[i] <= 1
  /\ contacts[i] > 0 => intents[i] # None /\ Paid(i, intents[i].at)

CaptureInv ==
  /\ TypeOK
  /\ WorksAlone
  /\ store = "census" => misread = {}
  /\ \A t \in Tasks : CallInv(t)
  /\ \A i \in Ids : IdentityInv(i)

-----------------------------------------------------------------------------
(* Steps of one call do not disturb the others.                            *)

OthersWait(t) ==
  \A u \in Tasks \ {t} :
    /\ pc'[u] = pc[u] /\ request'[u] = request[u]
    /\ seen'[u] = seen[u] /\ draft'[u] = draft[u]

\* A step of call t about identity i: it may fill slots that are empty, for i,
\* and write records of i that are not there yet; and it does so only while it
\* works on i, or when nobody does.
Touches(t, i) ==
  /\ store' = store
  /\ misread \subseteq misread' /\ (store = "census" => misread' = misread)
  /\ OthersWait(t)
  /\ \A j \in Ids \ {i} :
       /\ intents'[j] = intents[j] /\ evidence'[j] = evidence[j] /\ receipts'[j] = receipts[j]
       /\ starts'[j] = starts[j] /\ contacts'[j] = contacts[j]
  /\ \A m \in Times : minutes'[m] = minutes[m] \/ (minutes[m] = None /\ minutes'[m] = i)
  /\ \A d \in Days, slot \in 1 .. DaySlots :
       days'[d][slot] = days[d][slot] \/ (days[d][slot] = None /\ days'[d][slot] = i)
  /\ intents[i] # None => intents'[i] = intents[i]
  /\ evidence[i] # None => evidence'[i] = evidence[i]
  /\ receipts[i] # None => receipts'[i] = receipts[i] /\ evidence'[i] = evidence[i]
  /\ \/ Working(t) /\ Id(t) = i
     \/ i \in Ids /\ intents[i] = None
     \/ UNCHANGED <<intents, minutes, days, evidence, receipts, starts, contacts>>
  /\ Working(t)' =>
       Id(t)' = i /\ ((Working(t) /\ Id(t) = i) \/ (i \in Ids /\ intents[i] = None))

\* Slots that are taken stay taken, and what was misread stays so.
SlotsStay ==
  /\ misread \subseteq misread'
  /\ \A m \in Times : minutes[m] # None => minutes'[m] = minutes[m]
  /\ \A d \in Days, slot \in 1 .. DaySlots :
       days[d][slot] # None => days'[d][slot] = days[d][slot]

LEMMA BudgetStays ==
  ASSUME SlotsStay, NEW i \in Ids, NEW at \in Times
  PROVE  /\ Paid(i, at) => Paid(i, at)'
         /\ Denied(i, at) => Denied(i, at)'
<1>1. Day(at) \in Days
  BY DEF Days
<1>2. i # None
  BY AbsentAssumption
<1> QED BY <1>1, <1>2 DEF SlotsStay, Paid, Denied, OwnsMinute, OwnsDay

LEMMA ConsistencyStays ==
  ASSUME SlotsStay, NEW i \in Ids, NEW intent \in Intents, NEW receipt, NEW acquired,
         Fits(i, intent, receipt, acquired)
  PROVE  Fits(i, intent, receipt, acquired)'
<1>1. intent.at \in Times
  BY DEF Intents
<1>2. /\ Paid(i, intent.at) => Paid(i, intent.at)'
      /\ Denied(i, intent.at) => Denied(i, intent.at)'
      /\ OwnsMinute(i, intent.at) => OwnsMinute(i, intent.at)'
  BY <1>1, BudgetStays, AbsentAssumption DEF SlotsStay, OwnsMinute
<1>3. i \in misread => (i \in misread)'
  BY DEF SlotsStay
<1>4. Active(intent.at) <=> Active(intent.at)'
  BY DEF Active
<1>5. CASE Consistent(i, intent, receipt, acquired)
  BY <1>2, <1>5 DEF Fits, Consistent, Active
<1>6. CASE ~ Consistent(i, intent, receipt, acquired)
  BY <1>2, <1>3, <1>4, <1>6 DEF Fits, Receipt
<1> QED BY <1>5, <1>6

\* While there is no receipt, the records fit together.
LEMMA FitWithoutReceipt ==
  ASSUME NEW i, NEW intent, NEW acquired, Fits(i, intent, None, acquired)
  PROVE  Consistent(i, intent, None, acquired)
<1>1. \A at \in Times : Receipt("FAILED", "LOCAL_BUDGET_EXHAUSTED", at) # None
  BY AbsentAssumption DEF Receipt, Receipts, Codes
<1> QED BY <1>1 DEF Fits

LEMMA WorkingFacts ==
  ASSUME CaptureInv, NEW t \in Tasks, Working(t)
  PROVE  /\ Id(t) \in Ids /\ request[t] \in Requests
         /\ intents[Id(t)] # None /\ intents[Id(t)] \in Intents
         /\ intents[Id(t)].at = draft[t].at /\ draft[t].at \in Times /\ Day(draft[t].at) \in Days
         /\ Progress(t)
<1>1. request[t] \in Requests /\ Progress(t)
  BY DEF CaptureInv, CallInv, TypeOK, Working, At
<1>2. Id(t) \in Ids
  BY <1>1 DEF Ids, Id
<1>3. draft[t].at \in Times
  BY DEF CaptureInv, TypeOK
<1>4. intents[Id(t)] = [scope |-> request[t].scope, at |-> draft[t].at]
  BY <1>1 DEF Progress
<1>5. intents[Id(t)] \in Intents
  BY <1>1, <1>3, <1>4 DEF Intents
<1> QED BY <1>1, <1>2, <1>3, <1>4, <1>5, AbsentAssumption DEF Days

LEMMA TouchesKeeps ==
  ASSUME CaptureInv, TypeOK', NEW t \in Tasks, NEW i, Touches(t, i),
         CallInv(t)', i \in Ids => IdentityInv(i)'
  PROVE  CaptureInv'
<1>1. SlotsStay
  BY DEF Touches, SlotsStay
<1>2. ASSUME NEW j \in Ids \ {i}
      PROVE  IdentityInv(j)'
  <2>1. IdentityInv(j) /\ j # None
    BY AbsentAssumption DEF CaptureInv
  <2>2. NoMinute(j) => NoMinute(j)'
    BY DEF Touches, NoMinute
  <2>3. NoDay(j) => NoDay(j)'
    BY DEF Touches, NoDay
  <2>4. intents[j] # None => intents[j] \in Intents /\ intents[j].at \in Times
    BY DEF CaptureInv, TypeOK, Intents
  <2>5. intents[j] # None /\ Fits(j, intents[j], receipts[j], evidence[j]) =>
          Fits(j, intents[j], receipts[j], evidence[j])'
    <3> DEFINE x == intents[j]
               y == receipts[j]
               z == evidence[j]
    <3>1. x' = x /\ y' = y /\ z' = z
      BY DEF Touches
    <3> SUFFICES ASSUME x # None, Fits(j, x, y, z)
                 PROVE  Fits(j, x, y, z)'
      OBVIOUS
    <3>2. PICK a, b, c : a \in Intents /\ a = x /\ b = y /\ c = z
      BY <2>4
    <3>3. Fits(j, a, b, c)'
      BY <1>1, <3>2, ConsistencyStays
    <3> QED BY <3>1, <3>2, <3>3
  <2>6. intents[j] # None /\ Paid(j, intents[j].at) => Paid(j, intents[j].at)'
    BY <1>1, <2>4, BudgetStays DEF Touches, Paid, OwnsMinute, OwnsDay
  <2> QED BY <2>1, <2>2, <2>3, <2>5, <2>6 DEF Touches, IdentityInv
<1>3. ASSUME NEW u \in Tasks \ {t}
      PROVE  CallInv(u)'
  <2> DEFINE j == Id(u)
  <2>1. CallInv(u) /\ j' = j /\ draft'[u] = draft[u] /\ seen'[u] = seen[u] /\ pc'[u] = pc[u]
        /\ request'[u] = request[u] /\ store' = store
    BY DEF CaptureInv, Touches, OthersWait, Id
  <2>2. ASSUME Working(u)
        PROVE  Progress(u)'
    <3>1. /\ j \in Ids /\ intents[j] # None /\ draft[u].at \in Times /\ Day(draft[u].at) \in Days
          /\ Progress(u)
      BY <2>2, WorkingFacts
    <3>2. /\ intents'[j] = intents[j] /\ evidence'[j] = evidence[j] /\ receipts'[j] = receipts[j]
          /\ starts'[j] = starts[j] /\ contacts'[j] = contacts[j]
          /\ NoMinute(j) => NoMinute(j)'
          /\ NoDay(j) => NoDay(j)'
      <4>1. CASE j # i
        BY <2>1, <3>1, <4>1, AbsentAssumption DEF Touches, NoMinute, NoDay
      <4>2. CASE j = i
        BY <2>1, <2>2, <3>1, <4>2 DEF Touches, CaptureInv, WorksAlone, NoMinute, NoDay
      <4> QED BY <4>1, <4>2
    <3>3. /\ Paid(j, draft[u].at) => Paid(j, draft[u].at)'
          /\ Denied(j, draft[u].at) => Denied(j, draft[u].at)'
          /\ OwnsMinute(j, draft[u].at) => OwnsMinute(j, draft[u].at)'
      BY <1>1, <2>1, <3>1, AbsentAssumption
         DEF Paid, Denied, OwnsMinute, OwnsDay, SlotsStay
    <3>4. \A slot \in 1 .. DaySlots :
            days[Day(draft[u].at)][slot] # None => days'[Day(draft[u].at)][slot] # None
      BY <1>1, <3>1 DEF SlotsStay
    <3>5. j \in misread => j \in misread'
      BY <1>1 DEF SlotsStay
    <3> HIDE DEF j
    <3> QED BY <2>1, <3>1, <3>2, <3>3, <3>4, <3>5 DEF j, Progress, At, Active
  <2>3. ASSUME Reading(u)
        PROVE  Found(u)'
    <3>1. Found(u) /\ request[u] \in Requests
      BY ZenonT(40), <2>1, <2>3 DEF CallInv, Reading, At, CaptureInv, TypeOK
    <3>2. j \in Ids
      BY <3>1 DEF Ids, Id
    <3>3. /\ intents[j] # None => intents'[j] = intents[j]
          /\ evidence[j] # None => evidence'[j] = evidence[j]
          /\ receipts[j] # None => receipts'[j] = receipts[j] /\ evidence'[j] = evidence[j]
      BY <3>2 DEF Touches
    <3> QED BY <2>1, <3>1, <3>3 DEF Found, At
  <2> QED BY <2>1, <2>2, <2>3 DEF CallInv, At, Working, Reading, Active
<1>4. WorksAlone'
  <2> SUFFICES ASSUME NEW u \in Tasks, NEW v \in Tasks, Working(u)', Working(v)',
                      Id(u)' = Id(v)', u # v
               PROVE  FALSE
    BY DEF WorksAlone
  <2>1. \A w \in Tasks \ {t} : Working(w)' => Working(w) /\ Id(w)' = Id(w)
    BY DEF Touches, OthersWait, Working, Id
  <2>2. \A w \in Tasks : Working(w) => intents[Id(w)] # None
    BY WorkingFacts
  <2> QED BY <2>1, <2>2 DEF Touches, CaptureInv, WorksAlone
<1>5. (store = "census" => misread = {})'
  BY DEF Touches, CaptureInv
<1> QED BY <1>2, <1>3, <1>4, <1>5 DEF CaptureInv

-----------------------------------------------------------------------------
(* Types.                                                                  *)

\* A call in progress has a request.
LEMMA CallHasRequest ==
  ASSUME CaptureInv, NEW t \in Tasks, ~ At(t, "idle")
  PROVE  request[t] \in Requests /\ Id(t) \in Ids /\ Id(t) # None
<1>1. request[t] \in Requests
  BY DEF CaptureInv, CallInv, TypeOK
<1> QED BY <1>1, AbsentAssumption DEF Ids, Id

LEMMA RestTypes ==
  ASSUME TypeOK, NEW t \in Tasks, Rest(t)
  PROVE  /\ pc' \in [Tasks -> Places]
         /\ request' \in [Tasks -> Requests \cup {None}]
         /\ why' \in [Tasks -> {"none", "first", "again"}]
         /\ seen' \in [Tasks -> [receipt : Receipts \cup {None},
                                 evidence : Acquisitions \cup {None}, now : Times]]
         /\ draft' \in [Tasks -> [at : Times, earliest : Times, slot : 1 .. DaySlots + 1,
                                  content : {"none", "good", "bad"}, code : Codes]]
<1>1. 0 \in Times /\ 1 \in 1 .. DaySlots + 1
  BY CaptureAssumption DEF Times
<1>2. NothingSeen \in [receipt : Receipts \cup {None}, evidence : Acquisitions \cup {None},
                       now : Times]
  BY <1>1 DEF NothingSeen
<1>3. NoDraft \in [at : Times, earliest : Times, slot : 1 .. DaySlots + 1,
                   content : {"none", "good", "bad"}, code : Codes]
  BY <1>1 DEF NoDraft, Codes
<1> QED BY <1>2, <1>3 DEF TypeOK, Rest, Goto, Places

LEMMA InspectTypes ==
  ASSUME TypeOK, NEW t \in Tasks, Inspect(t)
  PROVE  /\ pc' \in [Tasks -> Places]
         /\ request' = request /\ seen' = seen /\ told' = told
         /\ why' \in [Tasks -> {"none", "first", "again"}]
         /\ draft' \in [Tasks -> [at : Times, earliest : Times, slot : 1 .. DaySlots + 1,
                                  content : {"none", "good", "bad"}, code : Codes]]
<1>1. 0 \in Times /\ 1 \in 1 .. DaySlots + 1
  BY CaptureAssumption DEF Times
<1>2. NoDraft \in [at : Times, earliest : Times, slot : 1 .. DaySlots + 1,
                   content : {"none", "good", "bad"}, code : Codes]
  BY <1>1 DEF NoDraft, Codes
<1> QED BY <1>2 DEF TypeOK, Inspect, Goto, Places

LEMMA TypeStep == CaptureInv /\ [Next]_vars => TypeOK'
<1> SUFFICES ASSUME CaptureInv, [Next]_vars PROVE TypeOK'
  OBVIOUS
<1>1. TypeOK
  BY DEF CaptureInv
<1>2. CASE UNCHANGED vars
  BY <1>1, <1>2 DEF TypeOK, vars, files, locals, history
<1>3. ASSUME NEW t \in Tasks, NEW r \in Requests, Begin(t, r)
      PROVE  TypeOK'
  BY <1>1, <1>3 DEF TypeOK, Begin, Goto, Places, files, history
<1>4. ASSUME NEW t \in Tasks, Crash(t)
      PROVE  TypeOK'
  BY <1>1, <1>4, RestTypes DEF TypeOK, Crash, Refuse, files
<1>5. ASSUME NEW t \in Tasks, ReadIntent(t)
      PROVE  TypeOK'
  <2>1. CASE Refuse(t)
    BY <1>1, <1>5, <2>1, RestTypes DEF TypeOK, ReadIntent, Refuse, files
  <2>2. CASE Proceed(t, "orphan") \/ Proceed(t, "first record")
    BY <1>1, <1>5, <2>2 DEF TypeOK, ReadIntent, Proceed, Goto, Places, files, locals
  <2>3. ASSUME NEW now \in Times, See(t, "first record", [NothingSeen EXCEPT !.now = now])
        PROVE  TypeOK'
    BY <1>1, <1>5, <2>3 DEF TypeOK, ReadIntent, See, NothingSeen, Goto, Places, files
  <2> QED BY <1>5, <2>1, <2>2, <2>3 DEF ReadIntent
<1>6. ASSUME NEW t \in Tasks, CheckOrphan(t)
      PROVE  TypeOK'
  <2>1. CASE Refuse(t)
    BY <1>1, <1>6, <2>1, RestTypes DEF TypeOK, CheckOrphan, Refuse, files
  <2>2. CASE Proceed(t, "claim")
    BY <1>1, <1>6, <2>2 DEF TypeOK, CheckOrphan, Proceed, Goto, Places, files, locals
  <2> QED BY <1>6, <2>1, <2>2 DEF CheckOrphan
<1>7. ASSUME NEW t \in Tasks, ReadRecord(t)
      PROVE  TypeOK'
  <2>1. Id(t) \in Ids
    BY <1>7, CallHasRequest DEF ReadRecord, At
  <2>2. ASSUME NEW s, NEW place \in Places, See(t, place, s),
               s \in [receipt : Receipts \cup {None}, evidence : Acquisitions \cup {None}, now : Times]
        PROVE  TypeOK'
    BY <1>1, <1>7, <2>2 DEF TypeOK, ReadRecord, See, Goto, files
  <2>3. /\ seen[t] \in [receipt : Receipts \cup {None}, evidence : Acquisitions \cup {None},
                        now : Times]
        /\ receipts[Id(t)] \in Receipts \cup {None}
        /\ evidence[Id(t)] \in Acquisitions \cup {None}
    BY <1>1, <2>1 DEF TypeOK
  <2>4. ASSUME NEW place \in Places, Read(t, "receipt", place)
        PROVE  TypeOK'
    <3>1. [seen[t] EXCEPT !.receipt = receipts[Id(t)]]
            \in [receipt : Receipts \cup {None}, evidence : Acquisitions \cup {None}, now : Times]
      BY <2>3
    <3> QED BY <2>2, <2>4, <3>1 DEF Read
  <2>5. ASSUME NEW place \in Places, Read(t, "evidence", place)
        PROVE  TypeOK'
    <3>1. [seen[t] EXCEPT !.evidence = evidence[Id(t)]]
            \in [receipt : Receipts \cup {None}, evidence : Acquisitions \cup {None}, now : Times]
      BY <2>3
    <3> QED BY <2>2, <2>5, <3>1 DEF Read
  <2> QED BY <1>7, <2>4, <2>5 DEF ReadRecord, Order, Places
<1>8. ASSUME NEW t \in Tasks, Judge(t)
      PROVE  TypeOK'
  <2>1. request[t] \in Requests /\ Id(t) \in Ids
    BY <1>8, CallHasRequest DEF Judge, At
  <2>2. seen[t].receipt \in Receipts \cup {None}
    BY <1>1 DEF TypeOK
  <2>3. Rest(t) /\ told' \subseteq Requests \X Receipts
    BY <1>1, <1>8, <2>1, <2>2 DEF TypeOK, Judge, Refuse
  <2> QED BY <1>1, <1>8, <2>3, RestTypes DEF TypeOK, Judge, files
<1>9. ASSUME NEW t \in Tasks, Claim(t)
      PROVE  TypeOK'
  <2>1. CASE Refuse(t)
    BY <1>1, <1>9, <2>1, RestTypes DEF TypeOK, Claim, Refuse, files
  <2>2. ASSUME NEW now \in Times,
               Draft(t, IF store = "samsara" THEN "bind" ELSE "intend", [draft[t] EXCEPT !.at = now])
        PROVE  TypeOK'
    BY ZenonT(40), <1>1, <1>9, <2>2 DEF TypeOK, Claim, Draft, Goto, Places, files
  <2> QED BY <1>9, <2>1, <2>2 DEF Claim
<1>10. ASSUME NEW t \in Tasks, Bind(t)
       PROVE  TypeOK'
  <2>1. request[t] \in Requests
    BY <1>10, CallHasRequest DEF Bind, At
  <2>2. binding' \in {r.scope : r \in Requests} \cup {None}
    BY <1>1, <1>10, <2>1 DEF TypeOK, Bind
  <2>3. CASE Refuse(t)
    BY <1>1, <1>10, <2>2, <2>3, RestTypes DEF TypeOK, Bind, Refuse
  <2>4. CASE Proceed(t, "intend")
    BY <1>1, <1>10, <2>2, <2>4 DEF TypeOK, Bind, Proceed, Goto, Places, locals
  <2> QED BY <1>10, <2>3, <2>4 DEF Bind
<1>11. ASSUME NEW t \in Tasks, PublishIntent(t)
       PROVE  TypeOK'
  <2>1. request[t] \in Requests /\ Id(t) \in Ids
    BY <1>11, CallHasRequest DEF PublishIntent, At
  <2>2. draft[t].at \in Times
    BY <1>1 DEF TypeOK
  <2>3. [scope |-> request[t].scope, at |-> draft[t].at] \in Intents
    BY <2>1, <2>2 DEF Intents
  <2>4. intents' \in [Ids -> Intents \cup {None}]
    BY <1>1, <1>11, <2>3 DEF TypeOK, PublishIntent
  <2>5. CASE Inspect(t)
    BY <1>1, <1>11, <2>4, <2>5, InspectTypes DEF TypeOK, PublishIntent
  <2>6. CASE Proceed(t, "minute")
    BY <1>1, <1>11, <2>4, <2>6 DEF TypeOK, PublishIntent, Proceed, Goto, Places, locals
  <2> QED BY <1>11, <2>5, <2>6 DEF PublishIntent
<1>12. ASSUME NEW t \in Tasks, TakeMinute(t)
       PROVE  TypeOK'
  <2>1. Id(t) \in Ids
    BY <1>12, CallHasRequest DEF TakeMinute, At
  <2>2. minutes' \in [Times -> Ids \cup {None}] /\ starts' \in [Ids -> Nat]
    <3>1. starts[Id(t)] + 1 \in Nat
      BY <1>1, <2>1 DEF TypeOK
    <3> QED BY <1>1, <1>12, <2>1, <3>1 DEF TypeOK, TakeMinute
  <2>0. misread' \subseteq Ids
    BY <1>1, <1>12, <2>1 DEF TypeOK, TakeMinute, Misreads
  <2>3. CASE Refuse(t)
    BY <1>1, <1>12, <2>0, <2>2, <2>3, RestTypes DEF TypeOK, TakeMinute, Refuse
  <2>4. CASE Proceed(t, "day")
    BY <1>1, <1>12, <2>0, <2>2, <2>4 DEF TypeOK, TakeMinute, Proceed, Goto, Places, locals
  <2>5. CASE Conclude(t, "LOCAL_BUDGET_EXHAUSTED", draft[t].at)
    BY ZenonT(40), <1>1, <1>12, <2>0, <2>2, <2>5 DEF TypeOK, TakeMinute, Conclude, Draft, Goto, Places, Codes
  <2> QED BY <1>12, <2>3, <2>4, <2>5 DEF TakeMinute
<1>13. ASSUME NEW t \in Tasks, TakeDay(t)
       PROVE  TypeOK'
  <2>1. Id(t) \in Ids
    BY <1>13, CallHasRequest DEF TakeDay, At
  <2>2. days' \in [Days -> [1 .. DaySlots -> Ids \cup {None}]]
    <3>1. Day(draft[t].at) \in Days
      BY <1>1 DEF TypeOK, Days
    <3>2. days \in [Days -> [1 .. DaySlots -> Ids \cup {None}]]
      BY <1>1 DEF TypeOK
    <3>3. \/ days' = days
          \/ days' = [days EXCEPT ![Day(draft[t].at)][draft[t].slot] = Id(t)]
      BY <1>13 DEF TakeDay
    <3>4. CASE days' = [days EXCEPT ![Day(draft[t].at)][draft[t].slot] = Id(t)]
      <4> DEFINE d == Day(draft[t].at)
                 row == [days[d] EXCEPT ![draft[t].slot] = Id(t)]
      <4>1. days[d] \in [1 .. DaySlots -> Ids \cup {None}]
        BY <3>1, <3>2
      <4>2. row \in [1 .. DaySlots -> Ids \cup {None}]
        BY <2>1, <4>1
      <4>3. days' = [days EXCEPT ![d] = row]
        BY <3>4
      <4> HIDE DEF d, row
      <4> QED BY <3>2, <4>2, <4>3
    <3> QED BY <3>2, <3>3, <3>4
  <2>0. misread' \subseteq Ids
    BY <1>1, <1>13, <2>1 DEF TypeOK, TakeDay, Misreads
  <2>3. CASE Refuse(t)
    BY <1>1, <1>13, <2>0, <2>2, <2>3, RestTypes DEF TypeOK, TakeDay, Refuse
  <2>4. CASE Proceed(t, "contact")
    BY <1>1, <1>13, <2>0, <2>2, <2>4 DEF TypeOK, TakeDay, Proceed, Goto, Places, locals
  <2>5. CASE Conclude(t, "LOCAL_BUDGET_EXHAUSTED", draft[t].at)
    BY <1>1, <1>13, <2>0, <2>2, <2>5 DEF TypeOK, TakeDay, Conclude, Draft, Goto, Places, Codes
  <2>6. CASE draft[t].slot <= DaySlots /\ Draft(t, "day", [draft[t] EXCEPT !.slot = @ + 1])
    <3>1. [draft[t] EXCEPT !.slot = @ + 1] \in
            [at : Times, earliest : Times, slot : 1 .. DaySlots + 1,
             content : {"none", "good", "bad"}, code : Codes]
      <4>1. draft[t].slot + 1 \in 1 .. DaySlots + 1
        BY <1>1, <2>6, CaptureAssumption DEF TypeOK
      <4> QED BY <1>1, <4>1 DEF TypeOK
    <3> QED BY <1>1, <1>13, <2>0, <2>2, <2>6, <3>1 DEF TypeOK, TakeDay, Draft, Goto, Places
  <2> QED BY <1>13, <2>3, <2>4, <2>5, <2>6 DEF TakeDay
<1>14. ASSUME NEW t \in Tasks, Contact(t)
       PROVE  TypeOK'
  <2>1. Id(t) \in Ids
    BY <1>14, CallHasRequest DEF Contact, At
  <2>2. contacts[Id(t)] + 1 \in Nat
    BY <1>1, <2>1 DEF TypeOK
  <2> QED BY <1>1, <1>14, <2>1, <2>2 DEF TypeOK, Contact, Proceed, Goto, Places, files, locals
<1>15. ASSUME NEW t \in Tasks, Respond(t)
       PROVE  TypeOK'
  <2>1. CASE Refuse(t)
    BY <1>1, <1>15, <2>1, RestTypes DEF TypeOK, Respond, Refuse, files
  <2>2. CASE Conclude(t, "FETCH_FAILED", draft[t].at)
    BY ZenonT(40), <1>1, <1>15, <2>2 DEF TypeOK, Respond, Conclude, Draft, Goto, Places, Codes, files
  <2>3. ASSUME NEW now \in Times, NEW content \in {"good", "bad"},
               Draft(t, "store", [draft[t] EXCEPT !.content = content, !.earliest = now])
        PROVE  TypeOK'
    BY ZenonT(40), <1>1, <1>15, <2>3 DEF TypeOK, Respond, Draft, Goto, Places, files
  <2> QED BY <1>15, <2>1, <2>2, <2>3 DEF Respond
<1>16. ASSUME NEW t \in Tasks, StoreEvidence(t)
       PROVE  TypeOK'
  <2>1. Id(t) \in Ids /\ Progress(t) /\ draft[t].content \in {"good", "bad"}
    BY <1>1, <1>16, WorkingFacts DEF StoreEvidence, At, Working, Progress, TypeOK
  <2>2. [content |-> draft[t].content, at |-> draft[t].earliest] \in Acquisitions
    BY <1>1, <2>1 DEF TypeOK, Acquisitions
  <2>3. evidence' \in [Ids -> Acquisitions \cup {None}]
    BY <1>1, <1>16, <2>1, <2>2 DEF TypeOK, StoreEvidence
  <2>4. CASE Refuse(t)
    BY <1>1, <1>16, <2>3, <2>4, RestTypes DEF TypeOK, StoreEvidence, Refuse
  <2>5. CASE Proceed(t, "finish")
    BY <1>1, <1>16, <2>3, <2>5 DEF TypeOK, StoreEvidence, Proceed, Goto, Places, locals
  <2> QED BY <1>16, <2>4, <2>5 DEF StoreEvidence
<1>17. ASSUME NEW t \in Tasks, Finish(t)
       PROVE  TypeOK'
  <2>1. Id(t) \in Ids
    BY <1>17, CallHasRequest DEF Finish, At
  <2>2. \A now \in Times : Outcome(draft[t], now) \in Receipts
    BY <1>1 DEF TypeOK, Outcome, Receipt, Receipts
  <2>3. receipts' \in [Ids -> Receipts \cup {None}]
    BY <1>1, <1>17, <2>1, <2>2 DEF TypeOK, Finish
  <2>4. CASE Refuse(t)
    BY <1>1, <1>17, <2>3, <2>4, RestTypes DEF TypeOK, Finish, Refuse
  <2>5. CASE Inspect(t)
    BY <1>1, <1>17, <2>3, <2>5, InspectTypes DEF TypeOK, Finish
  <2> QED BY <1>17, <2>4, <2>5 DEF Finish
<1> QED
  BY <1>2, <1>3, <1>4, <1>5, <1>6, <1>7, <1>8, <1>9, <1>10, <1>11, <1>12, <1>13, <1>14, <1>15,
     <1>16, <1>17 DEF Next, Step

-----------------------------------------------------------------------------
(* How a call goes on, and ends.                                           *)

LEMMA LocalSteps ==
  ASSUME TypeOK, NEW t \in Tasks, NEW place,
         \/ Rest(t) \/ Proceed(t, place) \/ Inspect(t)
         \/ \E d : Draft(t, place, d)
         \/ \E s : See(t, place, s)
  PROVE  OthersWait(t)
BY DEF TypeOK, Rest, Proceed, Inspect, Draft, See, Goto, locals, OthersWait

LEMMA RestIsIdle ==
  ASSUME TypeOK, NEW t \in Tasks, Rest(t)
  PROVE  CallInv(t)' /\ ~ Working(t)'
BY DEF TypeOK, Rest, Goto, CallInv, Working, Reading, At

LEMMA InspectKeepsCall ==
  ASSUME CaptureInv, NEW t \in Tasks, Inspect(t), ~ At(t, "idle"), ~ Reading(t)
  PROVE  CallInv(t)' /\ ~ Working(t)'
BY DEF CaptureInv, TypeOK, Inspect, Goto, CallInv, Working, Reading, At

LEMMA QuietKeeps ==
  ASSUME CaptureInv, TypeOK', NEW t \in Tasks, OthersWait(t), CallInv(t)',
         UNCHANGED <<store, intents, minutes, days, evidence, receipts, starts, contacts, misread>>,
         Working(t)' => Working(t) /\ Id(t)' = Id(t)
  PROVE  CaptureInv'
<1> PICK i : i = Id(t)
  OBVIOUS
<1>1. Touches(t, i)
  BY DEF Touches
<1>2. i \in Ids => IdentityInv(i)'
  BY DEF CaptureInv, IdentityInv, NoMinute, NoDay, Fits, Consistent, Paid, Denied, OwnsMinute,
         OwnsDay, Active
<1> QED BY <1>1, <1>2, TouchesKeeps

LEMMA QuietRest ==
  ASSUME CaptureInv, TypeOK', NEW t \in Tasks, Rest(t),
         UNCHANGED <<store, intents, minutes, days, evidence, receipts, starts, contacts, misread>>
  PROVE  CaptureInv'
<1>1. TypeOK
  BY DEF CaptureInv
<1> QED BY <1>1, RestIsIdle, LocalSteps, QuietKeeps

-----------------------------------------------------------------------------
(* The steps of an inspection.                                             *)

LEMMA BeginKeeps ==
  ASSUME CaptureInv, TypeOK', NEW t \in Tasks, NEW r \in Requests, Begin(t, r)
  PROVE  CaptureInv'
<1>1. TypeOK /\ CallInv(t) /\ r # None
  BY CaptureAssumption DEF CaptureInv
<1>2. UNCHANGED <<store, files, seen, draft, starts, contacts, misread>> /\ At(t, "idle")
  BY DEF Begin, history
<1>3. /\ pc' = [pc EXCEPT ![t] = "inspect"]
      /\ request' = [request EXCEPT ![t] = r]
  BY DEF Begin, Goto
<1>4. OthersWait(t)
  BY <1>1, <1>2, <1>3 DEF TypeOK, OthersWait
<1>5. CallInv(t)' /\ ~ Working(t)'
  BY <1>1, <1>2, <1>3 DEF TypeOK, CallInv, Working, Reading, At
<1> QED BY <1>2, <1>4, <1>5, QuietKeeps DEF files

LEMMA ReadIntentKeeps ==
  ASSUME CaptureInv, TypeOK', NEW t \in Tasks, ReadIntent(t)
  PROVE  CaptureInv'
<1>1. TypeOK /\ CallInv(t) /\ UNCHANGED <<store, files, starts, contacts, misread>>
  BY DEF CaptureInv, ReadIntent
<1>2. CASE Refuse(t)
  BY <1>1, <1>2, QuietRest DEF Refuse, files
<1>3. CASE Proceed(t, "orphan")
  <2>1. CallInv(t)' /\ ~ Working(t)'
    BY <1>1, <1>3 DEF TypeOK, ReadIntent, Proceed, Goto, locals, CallInv, Working, Reading, At
  <2> QED BY <1>1, <1>3, <2>1, LocalSteps, QuietKeeps DEF files
<1>4. CASE intents[Id(t)] # None /\ Proceed(t, "first record")
  <2>1. CallInv(t)' /\ ~ Working(t)'
    <3>1. pc'[t] = "first record" /\ (request[t] # None)' /\ (intents[Id(t)] # None)'
      BY <1>1, <1>4 DEF TypeOK, ReadIntent, Proceed, Goto, locals, files, CallInv, Reading, At, Id
    <3>2. Found(t)'
      <4>1. seen' = seen /\ seen[t] = NothingSeen
        BY <1>1, <1>4 DEF ReadIntent, Proceed, locals, CallInv, Reading, At
      <4>2. (seen[t].receipt = None /\ seen[t].evidence = None)'
        BY <4>1 DEF NothingSeen
      <4> QED BY <3>1, <4>2 DEF Found, At
    <3>3. ~ Working(t)' /\ Reading(t)' /\ (At(t, "idle") <=> request[t] = None)'
      BY <3>1 DEF Working, Reading, At
    <3> QED BY <3>1, <3>2, <3>3 DEF CallInv, At
  <2> QED BY <1>1, <1>4, <2>1, LocalSteps, QuietKeeps DEF files
<1>5. ASSUME NEW now \in Times, intents[Id(t)] # None,
             See(t, "first record", [NothingSeen EXCEPT !.now = now])
      PROVE  CaptureInv'
  <2>1. CallInv(t)' /\ ~ Working(t)'
    BY <1>1, <1>5 DEF TypeOK, ReadIntent, See, Goto, files, CallInv, Working, Reading, At,
                      Found, Id, NothingSeen
  <2> QED BY <1>1, <1>5, <2>1, LocalSteps, QuietKeeps DEF files
<1> QED BY <1>2, <1>3, <1>4, <1>5 DEF ReadIntent

LEMMA CheckOrphanKeeps ==
  ASSUME CaptureInv, TypeOK', NEW t \in Tasks, CheckOrphan(t)
  PROVE  CaptureInv'
<1>1. TypeOK /\ CallInv(t) /\ UNCHANGED <<store, files, starts, contacts, misread>>
  BY DEF CaptureInv, CheckOrphan
<1>2. CASE Refuse(t)
  BY <1>1, <1>2, QuietRest DEF Refuse, files
<1>3. CASE Proceed(t, "claim")
  <2>1. CallInv(t)' /\ ~ Working(t)'
    BY <1>1, <1>3 DEF TypeOK, CheckOrphan, Proceed, Goto, locals, CallInv, Working, Reading, At
  <2> QED BY <1>1, <1>3, <2>1, LocalSteps, QuietKeeps DEF files
<1> QED BY <1>2, <1>3 DEF CheckOrphan

\* The records are read in an order that depends on the store: of the census,
\* the receipt first, so that a receipt that was seen comes with the evidence.
LEMMA ReadRecordKeeps ==
  ASSUME CaptureInv, TypeOK', NEW t \in Tasks, ReadRecord(t)
  PROVE  CaptureInv'
<1>1. TypeOK /\ CallInv(t) /\ UNCHANGED <<store, files, starts, contacts, misread>>
  BY DEF CaptureInv, ReadRecord
<1>2. request[t] # None /\ Found(t) /\ seen[t] = [receipt |-> seen[t].receipt,
        evidence |-> seen[t].evidence, now |-> seen[t].now] /\ store \in {"census", "samsara"}
  <2>1. At(t, "first record") \/ At(t, "second record")
    BY DEF ReadRecord
  <2> QED BY <1>1, <2>1 DEF TypeOK, CallInv, Reading, At
<1>3. CASE At(t, "first record") /\ Read(t, Order[1], "second record")
  <2>1. CallInv(t)' /\ ~ Working(t)'
    BY <1>1, <1>2, <1>3 DEF TypeOK, Read, Order, See, Goto, files, CallInv, Working, Reading, At, Found, Id
  <2> QED BY <1>1, <1>3, <2>1, LocalSteps, QuietKeeps DEF Read, files
<1>4. CASE At(t, "second record") /\ Read(t, Order[2], "judge")
  <2>1. CallInv(t)' /\ ~ Working(t)'
    BY <1>1, <1>2, <1>4 DEF TypeOK, Read, Order, See, Goto, files, CallInv, Working, Reading, At, Found, Id
  <2> QED BY <1>1, <1>4, <2>1, LocalSteps, QuietKeeps DEF Read, files
<1> QED BY <1>3, <1>4 DEF ReadRecord

LEMMA JudgeKeeps ==
  ASSUME CaptureInv, TypeOK', NEW t \in Tasks, Judge(t)
  PROVE  CaptureInv'
BY QuietRest DEF Judge, Refuse, files

LEMMA CrashKeeps ==
  ASSUME CaptureInv, TypeOK', NEW t \in Tasks, Crash(t)
  PROVE  CaptureInv'
BY QuietRest DEF Crash, Refuse, files

-----------------------------------------------------------------------------
(* The steps of a capture.                                                 *)

LEMMA ClaimKeeps ==
  ASSUME CaptureInv, TypeOK', NEW t \in Tasks, Claim(t)
  PROVE  CaptureInv'
<1>1. TypeOK /\ CallInv(t) /\ UNCHANGED <<store, files, starts, contacts, misread>> /\ At(t, "claim")
  BY DEF CaptureInv, Claim
<1>2. CASE Refuse(t)
  BY <1>1, <1>2, QuietRest DEF Refuse, files
<1>3. ASSUME NEW now \in Times, Active(now),
             Draft(t, IF store = "samsara" THEN "bind" ELSE "intend", [draft[t] EXCEPT !.at = now])
      PROVE  CaptureInv'
  <2>1. draft[t] = NoDraft /\ request[t] # None /\ seen[t] = NothingSeen
    BY <1>1 DEF CallInv, At, Reading
  <2>2. /\ pc'[t] \in {"bind", "intend"} /\ UNCHANGED <<request, seen>>
        /\ draft'[t] = [draft[t] EXCEPT !.at = now]
    BY <1>1, <1>3 DEF TypeOK, Draft, Goto
  <2>3. (Active(draft[t].at) /\ draft[t].slot = 1 /\ draft[t].code = "none")'
    BY <1>3, <2>1, <2>2 DEF NoDraft, Active
  <2>4. CallInv(t)' /\ ~ Working(t)'
    BY <2>1, <2>2, <2>3 DEF CallInv, Working, Reading, At
  <2> QED BY <1>1, <1>3, <2>4, LocalSteps, QuietKeeps DEF files
<1> QED BY <1>2, <1>3 DEF Claim

LEMMA BindKeeps ==
  ASSUME CaptureInv, TypeOK', NEW t \in Tasks, Bind(t)
  PROVE  CaptureInv'
<1>1. /\ TypeOK /\ CallInv(t) /\ At(t, "bind")
      /\ UNCHANGED <<store, intents, minutes, days, evidence, receipts, starts, contacts, misread>>
  BY DEF CaptureInv, Bind
<1>2. CASE Refuse(t)
  BY <1>1, <1>2, QuietRest DEF Refuse
<1>3. CASE Proceed(t, "intend")
  <2>1. pc'[t] = "intend" /\ UNCHANGED <<request, seen, draft>>
    BY <1>1, <1>3 DEF TypeOK, Proceed, Goto, locals
  <2>2. CallInv(t)' /\ ~ Working(t)'
    BY <1>1, <2>1 DEF CallInv, Working, Reading, At, Active
  <2> QED BY <1>1, <1>3, <2>2, LocalSteps, QuietKeeps
<1> QED BY <1>2, <1>3 DEF Bind

\* An identity without an intent has no other record, and nothing is paid for
\* it: the call that creates its intent begins with a clean sheet.
LEMMA PublishIntentKeeps ==
  ASSUME CaptureInv, TypeOK', NEW t \in Tasks, PublishIntent(t)
  PROVE  CaptureInv'
<1> PICK i : i = Id(t)
  OBVIOUS
<1>1. /\ TypeOK /\ CallInv(t) /\ At(t, "intend") /\ i \in Ids /\ request[t] \in Requests
      /\ UNCHANGED <<store, minutes, days, evidence, receipts, starts, contacts, misread>>
      /\ IdentityInv(i) /\ draft[t].at \in Times
  BY CallHasRequest DEF CaptureInv, PublishIntent, At, TypeOK
<1> PICK x : x = [scope |-> request[t].scope, at |-> draft[t].at]
  OBVIOUS
<1>2. x \in Intents /\ x # None /\ request[t] = [id |-> i, scope |-> x.scope]
  BY <1>1, AbsentAssumption DEF Intents, Id
<1>3. CASE intents' = intents /\ Inspect(t)
  <2>1. CallInv(t)' /\ ~ Working(t)'
    BY <1>1, <1>3, InspectKeepsCall DEF At, Reading
  <2> QED BY <1>1, <1>3, <2>1, LocalSteps, QuietKeeps
<1>4. CASE intents[i] = None /\ intents' = [intents EXCEPT ![i] = x]
  <2>1. /\ intents'[i] = x
        /\ \A j \in Ids \ {i} : intents'[j] = intents[j]
    BY <1>1, <1>4 DEF TypeOK
  <2>2. IdentityInv(i)'
    <3>1. (receipts[i] = None /\ evidence[i] = None /\ contacts[i] = 0)'
      BY <1>1, <1>4 DEF IdentityInv
    <3>2. (intents[i] = x)' /\ Active(x.at)
      BY <1>1, <2>1 DEF CallInv, At, Active
    <3>3. Consistent(i, intents[i], receipts[i], evidence[i])'
      BY <3>1, <3>2 DEF Consistent, Active
    <3>4. ([id |-> i, scope |-> intents[i].scope] \in Requests)'
      BY <1>1, <1>2, <3>2
    <3> QED BY <1>2, <3>1, <3>2, <3>3, <3>4 DEF IdentityInv, Fits
  <2>3. /\ pc'[t] \in {"inspect", "minute"} /\ CallInv(t)'
        /\ pc'[t] = "minute" => request'[t] = request[t]
        /\ OthersWait(t)
    <3>1. CASE Inspect(t)
      BY <1>1, <3>1, InspectKeepsCall, LocalSteps DEF At, Reading, TypeOK, Inspect, Goto
    <3>2. CASE Proceed(t, "minute")
      <4>1. pc'[t] = "minute" /\ UNCHANGED <<request, seen, draft>>
        BY <1>1, <3>2 DEF TypeOK, Proceed, Goto, locals
      <4>2. /\ starts[i] = 0 /\ contacts[i] = 0 /\ NoMinute(i) /\ NoDay(i)
            /\ receipts[i] = None /\ evidence[i] = None
        BY <1>1, <1>4 DEF IdentityInv
      <4>3. (Id(t) = i)' /\ NoMinute(i)' /\ NoDay(i)'
        BY <1>1, <4>1, <4>2 DEF Id, NoMinute, NoDay
      <4>4. draft[t].code = "none" /\ draft[t].slot = 1 /\ seen[t] = NothingSeen /\ request[t] # None
        BY <1>1 DEF CallInv, At, Reading
      <4>5. Progress(t)'
        BY <1>1, <2>1, <4>1, <4>2, <4>3, <4>4 DEF Progress, At
      <4>6. CallInv(t)'
        BY <4>1, <4>4, <4>5 DEF CallInv, At, Working, Reading
      <4> QED BY <1>1, <3>2, <4>1, <4>6, LocalSteps
    <3> QED BY <1>4, <3>1, <3>2 DEF PublishIntent
  <2>4. Touches(t, i)
    BY <1>1, <1>4, <2>1, <2>3 DEF Touches, Working, Id
  <2> QED BY <2>2, <2>3, <2>4, TouchesKeeps
<1> QED BY <1>3, <1>4 DEF PublishIntent

\* A working call that leaves the records of its identity as they are.
LEMMA WorkKeepsIdentity ==
  ASSUME CaptureInv, SlotsStay, NEW i \in Ids, intents[i] # None,
         UNCHANGED <<intents, evidence, receipts>>,
         \/ contacts'[i] = contacts[i]
         \/ contacts[i] = 0 /\ contacts'[i] = 1 /\ Paid(i, intents[i].at)
  PROVE  IdentityInv(i)'
<1>1. IdentityInv(i) /\ intents[i] \in Intents /\ intents[i].at \in Times /\ contacts[i] \in Nat
  BY DEF CaptureInv, TypeOK, Intents
<1> PICK x, y, z : x = intents[i] /\ y = receipts[i] /\ z = evidence[i]
  OBVIOUS
<1>2. Fits(i, x, y, z)'
  BY <1>1, ConsistencyStays DEF IdentityInv
<1>3. Paid(i, x.at) => Paid(i, x.at)'
  BY <1>1, BudgetStays
<1>4. (x = intents[i] /\ y = receipts[i] /\ z = evidence[i])'
  OBVIOUS
<1>5. contacts'[i] <= 1
  BY <1>1 DEF IdentityInv
<1>6. contacts'[i] > 0 => Paid(i, x.at)'
  BY <1>1, <1>3 DEF IdentityInv
<1> QED BY <1>1, <1>2, <1>4, <1>5, <1>6 DEF IdentityInv

\* Only what a working call does to its own identity and to free slots counts.
LEMMA WorkTouches ==
  ASSUME CaptureInv, NEW t \in Tasks, Working(t), NEW i, i = Id(t),
         UNCHANGED <<store, intents>>, OthersWait(t),
         misread \subseteq misread', store = "census" => misread' = misread,
         \A j \in Ids \ {i} :
           /\ evidence'[j] = evidence[j] /\ receipts'[j] = receipts[j]
           /\ starts'[j] = starts[j] /\ contacts'[j] = contacts[j],
         \A m \in Times : minutes'[m] = minutes[m] \/ (minutes[m] = None /\ minutes'[m] = i),
         \A d \in Days, slot \in 1 .. DaySlots :
           days'[d][slot] = days[d][slot] \/ (days[d][slot] = None /\ days'[d][slot] = i),
         evidence[i] # None => evidence'[i] = evidence[i],
         Working(t)' => request'[t] = request[t]
  PROVE  Touches(t, i)
<1>1. receipts[i] = None
  BY WorkingFacts DEF Progress
<1> QED BY <1>1 DEF Touches, Id

LEMMA TakeMinuteKeeps ==
  ASSUME CaptureInv, TypeOK', NEW t \in Tasks, TakeMinute(t)
  PROVE  CaptureInv'
<1> PICK i, m : i = Id(t) /\ m = draft[t].at
  OBVIOUS
<1>1. /\ TypeOK /\ CallInv(t) /\ At(t, "minute") /\ Working(t)
      /\ UNCHANGED <<store, intents, days, binding, evidence, receipts, contacts>>
      /\ starts' = [starts EXCEPT ![i] = @ + 1]
  BY DEF CaptureInv, TakeMinute, Working, At
<1>2. /\ i \in Ids /\ intents[i] # None /\ intents[i] = [scope |-> request[t].scope, at |-> m]
      /\ m \in Times /\ Day(m) \in Days /\ request[t] # None
      /\ receipts[i] = None /\ evidence[i] = None /\ draft[t].code = "none" /\ draft[t].slot = 1
      /\ starts[i] = 0 /\ contacts[i] = 0 /\ NoMinute(i) /\ NoDay(i) /\ i # None
  BY <1>1, WorkingFacts, CaptureAssumption, AbsentAssumption DEF Progress, At
<1>0. misread \subseteq misread' /\ (store = "census" => misread' = misread)
  BY DEF TakeMinute, Misreads
<1>3. \/ minutes' = minutes
      \/ minutes[m] = None /\ minutes' = [minutes EXCEPT ![m] = i]
  BY DEF TakeMinute
<1>4. /\ \A n \in Times : minutes'[n] = minutes[n] \/ (minutes[n] = None /\ minutes'[n] = i)
      /\ starts'[i] = 1 /\ \A j \in Ids \ {i} : starts'[j] = starts[j]
  BY <1>1, <1>2, <1>3 DEF TypeOK
<1>5. IdentityInv(i)'
  BY <1>0, <1>1, <1>2, <1>4, WorkKeepsIdentity DEF SlotsStay
<1>6. CallInv(t)' /\ OthersWait(t) /\ (Working(t)' => request'[t] = request[t])
  <2>1. CASE Refuse(t)
    BY <1>1, <2>1, RestIsIdle, LocalSteps DEF Refuse
  <2>2. CASE minutes[m] = None /\ minutes' = [minutes EXCEPT ![m] = i] /\ Proceed(t, "day")
    <3>1. pc'[t] = "day" /\ UNCHANGED <<request, seen, draft>>
      BY <1>1, <2>2 DEF TypeOK, Proceed, Goto, locals
    <3>2. (Id(t) = i /\ draft[t].at = m)' /\ OwnsMinute(i, m)' /\ NoDay(i)'
      <4>1. (Id(t) = i /\ draft[t].at = m)' /\ NoDay(i)'
        BY <1>1, <1>2, <3>1 DEF Id, NoDay
      <4>2. minutes \in [Times -> Ids \cup {None}]
        BY <1>1 DEF TypeOK
      <4> QED BY <1>2, <2>2, <4>1, <4>2 DEF OwnsMinute
    <3>3. \A slot \in 1 .. DaySlots : ~ slot < draft[t].slot
      BY <1>2
    <3>4. Progress(t)'
      BY <1>1, <1>2, <1>4, <3>1, <3>2, <3>3 DEF Progress, At
    <3>5. CallInv(t)'
      BY <1>1, <1>2, <3>1, <3>4 DEF CallInv, At, Working, Reading
    <3> QED BY <1>1, <2>2, <3>1, <3>5, LocalSteps
  <2>3. CASE minutes[m] # None /\ minutes' = minutes /\ Conclude(t, "LOCAL_BUDGET_EXHAUSTED", m)
    <3> DEFINE e == [draft[t] EXCEPT !.code = "LOCAL_BUDGET_EXHAUSTED", !.earliest = m]
    <3>1. pc'[t] = "finish" /\ UNCHANGED <<request, seen>> /\ draft'[t] = e
      BY <1>1, <2>3 DEF TypeOK, Conclude, Draft, Goto
    <3>2. e.at = m /\ e.earliest = m /\ e.code = "LOCAL_BUDGET_EXHAUSTED" /\ m >= m
      BY <1>1, <1>2 DEF TypeOK, Times
    <3>3. (Id(t) = i)' /\ Denied(i, m)'
      BY <1>1, <1>2, <2>3, <3>1 DEF Id, Denied, OwnsMinute, NoMinute
    <3> HIDE DEF e
    <3>4. Progress(t)'
      BY <1>1, <1>2, <1>4, <3>1, <3>2, <3>3 DEF Progress, At
    <3>5. CallInv(t)'
      BY <1>1, <1>2, <3>1, <3>4 DEF CallInv, At, Working, Reading
    <3> QED BY <1>1, <2>3, <3>1, <3>5, LocalSteps DEF Conclude
  <2>4. CASE /\ minutes[m] = None /\ minutes' = [minutes EXCEPT ![m] = i]
             /\ Misreads(t) /\ Conclude(t, "LOCAL_BUDGET_EXHAUSTED", m)
    <3> DEFINE e == [draft[t] EXCEPT !.code = "LOCAL_BUDGET_EXHAUSTED", !.earliest = m]
    <3>1. pc'[t] = "finish" /\ UNCHANGED <<request, seen>> /\ draft'[t] = e
      BY <1>1, <2>4 DEF TypeOK, Conclude, Draft, Goto
    <3>2. e.at = m /\ e.earliest = m /\ e.code = "LOCAL_BUDGET_EXHAUSTED" /\ m >= m
      BY <1>1, <1>2 DEF TypeOK, Times
    <3>3. (Id(t) = i)' /\ (i \in misread)' /\ OwnsMinute(i, m)'
      <4>1. minutes \in [Times -> Ids \cup {None}]
        BY <1>1 DEF TypeOK
      <4>2. (Id(t) = i)' /\ (i \in misread)'
        BY <2>4, <3>1 DEF Id, Misreads
      <4> QED BY <1>2, <2>4, <4>1, <4>2 DEF OwnsMinute
    <3> HIDE DEF e
    <3>4. Progress(t)'
      BY <1>1, <1>2, <1>4, <3>1, <3>2, <3>3 DEF Progress, At
    <3>5. CallInv(t)'
      BY <1>1, <1>2, <3>1, <3>4 DEF CallInv, At, Working, Reading
    <3> QED BY <1>1, <2>4, <3>1, <3>5, LocalSteps DEF Conclude
  <2> QED BY <2>1, <2>2, <2>3, <2>4 DEF TakeMinute
<1>7. Touches(t, i)
  BY <1>0, <1>1, <1>2, <1>4, <1>6, WorkTouches
<1> QED BY <1>5, <1>6, <1>7, TouchesKeeps

LEMMA TakeDayKeeps ==
  ASSUME CaptureInv, TypeOK', NEW t \in Tasks, TakeDay(t)
  PROVE  CaptureInv'
<1> PICK i, m, s : i = Id(t) /\ m = draft[t].at /\ s = draft[t].slot
  OBVIOUS
<1>1. /\ TypeOK /\ CallInv(t) /\ At(t, "day") /\ Working(t)
      /\ UNCHANGED <<store, intents, minutes, binding, evidence, receipts, starts, contacts>>
  BY DEF CaptureInv, TakeDay, Working, At
<1>2. /\ i \in Ids /\ intents[i] # None /\ intents[i] = [scope |-> request[t].scope, at |-> m]
      /\ m \in Times /\ Day(m) \in Days /\ request[t] # None
      /\ receipts[i] = None /\ evidence[i] = None /\ draft[t].code = "none"
      /\ starts[i] = 1 /\ contacts[i] = 0 /\ OwnsMinute(i, m) /\ (i \in misread \/ NoDay(i)) /\ i # None
      /\ \A slot \in 1 .. DaySlots : slot < s => days[Day(m)][slot] # None
  BY <1>1, WorkingFacts, CaptureAssumption, AbsentAssumption DEF Progress, At
<1>0. misread \subseteq misread' /\ (store = "census" => misread' = misread)
  BY DEF TakeDay, Misreads
<1>3. s \in 1 .. DaySlots + 1
  BY <1>1 DEF TypeOK
<1> DEFINE free == s \in 1 .. DaySlots /\ days[Day(m)][s] = None
           taken == [days EXCEPT ![Day(m)][s] = i]
<1>4. days' = days \/ (free /\ days' = taken)
  BY <1>3, CaptureAssumption DEF TakeDay
<1>5. ASSUME free, days' = taken
      PROVE  /\ days'[Day(m)][s] = i
             /\ \A d \in Days, slot \in 1 .. DaySlots :
                  ~ (d = Day(m) /\ slot = s) => days'[d][slot] = days[d][slot]
  <2> DEFINE day == Day(m)
             row == [days[day] EXCEPT ![s] = i]
  <2>1. days \in [Days -> [1 .. DaySlots -> Ids \cup {None}]]
    BY <1>1 DEF TypeOK
  <2>2. days[day] \in [1 .. DaySlots -> Ids \cup {None}]
    BY <1>2, <2>1
  <2>3. row[s] = i /\ \A slot \in 1 .. DaySlots : slot # s => row[slot] = days[day][slot]
    BY <1>5, <2>2
  <2>4. days' = [days EXCEPT ![day] = row]
    BY <1>5
  <2> HIDE DEF day, row
  <2>5. days'[day] = row /\ \A d \in Days : d # day => days'[d] = days[d]
    BY <1>2, <2>1, <2>4 DEF day
  <2> QED BY <2>3, <2>5 DEF day
<1>6. \A d \in Days, slot \in 1 .. DaySlots :
        days'[d][slot] = days[d][slot] \/ (days[d][slot] = None /\ days'[d][slot] = i)
  <2> TAKE d \in Days, slot \in 1 .. DaySlots
  <2> QED BY <1>4, <1>5
<1>7. IdentityInv(i)'
  BY <1>0, <1>1, <1>2, <1>6, WorkKeepsIdentity DEF SlotsStay
<1> HIDE DEF taken
<1>8. CallInv(t)' /\ OthersWait(t) /\ (Working(t)' => request'[t] = request[t])
  <2>1. CASE Refuse(t)
    BY <1>1, <2>1, RestIsIdle, LocalSteps DEF Refuse
  <2>2. CASE free /\ days' = taken /\ Proceed(t, "contact")
    <3>1. pc'[t] = "contact" /\ UNCHANGED <<request, seen, draft>>
      BY <1>1, <2>2 DEF TypeOK, Proceed, Goto, locals
    <3>2. (Id(t) = i /\ draft[t].at = m)' /\ Paid(i, m)'
      BY <1>1, <1>2, <1>5, <2>2, <3>1 DEF Id, Paid, OwnsMinute, OwnsDay
    <3>3. Progress(t)'
      BY <1>1, <1>2, <3>1, <3>2 DEF Progress, At
    <3>4. CallInv(t)'
      BY <1>1, <1>2, <3>1, <3>3 DEF CallInv, At, Working, Reading
    <3> QED BY <1>1, <2>2, <3>1, <3>4, LocalSteps
  <2>3. CASE ~ free /\ s <= DaySlots /\ days' = days /\ Draft(t, "day", [draft[t] EXCEPT !.slot = @ + 1])
    <3> DEFINE e == [draft[t] EXCEPT !.slot = @ + 1]
    <3>1. pc'[t] = "day" /\ UNCHANGED <<request, seen>> /\ draft'[t] = e
      BY <1>1, <2>3 DEF TypeOK, Draft, Goto
    <3>2. e.at = m /\ e.slot = s + 1 /\ e.code = "none"
      BY <1>1, <1>2 DEF TypeOK
    <3>3. (Id(t) = i)' /\ OwnsMinute(i, m)' /\ ((i \in misread)' \/ NoDay(i)')
      BY <1>0, <1>1, <1>2, <2>3, <3>1 DEF Id, OwnsMinute, NoDay
    <3>4. \A slot \in 1 .. DaySlots : slot < s + 1 => days'[Day(m)][slot] # None
      BY <1>2, <1>3, <2>3, CaptureAssumption
    <3> HIDE DEF e
    <3>5. (draft[t].at = m /\ draft[t].slot = s + 1 /\ draft[t].code = "none")'
      BY <3>1, <3>2
    <3>6. Progress(t)'
      BY <1>1, <1>2, <3>1, <3>3, <3>4, <3>5 DEF Progress, At
    <3>7. CallInv(t)'
      BY <1>1, <1>2, <3>1, <3>6 DEF CallInv, At, Working, Reading
    <3> QED BY <1>1, <2>3, <3>1, <3>7, LocalSteps
  <2>4. CASE s > DaySlots /\ days' = days /\ Conclude(t, "LOCAL_BUDGET_EXHAUSTED", m)
    <3> DEFINE e == [draft[t] EXCEPT !.code = "LOCAL_BUDGET_EXHAUSTED", !.earliest = m]
    <3>1. pc'[t] = "finish" /\ UNCHANGED <<request, seen>> /\ draft'[t] = e
      BY <1>1, <2>4 DEF TypeOK, Conclude, Draft, Goto
    <3>2. e.at = m /\ e.earliest = m /\ e.code = "LOCAL_BUDGET_EXHAUSTED" /\ m >= m
      BY <1>1, <1>2 DEF TypeOK, Times
    <3>3. \A slot \in 1 .. DaySlots : slot < s
      BY <1>3, <2>4, CaptureAssumption
    <3>4. (Id(t) = i)' /\ (Denied(i, m)' \/ (i \in misread /\ OwnsMinute(i, m))')
      <4>1. (Id(t) = i)' /\ OwnsMinute(i, m)'
        BY <1>1, <1>2, <3>1 DEF Id, OwnsMinute
      <4>2. CASE i \in misread
        BY <1>0, <4>1, <4>2
      <4>3. CASE NoDay(i)
        BY <1>1, <1>2, <2>4, <3>3, <4>1, <4>3 DEF Denied, OwnsMinute, NoDay
      <4> QED BY <1>2, <4>1, <4>2, <4>3
    <3> HIDE DEF e
    <3>5. Progress(t)'
      BY <1>1, <1>2, <3>1, <3>2, <3>4 DEF Progress, At
    <3>6. CallInv(t)'
      BY <1>1, <1>2, <3>1, <3>5 DEF CallInv, At, Working, Reading
    <3> QED BY <1>1, <2>4, <3>1, <3>6, LocalSteps DEF Conclude
  <2>5. CASE free /\ days' = taken /\ Misreads(t) /\ Draft(t, "day", [draft[t] EXCEPT !.slot = @ + 1])
    <3> DEFINE e == [draft[t] EXCEPT !.slot = @ + 1]
    <3>1. pc'[t] = "day" /\ UNCHANGED <<request, seen>> /\ draft'[t] = e
      BY <1>1, <2>5 DEF TypeOK, Draft, Goto
    <3>2. e.at = m /\ e.slot = s + 1 /\ e.code = "none"
      BY <1>1, <1>2 DEF TypeOK
    <3>3. (Id(t) = i)' /\ OwnsMinute(i, m)' /\ (i \in misread)'
      BY <1>1, <1>2, <2>5, <3>1 DEF Id, OwnsMinute, Misreads
    <3>4. \A slot \in 1 .. DaySlots : slot < s + 1 => days'[Day(m)][slot] # None
      <4> TAKE slot \in 1 .. DaySlots
      <4>1. CASE slot = s
        BY <1>2, <1>5, <2>5, <4>1
      <4>2. CASE slot # s
        BY <1>2, <1>3, <1>5, <2>5, <4>2, CaptureAssumption
      <4> QED BY <4>1, <4>2
    <3> HIDE DEF e
    <3>5. (draft[t].at = m /\ draft[t].slot = s + 1 /\ draft[t].code = "none")'
      BY <3>1, <3>2
    <3>6. Progress(t)'
      BY <1>1, <1>2, <3>1, <3>3, <3>4, <3>5 DEF Progress, At
    <3>7. CallInv(t)'
      BY <1>1, <1>2, <3>1, <3>6 DEF CallInv, At, Working, Reading
    <3> QED BY <1>1, <2>5, <3>1, <3>7, LocalSteps
  <2> QED BY <1>3, <2>1, <2>2, <2>3, <2>4, <2>5, CaptureAssumption DEF TakeDay, taken
<1>9. Touches(t, i)
  BY <1>0, <1>1, <1>2, <1>6, <1>8, WorkTouches
<1> QED BY <1>7, <1>8, <1>9, TouchesKeeps

LEMMA ContactKeeps ==
  ASSUME CaptureInv, TypeOK', NEW t \in Tasks, Contact(t)
  PROVE  CaptureInv'
<1> PICK i, m : i = Id(t) /\ m = draft[t].at
  OBVIOUS
<1>1. /\ TypeOK /\ CallInv(t) /\ At(t, "contact") /\ Working(t) /\ Proceed(t, "waiting")
      /\ UNCHANGED <<store, intents, minutes, days, evidence, receipts, starts, misread>>
      /\ contacts' = [contacts EXCEPT ![i] = @ + 1]
  BY DEF CaptureInv, Contact, Working, At, files
<1>2. /\ i \in Ids /\ intents[i] # None /\ intents[i] = [scope |-> request[t].scope, at |-> m]
      /\ request[t] # None /\ receipts[i] = None /\ evidence[i] = None /\ draft[t].code = "none"
      /\ starts[i] = 1 /\ contacts[i] = 0 /\ Paid(i, m)
  BY <1>1, WorkingFacts, CaptureAssumption DEF Progress, At
<1>3. contacts'[i] = 1 /\ \A j \in Ids \ {i} : contacts'[j] = contacts[j]
  BY <1>1, <1>2 DEF TypeOK
<1>4. IdentityInv(i)'
  BY <1>1, <1>2, <1>3, WorkKeepsIdentity DEF SlotsStay
<1>5. pc'[t] = "waiting" /\ UNCHANGED <<request, seen, draft>>
  BY <1>1 DEF TypeOK, Proceed, Goto, locals
<1>6. (Id(t) = i)' /\ Paid(i, m)'
  BY <1>1, <1>2, <1>5 DEF Id, Paid, OwnsMinute, OwnsDay
<1>7. Progress(t)'
  BY <1>1, <1>2, <1>3, <1>5, <1>6 DEF Progress, At
<1>8. CallInv(t)' /\ OthersWait(t)
  BY <1>1, <1>2, <1>5, <1>7, LocalSteps DEF CallInv, At, Working, Reading
<1>9. Touches(t, i)
  BY <1>1, <1>2, <1>3, <1>5, <1>8, WorkTouches
<1> QED BY <1>4, <1>8, <1>9, TouchesKeeps

LEMMA RespondKeeps ==
  ASSUME CaptureInv, TypeOK', NEW t \in Tasks, Respond(t)
  PROVE  CaptureInv'
<1> PICK i, m : i = Id(t) /\ m = draft[t].at
  OBVIOUS
<1>1. /\ TypeOK /\ CallInv(t) /\ At(t, "waiting") /\ Working(t)
      /\ UNCHANGED <<store, intents, minutes, days, evidence, receipts, starts, contacts, misread>>
  BY DEF CaptureInv, Respond, Working, At, files
<1>2. /\ i \in Ids /\ intents[i] # None /\ intents[i] = [scope |-> request[t].scope, at |-> m]
      /\ request[t] # None /\ receipts[i] = None /\ evidence[i] = None /\ draft[t].code = "none"
      /\ starts[i] = 1 /\ contacts[i] = 1 /\ Paid(i, m) /\ m \in Times
  BY <1>1, WorkingFacts, CaptureAssumption DEF Progress, At
<1>3. Paid(i, m)'
  BY <1>1, <1>2 DEF Paid, OwnsMinute, OwnsDay
<1>4. CASE Refuse(t)
  BY <1>1, <1>4, QuietRest DEF Refuse
<1>5. ASSUME NEW place \in {"store", "finish"}, NEW e, Draft(t, place, e), e.at = m,
             \/ /\ place = "store" /\ e.content # "none" /\ e.earliest >= m /\ Active(e.earliest)
                /\ e.code = "none"
             \/ place = "finish" /\ e.code = "FETCH_FAILED" /\ e.earliest >= m
      PROVE  CaptureInv'
  <2>1. pc'[t] = place /\ UNCHANGED <<request, seen>> /\ (draft[t] = e)'
    BY <1>1, <1>5 DEF TypeOK, Draft, Goto
  <2>2. (Id(t) = i)'
    BY <2>1 DEF Id
  <2>3. Progress(t)'
    BY <1>1, <1>2, <1>3, <1>5, <2>1, <2>2 DEF Progress, At, Active
  <2>4. CallInv(t)' /\ OthersWait(t)
    BY <1>1, <1>2, <1>5, <2>1, <2>3, LocalSteps DEF CallInv, At, Working, Reading
  <2> QED BY <1>1, <2>1, <2>2, <2>4, QuietKeeps
<1>6. CASE Conclude(t, "FETCH_FAILED", m)
  <2> PICK e : e = [draft[t] EXCEPT !.code = "FETCH_FAILED", !.earliest = m]
    OBVIOUS
  <2>1. e.at = m /\ e.code = "FETCH_FAILED" /\ e.earliest >= m
    BY <1>1, <1>2 DEF TypeOK, Times
  <2> QED BY <1>5, <1>6, <2>1 DEF Conclude
<1>7. ASSUME NEW now \in Times, NEW content \in {"good", "bad"}, now >= m, Active(now),
             Draft(t, "store", [draft[t] EXCEPT !.content = content, !.earliest = now])
      PROVE  CaptureInv'
  <2> PICK e : e = [draft[t] EXCEPT !.content = content, !.earliest = now]
    OBVIOUS
  <2>1. e.at = m /\ e.code = "none" /\ e.earliest >= m /\ Active(e.earliest) /\ e.content # "none"
    BY <1>1, <1>2, <1>7 DEF TypeOK, Times
  <2> QED BY <1>5, <1>7, <2>1
<1> QED BY <1>4, <1>6, <1>7 DEF Respond

LEMMA StoreEvidenceKeeps ==
  ASSUME CaptureInv, TypeOK', NEW t \in Tasks, StoreEvidence(t)
  PROVE  CaptureInv'
<1> PICK i, m : i = Id(t) /\ m = draft[t].at
  OBVIOUS
<1> PICK a : a = [content |-> draft[t].content, at |-> draft[t].earliest]
  OBVIOUS
<1>1. /\ TypeOK /\ CallInv(t) /\ At(t, "store") /\ Working(t)
      /\ UNCHANGED <<store, intents, minutes, days, receipts, starts, contacts, misread>>
  BY DEF CaptureInv, StoreEvidence, Working, At
<1>2. /\ i \in Ids /\ intents[i] # None /\ intents[i] = [scope |-> request[t].scope, at |-> m]
      /\ request[t] # None /\ receipts[i] = None /\ evidence[i] = None /\ draft[t].code = "none"
      /\ starts[i] = 1 /\ Paid(i, m) /\ m \in Times
      /\ a.content # "none" /\ a.at >= m /\ Active(a.at)
  BY <1>1, WorkingFacts, CaptureAssumption DEF Progress, At
<1>3. IdentityInv(i) /\ Consistent(i, intents[i], None, None)
  BY <1>2, FitWithoutReceipt DEF CaptureInv, IdentityInv
<1>4. evidence' = evidence \/ evidence' = [evidence EXCEPT ![i] = a]
  BY DEF StoreEvidence
<1>5. /\ evidence'[i] \in {None, a}
      /\ \A j \in Ids \ {i} : evidence'[j] = evidence[j]
  BY <1>1, <1>2, <1>4 DEF TypeOK
<1>6. Paid(i, m)' /\ (intents[i].at = m)'
  BY <1>1, <1>2 DEF Paid, OwnsMinute, OwnsDay
<1>7. IdentityInv(i)'
  <2>1. Active(m)
    BY <1>2, <1>3 DEF Consistent, Active
  <2>2. Consistent(i, intents[i], receipts[i], evidence[i])'
    BY <1>1, <1>2, <1>5, <1>6, <2>1 DEF Consistent, Active
  <2> QED BY <1>1, <1>2, <1>3, <1>6, <2>2 DEF IdentityInv, Fits
<1>8. CallInv(t)' /\ OthersWait(t) /\ (Working(t)' => request'[t] = request[t])
  <2>1. CASE Refuse(t)
    BY <1>1, <2>1, RestIsIdle, LocalSteps DEF Refuse
  <2>2. CASE evidence' = [evidence EXCEPT ![i] = a] /\ Proceed(t, "finish")
    <3>1. pc'[t] = "finish" /\ UNCHANGED <<request, seen, draft>> /\ evidence'[i] = a
      BY <1>1, <1>2, <2>2 DEF TypeOK, Proceed, Goto, locals
    <3>2. (Id(t) = i /\ draft[t].at = m)'
      BY <3>1 DEF Id
    <3>3. Progress(t)'
      BY <1>1, <1>2, <1>6, <3>1, <3>2 DEF Progress, At, Active
    <3>4. CallInv(t)'
      BY <1>1, <1>2, <3>1, <3>3 DEF CallInv, At, Working, Reading
    <3> QED BY <1>1, <2>2, <3>1, <3>4, LocalSteps
  <2> QED BY <2>1, <2>2 DEF StoreEvidence
<1>9. Touches(t, i)
  BY <1>1, <1>2, <1>5, <1>8, WorkTouches
<1> QED BY <1>7, <1>8, <1>9, TouchesKeeps

\* The receipt says what the draft found out, and not before it did.
LEMMA FinishKeeps ==
  ASSUME CaptureInv, TypeOK', NEW t \in Tasks, Finish(t)
  PROVE  CaptureInv'
<1> PICK i, m, d : i = Id(t) /\ m = draft[t].at /\ d = draft[t]
  OBVIOUS
<1>1. /\ TypeOK /\ CallInv(t) /\ At(t, "finish") /\ Working(t)
      /\ UNCHANGED <<store, intents, minutes, days, evidence, starts, contacts, misread>>
  BY DEF CaptureInv, Finish, Working, At
<1>2. /\ i \in Ids /\ intents[i] # None /\ intents[i] = [scope |-> request[t].scope, at |-> m]
      /\ receipts[i] = None /\ d.at = m /\ m \in Times /\ d.earliest >= m /\ d.earliest \in Times
      /\ \/ /\ d.code = "none" /\ d.content # "none" /\ Active(d.earliest) /\ Paid(i, m)
            /\ evidence[i] = [content |-> d.content, at |-> d.earliest]
         \/ d.code = "FETCH_FAILED" /\ evidence[i] = None /\ Paid(i, m)
         \/ /\ d.code = "LOCAL_BUDGET_EXHAUSTED" /\ evidence[i] = None
            /\ Denied(i, m) \/ (i \in misread /\ OwnsMinute(i, m))
  BY <1>1, WorkingFacts DEF Progress, At, TypeOK
<1>3. IdentityInv(i) /\ Consistent(i, intents[i], None, evidence[i])
  BY <1>2, FitWithoutReceipt DEF CaptureInv, IdentityInv
<1>4. PICK now \in Times :
        \/ receipts' = receipts
        \/ now >= d.earliest /\ receipts' = [receipts EXCEPT ![i] = Outcome(d, now)]
  BY <1>2 DEF Finish, Times
<1> PICK r : r = Outcome(d, now)
  OBVIOUS
<1>5. /\ receipts'[i] = None \/ (now >= d.earliest /\ receipts'[i] = r)
      /\ \A j \in Ids \ {i} : receipts'[j] = receipts[j]
  BY <1>1, <1>2, <1>4 DEF TypeOK
<1>6. /\ r.at = now /\ r.code = d.code
      /\ d.code = "LOCAL_BUDGET_EXHAUSTED" => r = Receipt("FAILED", "LOCAL_BUDGET_EXHAUSTED", now)
      /\ r.state = (IF d.code # "none" THEN "FAILED" ELSE IF d.content = "good" THEN "CAPTURED"
                    ELSE "QUARANTINED")
  BY DEF Outcome, Receipt
<1>7. intents[i].at = m /\ Active(m)
  BY <1>2, <1>3 DEF Consistent
<1>8. now >= d.earliest => Fits(i, intents[i], r, evidence[i])
  <2> SUFFICES ASSUME now >= d.earliest
               PROVE  Fits(i, intents[i], r, evidence[i])
    OBVIOUS
  <2>1. now >= m
    BY <1>2 DEF Times
  <2>2. CASE d.code = "none"
    <3>1. evidence[i] \in Acquisitions
      BY <1>1, <1>2, <2>2 DEF TypeOK, Acquisitions
    <3>2. evidence[i] # None /\ evidence[i].content = d.content /\ evidence[i].at = d.earliest
      BY <1>2, <2>2, <3>1, AbsentAssumption
    <3>3. r.state # "FAILED"
          /\ r.state = (IF evidence[i].content = "good" THEN "CAPTURED" ELSE "QUARANTINED")
      BY <1>6, <2>2, <3>2
    <3>4. Paid(i, m) /\ Active(d.earliest)
      BY <1>2, <2>2
    <3> QED BY <1>2, <1>6, <1>7, <2>1, <3>2, <3>3, <3>4 DEF Fits, Consistent
  <2>3. CASE d.code = "FETCH_FAILED"
    BY <1>2, <1>6, <1>7, <2>1, <2>3 DEF Fits, Consistent
  <2>4. CASE d.code = "LOCAL_BUDGET_EXHAUSTED" /\ Denied(i, m)
    BY <1>2, <1>6, <1>7, <2>1, <2>4 DEF Fits, Consistent
  <2>5. CASE d.code = "LOCAL_BUDGET_EXHAUSTED" /\ i \in misread /\ OwnsMinute(i, m)
    BY <1>2, <1>6, <1>7, <2>1, <2>5 DEF Fits
  <2> QED BY <1>2, <2>2, <2>3, <2>4, <2>5
<1>9. IdentityInv(i)'
  <2>1. /\ Paid(i, m)' <=> Paid(i, m)
        /\ Denied(i, m)' <=> Denied(i, m)
        /\ OwnsMinute(i, m)' <=> OwnsMinute(i, m)
        /\ (i \in misread)' <=> i \in misread
    BY <1>1 DEF Paid, Denied, OwnsMinute, OwnsDay
  <2> PICK x, y, z : x = intents[i] /\ y = receipts'[i] /\ z = evidence[i]
    OBVIOUS
  <2>2. Fits(i, x, y, z)
    <3>1. CASE y = None
      BY <1>3, <3>1 DEF Fits
    <3>2. CASE y = r /\ now >= d.earliest
      BY <1>8, <3>2
    <3> QED BY <1>5, <3>1, <3>2
  <2>3. Fits(i, x, y, z)'
    BY <1>7, <2>1, <2>2 DEF Fits, Consistent, Active, Receipt
  <2>4. Fits(i, intents[i], receipts[i], evidence[i])'
    BY <1>1, <2>3
  <2> QED BY <1>1, <1>2, <1>3, <1>7, <2>1, <2>4 DEF IdentityInv
<1>10. CallInv(t)' /\ ~ Working(t)' /\ OthersWait(t)
  <2>1. CASE Refuse(t)
    BY <1>1, <2>1, RestIsIdle, LocalSteps DEF Refuse
  <2>2. CASE Inspect(t)
    BY <1>1, <2>2, InspectKeepsCall, LocalSteps DEF At, Reading
  <2> QED BY <2>1, <2>2 DEF Finish
<1>11. Touches(t, i)
  BY <1>1, <1>2, <1>5, <1>10, WorkTouches
<1> QED BY <1>9, <1>10, <1>11, TouchesKeeps

-----------------------------------------------------------------------------
(* What the specification guarantees.                                      *)

LEMMA InitKeeps == Init => CaptureInv
<1> SUFFICES ASSUME Init PROVE CaptureInv
  OBVIOUS
<1>1. 0 \in Times /\ 1 \in 1 .. DaySlots + 1
  BY CaptureAssumption DEF Times
<1>2. TypeOK
  BY <1>1 DEF Init, TypeOK, Places, NothingSeen, NoDraft, Codes
<1>3. \A t \in Tasks : pc[t] = "idle" /\ request[t] = None /\ seen[t] = NothingSeen
                          /\ draft[t] = NoDraft
  BY DEF Init
<1>4. WorksAlone /\ \A t \in Tasks : CallInv(t)
  BY <1>3 DEF WorksAlone, CallInv, Working, Reading, At
<1>5. \A i \in Ids : IdentityInv(i)
  BY AbsentAssumption DEF Init, IdentityInv, NoMinute, NoDay
<1>6. misread = {}
  BY DEF Init
<1> QED BY <1>2, <1>4, <1>5, <1>6 DEF CaptureInv

LEMMA StepKeeps == CaptureInv /\ [Next]_vars => CaptureInv'
<1> SUFFICES ASSUME CaptureInv, [Next]_vars, TypeOK' PROVE CaptureInv'
  BY TypeStep
<1>1. CASE UNCHANGED vars
  <2>1. UNCHANGED <<store, intents, minutes, days, evidence, receipts, pc, request, seen, draft,
                    starts, contacts, misread>>
    BY <1>1 DEF vars, files, locals, history
  <2>2. WorksAlone'
    BY <2>1 DEF CaptureInv, WorksAlone, Working, Id
  <2>3. ASSUME NEW t \in Tasks
        PROVE  CallInv(t)'
    <3>1. Progress(t)' <=> Progress(t)
      BY <2>1 DEF Progress, At, Id, Active, NoMinute, NoDay, Paid, Denied, OwnsMinute, OwnsDay
    <3>2. Found(t)' <=> Found(t)
      BY <2>1 DEF Found, At, Id
    <3> QED BY <2>1, <3>1, <3>2 DEF CaptureInv, CallInv, At, Working, Reading, Active
  <2>4. ASSUME NEW i \in Ids
        PROVE  IdentityInv(i)'
    <3>1. IdentityInv(i)
      BY DEF CaptureInv
    <3> QED BY <2>1, <3>1 DEF IdentityInv, NoMinute, NoDay, Fits, Consistent, Paid, Denied,
                              OwnsMinute, OwnsDay, Active
  <2> QED BY <2>1, <2>2, <2>3, <2>4 DEF CaptureInv
<1>2. ASSUME NEW t \in Tasks, NEW r \in Requests, Begin(t, r)
      PROVE  CaptureInv'
  BY <1>2, BeginKeeps
<1>3. ASSUME NEW t \in Tasks, Step(t)
      PROVE  CaptureInv'
  BY <1>3, ReadIntentKeeps, CheckOrphanKeeps, ReadRecordKeeps, JudgeKeeps, ClaimKeeps, BindKeeps,
     PublishIntentKeeps, TakeMinuteKeeps, TakeDayKeeps, ContactKeeps, RespondKeeps,
     StoreEvidenceKeeps, FinishKeeps DEF Step
<1>4. ASSUME NEW t \in Tasks, Crash(t)
      PROVE  CaptureInv'
  BY <1>4, CrashKeeps
<1> QED BY <1>1, <1>2, <1>3, <1>4 DEF Next

LEMMA CaptureInvInductive == Spec => []CaptureInv
BY InitKeeps, StepKeeps, PTL DEF Spec

\* The records of every store have the form that captureCensus and
\* captureGpsHistory write, and what a call holds in its variables is what the
\* steps of capture() and inspect() put there.
THEOREM CaptureTypeCorrect == Spec => []TypeOK
BY CaptureInvInductive, PTL DEF CaptureInv

\* An identity that contacted the provider on a day has a slot of that day to
\* itself, so there are no more of them than slots.
LEMMA DayIsBounded ==
  ASSUME CaptureInv, NEW d \in Days
  PROVE  Cardinality({i \in Ids : contacts[i] > 0 /\ Day(intents[i].at) = d}) <= DaySlots
<1>S. PICK S : S = {i \in Ids : contacts[i] > 0 /\ Day(intents[i].at) = d}
  OBVIOUS
<1>R. PICK row : row = days[d]
  OBVIOUS
<1>1. \A i \in S : \E slot \in 1 .. DaySlots : row[slot] = i
  <2>1. ASSUME NEW i \in S
        PROVE  \E slot \in 1 .. DaySlots : row[slot] = i
    <3>1. i \in Ids /\ contacts[i] > 0 /\ Day(intents[i].at) = d
      BY <1>S
    <3>2. OwnsDay(i, intents[i].at)
      BY <3>1 DEF CaptureInv, IdentityInv, Paid
    <3> QED BY <1>R, <3>1, <3>2 DEF OwnsDay
  <2> QED BY <2>1
<1>F. PICK f : f = [i \in S |-> CHOOSE slot \in 1 .. DaySlots : row[slot] = i]
  OBVIOUS
<1>2. \A i \in S : f[i] \in 1 .. DaySlots /\ row[f[i]] = i
  BY <1>1, <1>F
<1>3. f \in Injection(S, 1 .. DaySlots)
  <2>1. f \in [S -> 1 .. DaySlots]
    BY <1>2, <1>F
  <2>2. ASSUME NEW i \in S, NEW j \in S, f[i] = f[j]
        PROVE  i = j
    <3>1. row[f[i]] = i /\ row[f[j]] = j
      BY <1>2
    <3> QED BY <2>2, <3>1
  <2> QED BY <2>1, <2>2 DEF Injection, IsInjective
<1>4. IsFiniteSet(1 .. DaySlots) /\ Cardinality(1 .. DaySlots) = DaySlots
  <2>1. 1 \in Int /\ DaySlots \in Int /\ DaySlots \in Nat
    BY CaptureAssumption
  <2>2. /\ IsFiniteSet(1 .. DaySlots)
        /\ Cardinality(1 .. DaySlots) = IF 1 > DaySlots THEN 0 ELSE DaySlots - 1 + 1
    BY <2>1, FS_Interval
  <2> QED BY <2>1, <2>2
<1>5. Cardinality(S) <= DaySlots
  BY <1>3, <1>4, FS_Injection
<1> QED BY <1>S, <1>5

\* However the calls of captureCensus or captureGpsHistory interleave, fail and
\* are killed, the provider is contacted at most once for a request, at most
\* once for the requests started in one minute, and at most DaySlots times for
\* those of one day: reserveBudget pays before fetch is called.  A GPS request
\* that takes a slot of the day of its own for lost pays twice for one contact.
THEOREM BudgetIsKept == Spec => []BudgetHolds
<1>1. CaptureInv => BudgetHolds
  <2> SUFFICES ASSUME CaptureInv PROVE BudgetHolds
    OBVIOUS
  <2>1. \A i \in Ids : contacts[i] <= 1 /\ (contacts[i] > 0 => minutes[intents[i].at] = i)
    BY DEF CaptureInv, IdentityInv, Paid, OwnsMinute
  <2>2. \A d \in Days :
          Cardinality({i \in {j \in Ids : contacts[j] > 0} : Day(intents[i].at) = d}) <= DaySlots
    <3> TAKE d \in Days
    <3>1. {i \in {j \in Ids : contacts[j] > 0} : Day(intents[i].at) = d}
            = {i \in Ids : contacts[i] > 0 /\ Day(intents[i].at) = d}
      OBVIOUS
    <3> QED BY <3>1, DayIsBounded
  <2> QED BY <2>1, <2>2 DEF BudgetHolds
<1> QED BY <1>1, CaptureInvInductive, PTL

\* Whatever capture() leaves in the folder, when it finishes, refuses or is
\* killed anywhere, passes inspect(), with one exception: a GPS request that took
\* a slot of its own for lost, after a publication that threw past its link, and
\* closed with a denial.  The census store leaves no such denial, and its
\* inspection, which reads the receipt before the evidence, never refuses what it
\* read while a capture ran.
THEOREM HistoryAlwaysValidates == Spec => []HistoryValidates
<1>1. CaptureInv => HistoryValidates
  <2> SUFFICES ASSUME CaptureInv PROVE HistoryValidates
    OBVIOUS
  <2>1. ASSUME NEW i \in Ids
        PROVE  IF intents[i] = None THEN receipts[i] = None /\ evidence[i] = None
               ELSE Consistent(i, intents[i], receipts[i], evidence[i]) \/ SelfDenied(i)
    BY DEF CaptureInv, TypeOK, IdentityInv, Fits, SelfDenied
  <2>2. ASSUME NEW t \in Tasks, At(t, "judge"), store = "census"
        PROVE  Consistent(Id(t), intents[Id(t)], seen[t].receipt, seen[t].evidence)
    <3> PICK i : i = Id(t)
      OBVIOUS
    <3>1. i \in Ids /\ Found(t)
      BY <2>2, CallHasRequest DEF At, CaptureInv, CallInv, Reading
    <3>2. Consistent(i, intents[i], receipts[i], evidence[i])
      BY <2>2, <3>1 DEF CaptureInv, IdentityInv, Found, Fits
    <3>3. /\ seen[t].receipt \in {None, receipts[i]}
          /\ seen[t].evidence \in {None, evidence[i]}
          /\ seen[t].receipt # None => seen[t].evidence = evidence[i]
      BY <2>2, <3>1 DEF Found
    <3> QED BY <3>2, <3>3 DEF Consistent
  <2> QED BY <2>1, <2>2 DEF HistoryValidates
<1> QED BY <1>1, CaptureInvInductive, PTL

-----------------------------------------------------------------------------
(* Every step of the connectors is one of RunsOnce, or changes nothing it  *)
(* speaks of.                                                              *)

LEMMA ScopesSay ==
  ASSUME CaptureInv, NEW i \in Ids
  PROVE  /\ intents[i] = None => Scopes[i] = None
         /\ intents[i] # None => Scopes[i] = [id |-> i, scope |-> intents[i].scope]
                               /\ Scopes[i] \in Requests /\ Scopes[i] # None
BY CaptureAssumption DEF CaptureInv, IdentityInv, Scopes

LEMMA ScopesStay ==
  ASSUME UNCHANGED intents
  PROVE  UNCHANGED Scopes
BY DEF Scopes

LEMMA PublishIntentBinds ==
  ASSUME CaptureInv, NEW t \in Tasks, PublishIntent(t)
  PROVE  [Contract!Next]_(Contract!vars)
<1> PICK i, r : i = Id(t) /\ r = request[t]
  OBVIOUS
<1> PICK x : x = [scope |-> r.scope, at |-> draft[t].at]
  OBVIOUS
<1>1. i \in Ids /\ r \in Requests /\ i = r.id /\ r = [id |-> i, scope |-> x.scope]
  BY CallHasRequest, AbsentAssumption DEF PublishIntent, At, Id
<1>2. UNCHANGED <<receipts, starts, told>>
  BY DEF PublishIntent, Proceed, Inspect
<1>3. intents' = intents \/ (intents[i] = None /\ intents' = [intents EXCEPT ![i] = x])
  BY DEF PublishIntent
<1>4. CASE intents' = intents
  BY <1>2, <1>4, ScopesStay DEF Contract!vars
<1>5. CASE intents[i] = None /\ intents' = [intents EXCEPT ![i] = x]
  <2>1. draft[t].at \in Times /\ intents \in [Ids -> Intents \cup {None}]
    BY DEF CaptureInv, TypeOK
  <2>2. x \in Intents /\ x # None
    BY <1>1, <2>1, AbsentAssumption DEF Intents
  <2>3. Scopes[i] = None
    BY <1>1, <1>5, ScopesSay
  <2>4. Scopes' = [Scopes EXCEPT ![i] = r]
    BY <1>1, <1>5, <2>1, <2>2 DEF Scopes
  <2>5. Contract!Bind(r)
    BY <1>1, <1>2, <2>3, <2>4 DEF Contract!Bind
  <2> QED BY <1>1, <2>5 DEF Contract!Next
<1> QED BY <1>3, <1>4, <1>5

LEMMA TakeMinuteStarts ==
  ASSUME CaptureInv, NEW t \in Tasks, TakeMinute(t)
  PROVE  [Contract!Next]_(Contract!vars)
<1> PICK i : i = Id(t)
  OBVIOUS
<1>1. Working(t) /\ At(t, "minute")
  BY DEF TakeMinute, Working, At
<1>2. i \in Ids /\ intents[i] # None /\ starts[i] = 0
  BY <1>1, WorkingFacts DEF Progress
<1>3. UNCHANGED <<intents, receipts, told>> /\ starts' = [starts EXCEPT ![i] = 1]
  BY <1>2 DEF TakeMinute, Proceed, Refuse, Conclude, Draft
<1>4. Contract!Start(i)
  BY <1>2, <1>3, ScopesSay, ScopesStay DEF Contract!Start
<1> QED BY <1>2, <1>4 DEF Contract!Next

LEMMA FinishFinishes ==
  ASSUME CaptureInv, TypeOK', NEW t \in Tasks, Finish(t)
  PROVE  [Contract!Next]_(Contract!vars)
<1> PICK i, d : i = Id(t) /\ d = draft[t]
  OBVIOUS
<1>1. Working(t) /\ At(t, "finish")
  BY DEF Finish, Working, At
<1>2. i \in Ids /\ starts[i] = 1 /\ receipts[i] = None
  BY <1>1, WorkingFacts DEF Progress
<1>3. UNCHANGED <<intents, starts, told>>
  BY DEF Finish, Inspect, Refuse
<1>4. PICK now \in Times :
        receipts' = receipts \/ receipts' = [receipts EXCEPT ![i] = Outcome(d, now)]
  BY DEF Finish
<1>5. CASE receipts' = receipts
  BY <1>3, <1>5, ScopesStay DEF Contract!vars
<1>6. CASE receipts' = [receipts EXCEPT ![i] = Outcome(d, now)]
  <2>1. receipts \in [Ids -> Receipts \cup {None}] /\ d.code \in Codes
    BY DEF CaptureInv, TypeOK
  <2>2. Outcome(d, now) \in Receipts
    BY <2>1 DEF Outcome, Receipt, Receipts
  <2>3. receipts'[i] = Outcome(d, now) /\ receipts'[i] # None
    BY <1>2, <1>6, <2>1, <2>2, AbsentAssumption
  <2>4. Contract!Finish(i)
    BY <1>2, <1>3, <1>6, <2>3, ScopesStay DEF Contract!Finish
  <2> QED BY <1>2, <2>4 DEF Contract!Next
<1> QED BY <1>4, <1>5, <1>6

LEMMA JudgeTells ==
  ASSUME CaptureInv, NEW t \in Tasks, Judge(t)
  PROVE  [Contract!Next]_(Contract!vars)
<1> PICK i, r : i = Id(t) /\ r = request[t]
  OBVIOUS
<1>1. At(t, "judge") /\ UNCHANGED <<intents, receipts, starts>>
  BY DEF Judge, files
<1>2. i \in Ids /\ r \in Requests /\ i = r.id /\ r = [id |-> i, scope |-> r.scope] /\ Found(t)
  BY <1>1, CallHasRequest, AbsentAssumption DEF At, Id, CaptureInv, CallInv, Reading
<1>3. CASE UNCHANGED told
  BY <1>1, <1>3, ScopesStay DEF Contract!vars
<1>4. CASE /\ intents[i].scope = r.scope /\ seen[t].receipt # None
           /\ told' = told \cup {<<r, seen[t].receipt>>}
  <2>1. receipts[i] # None /\ seen[t].receipt = receipts[i] /\ intents[i] # None
    BY <1>2, <1>4 DEF Found
  <2>2. Scopes[i] = r
    BY <1>2, <1>4, <2>1, ScopesSay
  <2>3. Contract!Tell(r)
    BY <1>1, <1>2, <1>4, <2>1, <2>2, ScopesStay DEF Contract!Tell
  <2> QED BY <1>2, <2>3 DEF Contract!Next
<1> QED BY <1>3, <1>4 DEF Judge, Refuse

\* The connectors keep the promise of RunsOnce: a request identity is bound to
\* one scope, its work is begun once, by the call that created its intent, it
\* has at most one receipt, and capture() and inspect() answer with that one.
THEOREM CapturesRunOnce == Spec => RunsOnceSpec
<1>1. Init => Contract!Init
  BY DEF Init, Contract!Init, Scopes
<1>2. CaptureInv /\ TypeOK' /\ [Next]_vars => [Contract!Next]_(Contract!vars)
  <2> SUFFICES ASSUME CaptureInv, TypeOK', [Next]_vars
               PROVE  [Contract!Next]_(Contract!vars)
    OBVIOUS
  <2>1. UNCHANGED <<intents, receipts, starts, told>> => [Contract!Next]_(Contract!vars)
    BY ScopesStay DEF Contract!vars
  <2>2. ASSUME NEW t \in Tasks, Step(t)
        PROVE  [Contract!Next]_(Contract!vars)
    <3>1. \/ UNCHANGED <<intents, receipts, starts, told>>
          \/ PublishIntent(t) \/ TakeMinute(t) \/ Finish(t) \/ Judge(t)
      BY <2>2 DEF Step, ReadIntent, CheckOrphan, ReadRecord, Read, Claim, Bind, TakeDay, Contact,
                  Respond, StoreEvidence, Proceed, Refuse, Draft, See, Conclude, files
    <3> QED BY <2>1, <3>1, PublishIntentBinds, TakeMinuteStarts, FinishFinishes, JudgeTells
  <2>3. ASSUME NEW t \in Tasks, Crash(t) \/ \E r \in Requests : Begin(t, r)
        PROVE  UNCHANGED <<intents, receipts, starts, told>>
    BY <2>3 DEF Begin, Crash, Refuse, files, history
  <2>4. UNCHANGED vars => UNCHANGED <<intents, receipts, starts, told>>
    BY DEF vars, files, history
  <2>5. \/ UNCHANGED <<intents, receipts, starts, told>>
        \/ \E t \in Tasks : Step(t)
    BY <2>3, <2>4 DEF Next
  <2> QED BY <2>1, <2>2, <2>5
<1> QED BY <1>1, <1>2, CaptureInvInductive, CaptureTypeCorrect, PTL
       DEF Spec, RunsOnceSpec, Contract!Spec

-----------------------------------------------------------------------------
(* GatAudit. The engine, the lock and the calls; the reservation of an     *)
(* identity and who works on it; and the receipts, whose gates do not      *)
(* depend on what is retained later.                                       *)

\* The cardinality of the instance is that of the library.
LEMMA AuditsCount == \A S : Audits!Cardinality(S) = Cardinality(S)
BY DEF Audits!Cardinality, Cardinality

\* Where a call of the inspector is.
AuditPlaces == {"idle", "lookup", "reserve", "source", "lock", "spawn", "wait", "unlock",
                "report", "projection", "close", "read back"}

AuditsTypeOK ==
  /\ retained \in [Sources -> Audits!Retentions \cup {Nil}]
  /\ reservations \in [Audits!AuditIds -> Audits!AuditReservations \cup {Nil}]
  /\ gatReceipts \in [Audits!AuditIds -> Audits!AuditReceipts \cup {Nil}]
  /\ child \in [GatTasks -> {"none", "running", "stopped"}]
  /\ gatPc \in [GatTasks -> AuditPlaces]
  /\ audit \in [GatTasks -> AuditRequests \cup {Nil}]
  /\ \A t \in GatTasks : ~ Audits!At(t, "idle") => audit[t] \in AuditRequests
  /\ record \in [GatTasks -> Audits!AuditReceipts]
  /\ begun \in [Audits!AuditIds -> Nat]
  /\ gatIntruded \in BOOLEAN

\* As long as no lock in use has been taken for stale, the engine belongs to
\* whoever owns audit.lock; a killed call leaves its engine running, and its
\* lock stale.
EngineInv ==
  /\ \A t \in GatTasks :
       /\ child[t] = "stopped" => Audits!At(t, "wait")
       /\ child[t] = "running" => Audits!At(t, "wait") \/ Audits!At(t, "idle")
  /\ ~ gatIntruded =>
       /\ \A t \in GatTasks :
            /\ gatPc[t] \in {"spawn", "wait", "unlock"} => auditLock = t
            /\ child[t] = "running" => auditLock \in {t, "stale"}
       /\ \A t, u \in Audits!EnginesRunning : t = u

\* The call that created the reservation of its identity works on it, alone.
AuditWorking(t) == gatPc[t] \in AuditPlaces \ {"idle", "lookup", "reserve"}

AuditClaim(t) ==
  LET i == audit[t].id IN
  /\ reservations[i] = [audit |-> audit[t], at |-> record[t].at]
  /\ begun[i] = (IF Audits!At(t, "source") THEN 0 ELSE 1)
  /\ Audits!At(t, "read back") <=> gatReceipts[i] # Nil

ClaimsInv ==
  /\ \A t \in GatTasks : AuditWorking(t) => AuditClaim(t)
  /\ \A t, u \in GatTasks : AuditWorking(t) /\ AuditWorking(u) /\ audit[t].id = audit[u].id => t = u
  /\ \A i \in Audits!AuditIds : reservations[i] = Nil => begun[i] = 0 /\ gatReceipts[i] = Nil

\* The gates of a receipt of request a, but for its end.
Gates(a, r) ==
  LET checked == Audits!Checked(a, r.at) IN
  /\ r.verified = checked.verified /\ r.decided = checked.decided
  /\ IF checked.outcome # "none" THEN r.outcome = checked.outcome
     ELSE r.outcome \in Audits!Audited \cup Audits!RuntimeFailures
  /\ r.outcome \in Audits!Audited =>
       \A piece \in {"report", "projection"} : <<a.id, piece, r.outcome>> \in artifacts

\* A receipt shows what its gates were judged to be, or that the bytes no
\* longer are what was retained, or that they were not there yet.
Closes(a, r) ==
  \/ Gates(a, r)
  \/ r.outcome = "SOURCE_INTEGRITY_FAILED"
  \/ r.outcome = "SOURCE_UNAVAILABLE" /\ retained[a.source] # Nil

\* What a call knows once its gates are passed, and what it records at each of
\* its places.
Passed(t) ==
  /\ Audits!Checked(audit[t], record[t].at).outcome = "none"
  /\ record[t].verified /\ record[t].decided

RecordAt(t) ==
  /\ gatPc[t] \in {"lock", "spawn", "wait", "unlock", "report", "projection"} => Passed(t)
  /\ gatPc[t] \in {"reserve", "source", "lock", "spawn"} => record[t].outcome = "none"
  /\ Audits!At(t, "wait") => record[t].outcome \in {"none"} \cup Audits!RuntimeFailures
  /\ Audits!At(t, "unlock") => record[t].outcome \in Audits!Audited \cup Audits!RuntimeFailures
  /\ gatPc[t] \in {"report", "projection"} => record[t].outcome \in Audits!Audited
  /\ Audits!At(t, "projection") => <<audit[t].id, "report", record[t].outcome>> \in artifacts
  /\ Audits!At(t, "close") => Closes(audit[t], record[t])

ReceiptsInv ==
  /\ \A t \in GatTasks : RecordAt(t)
  /\ \A i \in Audits!AuditIds : gatReceipts[i] # Nil =>
       /\ gatReceipts[i].until >= gatReceipts[i].at
       /\ reservations[i] # Nil /\ reservations[i].audit.id = i
       /\ Closes(reservations[i].audit, gatReceipts[i])

AuditInv == AuditsTypeOK /\ EngineInv /\ ClaimsInv /\ ReceiptsInv

LEMMA AuditIdsAre == \A a \in AuditRequests : a.id \in Audits!AuditIds
BY DEF Audits!AuditIds

LEMMA CheckedIsTyped ==
  ASSUME NEW a, NEW at
  PROVE  /\ Audits!Checked(a, at).outcome \in Audits!AuditOutcomes
              /\ Audits!Checked(a, at).verified \in BOOLEAN
         /\ Audits!Checked(a, at).decided \in BOOLEAN
         /\ Audits!Checked(a, at).outcome = "none" <=>
              /\ retained[a.source] # Nil /\ retained[a.source].content = a.content
              /\ ~ (at < retained[a.source].at)
              /\ a.content \notin Unsupported /\ a.purpose \notin Forbidden
         /\ Audits!Checked(a, at).outcome = "none"
              => Audits!Checked(a, at).verified /\ Audits!Checked(a, at).decided
         /\ Audits!Checked(a, at).outcome = "SOURCE_UNAVAILABLE" <=> retained[a.source] = Nil
         /\ Audits!Checked(a, at).outcome \notin Audits!Audited \cup Audits!RuntimeFailures
              \cup {"SOURCE_INTEGRITY_FAILED"}
BY DEF Audits!Checked, Audits!AuditOutcomes, Audits!Audited, Audits!RuntimeFailures

LEMMA AuditLocals ==
  ASSUME AuditsTypeOK, NEW t \in GatTasks, gatPc[t] # "idle",
         NEW place \in AuditPlaces, NEW r \in Audits!AuditReceipts,
         Audits!Refuse(t) \/ Audits!Answer(t) \/ Audits!Proceed(t, place)
           \/ Audits!Write(t, place, r)
  PROVE  /\ gatPc' \in [GatTasks -> AuditPlaces]
         /\ audit' \in [GatTasks -> AuditRequests \cup {Nil}]
         /\ \A u \in GatTasks : gatPc'[u] # "idle" => audit'[u] \in AuditRequests
         /\ record' \in [GatTasks -> Audits!AuditReceipts]
<1>1. Audits!NoRecord \in Audits!AuditReceipts
  BY DEF Audits!NoRecord, Audits!AuditReceipts, Audits!AuditOutcomes
<1>2. CASE Audits!Refuse(t) \/ Audits!Answer(t)
  BY <1>1, <1>2 DEF Audits!Refuse, Audits!Answer, Audits!Goto, Audits!At, AuditsTypeOK, AuditPlaces
<1>3. CASE Audits!Proceed(t, place)
  BY <1>3 DEF Audits!Proceed, Audits!Goto, Audits!At, Audits!gatLocals, AuditsTypeOK, AuditPlaces
<1>4. CASE Audits!Write(t, place, r)
  BY <1>4 DEF Audits!Write, Audits!Goto, Audits!At, AuditsTypeOK, AuditPlaces
<1> QED BY <1>2, <1>3, <1>4

LEMMA AuditTypes ==
  ASSUME Audits!AuditAssumption, AuditsTypeOK, [Audits!Next]_(Audits!gatVars)
  PROVE  AuditsTypeOK'
<1>1. CASE UNCHANGED Audits!gatVars
  BY <1>1
     DEF AuditsTypeOK, Audits!gatVars, Audits!gatFiles, Audits!gatLocals, Audits!gatHistory,
         Audits!At
<1>2. ASSUME NEW t \in GatTasks, NEW a \in AuditRequests, Audits!Begin(t, a)
      PROVE  AuditsTypeOK'
  BY <1>2
     DEF Audits!Begin, AuditsTypeOK, AuditPlaces, Audits!At, Audits!Goto, Audits!gatFiles,
         Audits!gatHistory
<1>3. ASSUME NEW t \in GatTasks, Audits!Lookup(t)
      PROVE  AuditsTypeOK'
  <2>1. \A now \in GatTimes : [Audits!NoRecord EXCEPT !.at = now] \in Audits!AuditReceipts
    BY DEF Audits!AuditAssumption, Audits!NoRecord, Audits!AuditReceipts, Audits!AuditOutcomes
  <2>2. \/ Audits!Refuse(t) \/ Audits!Answer(t)
        \/ \E r \in Audits!AuditReceipts : Audits!Write(t, "reserve", r)
    BY <1>3, <2>1 DEF Audits!Lookup
  <2>3. "reserve" \in AuditPlaces /\ gatPc[t] # "idle"
    BY <1>3 DEF Audits!Lookup, Audits!At, AuditPlaces
  <2>4. /\ gatPc' \in [GatTasks -> AuditPlaces]
        /\ audit' \in [GatTasks -> AuditRequests \cup {Nil}]
        /\ \A u \in GatTasks : gatPc'[u] # "idle" => audit'[u] \in AuditRequests
        /\ record' \in [GatTasks -> Audits!AuditReceipts]
    <3>1. record[t] \in Audits!AuditReceipts
      BY DEF AuditsTypeOK
    <3> QED BY <2>2, <2>3, <3>1, AuditLocals
  <2> QED BY <1>3, <2>4 DEF Audits!Lookup, AuditsTypeOK, Audits!At, Audits!gatFiles
<1>4. ASSUME NEW t \in GatTasks, Audits!Reserve(t)
      PROVE  AuditsTypeOK'
  <2>1. audit[t] \in AuditRequests /\ audit[t].id \in Audits!AuditIds
          /\ record[t] \in Audits!AuditReceipts
    BY <1>4, AuditIdsAre DEF Audits!Reserve, AuditsTypeOK, Audits!At
  <2>2. [audit |-> audit[t], at |-> record[t].at] \in Audits!AuditReservations
    BY <2>1 DEF Audits!AuditReservations, Audits!AuditReceipts
  <2>3. reservations' \in [Audits!AuditIds -> Audits!AuditReservations \cup {Nil}]
    BY <1>4, <2>1, <2>2 DEF Audits!Reserve, AuditsTypeOK
  <2>4. Audits!Refuse(t) \/ Audits!Proceed(t, "source")
    BY <1>4 DEF Audits!Reserve
  <2>5. "source" \in AuditPlaces /\ gatPc[t] # "idle"
    BY <1>4 DEF Audits!Reserve, Audits!At, AuditPlaces
  <2>6. /\ gatPc' \in [GatTasks -> AuditPlaces]
        /\ audit' \in [GatTasks -> AuditRequests \cup {Nil}]
        /\ \A u \in GatTasks : gatPc'[u] # "idle" => audit'[u] \in AuditRequests
        /\ record' \in [GatTasks -> Audits!AuditReceipts]
    BY <2>1, <2>4, <2>5, AuditLocals
  <2> QED BY <1>4, <2>3, <2>6 DEF Audits!Reserve, AuditsTypeOK, Audits!At
<1>5. ASSUME NEW t \in GatTasks, Audits!CheckSource(t)
      PROVE  AuditsTypeOK'
  <2>1. audit[t] \in AuditRequests /\ audit[t].id \in Audits!AuditIds
          /\ record[t] \in Audits!AuditReceipts
    BY <1>5, AuditIdsAre DEF Audits!CheckSource, AuditsTypeOK, Audits!At
  <2>2. begun' \in [Audits!AuditIds -> Nat]
    BY <1>5, <2>1 DEF Audits!CheckSource, AuditsTypeOK
  <2>3. PICK c : c = Audits!Checked(audit[t], record[t].at)
    OBVIOUS
  <2>4. c.outcome \in Audits!AuditOutcomes /\ c.verified \in BOOLEAN /\ c.decided \in BOOLEAN
    BY <2>3, CheckedIsTyped
  <2>5. \E place \in {"close", "lock"}, r \in Audits!AuditReceipts : Audits!Write(t, place, r)
    <3> DEFINE r == [record[t] EXCEPT !.verified = c.verified, !.decided = c.decided]
    <3>1. r \in Audits!AuditReceipts
      BY <2>1, <2>4 DEF Audits!AuditReceipts
    <3>2. /\ [r EXCEPT !.outcome = c.outcome] \in Audits!AuditReceipts
          /\ [r EXCEPT !.outcome = "SOURCE_INTEGRITY_FAILED"] \in Audits!AuditReceipts
          /\ [record[t] EXCEPT !.outcome = "SOURCE_INTEGRITY_FAILED"] \in Audits!AuditReceipts
      BY <2>1, <2>4, <3>1 DEF Audits!AuditReceipts, Audits!AuditOutcomes
    <3>3. \/ Audits!Write(t, "close", [r EXCEPT !.outcome = c.outcome])
          \/ Audits!Write(t, "lock", r)
          \/ Audits!Write(t, "close", [r EXCEPT !.outcome = "SOURCE_INTEGRITY_FAILED"])
          \/ Audits!Write(t, "close", [record[t] EXCEPT !.outcome = "SOURCE_INTEGRITY_FAILED"])
      BY <1>5, <2>3 DEF Audits!CheckSource
    <3> HIDE DEF r
    <3> QED BY <3>1, <3>2, <3>3
  <2>6. {"close", "lock"} \subseteq AuditPlaces /\ gatPc[t] # "idle"
    BY <1>5 DEF Audits!CheckSource, Audits!At, AuditPlaces
  <2>7. /\ gatPc' \in [GatTasks -> AuditPlaces]
        /\ audit' \in [GatTasks -> AuditRequests \cup {Nil}]
        /\ \A u \in GatTasks : gatPc'[u] # "idle" => audit'[u] \in AuditRequests
        /\ record' \in [GatTasks -> Audits!AuditReceipts]
    BY <2>5, <2>6, AuditLocals
  <2> QED BY <1>5, <2>2, <2>7 DEF Audits!CheckSource, AuditsTypeOK, Audits!At, Audits!gatFiles
<1>6. ASSUME NEW t \in GatTasks,
             Audits!TakeLock(t) \/ Audits!Spawn(t) \/ Audits!Stop(t) \/ Audits!Close(t)
               \/ Audits!Unlock(t)
      PROVE  AuditsTypeOK'
  <2>1. gatPc[t] # "idle" /\ record[t] \in Audits!AuditReceipts
    BY <1>6
       DEF Audits!TakeLock, Audits!Spawn, Audits!Stop, Audits!Close, Audits!Unlock, Audits!At,
           AuditsTypeOK
  <2>2. \A outcome \in Audits!AuditOutcomes :
          [record[t] EXCEPT !.outcome = outcome] \in Audits!AuditReceipts
    BY <2>1 DEF Audits!AuditReceipts
  <2>3. \/ \E place \in AuditPlaces : Audits!Proceed(t, place)
        \/ \E place \in AuditPlaces, outcome \in Audits!AuditOutcomes :
             Audits!Write(t, place, [record[t] EXCEPT !.outcome = outcome])
    <3>1. CASE Audits!TakeLock(t)
      BY <3>1 DEF Audits!TakeLock, AuditPlaces, Audits!AuditOutcomes, Audits!RuntimeFailures
    <3>2. CASE Audits!Spawn(t)
      BY <3>2 DEF Audits!Spawn, AuditPlaces, Audits!AuditOutcomes, Audits!RuntimeFailures
    <3>3. CASE Audits!Stop(t)
      BY <3>3 DEF Audits!Stop, AuditPlaces, Audits!AuditOutcomes, Audits!RuntimeFailures
    <3>4. CASE Audits!Close(t)
      BY <3>4 DEF Audits!Close, AuditPlaces, Audits!AuditOutcomes, Audits!RuntimeFailures
    <3>5. CASE Audits!Unlock(t)
      BY <3>5 DEF Audits!Unlock, AuditPlaces, Audits!AuditOutcomes, Audits!RuntimeFailures
    <3> QED BY <1>6, <3>1, <3>2, <3>3, <3>4, <3>5
  <2>4. /\ gatPc' \in [GatTasks -> AuditPlaces]
        /\ audit' \in [GatTasks -> AuditRequests \cup {Nil}]
        /\ \A u \in GatTasks : gatPc'[u] # "idle" => audit'[u] \in AuditRequests
        /\ record' \in [GatTasks -> Audits!AuditReceipts]
    BY <2>1, <2>2, <2>3, AuditLocals
  <2>5. UNCHANGED <<Audits!gatFiles, begun, gatIntruded>>
          /\ child' \in [GatTasks -> {"none", "running", "stopped"}]
    BY <1>6
       DEF Audits!TakeLock, Audits!Spawn, Audits!Stop, Audits!Close, Audits!Unlock,
           Audits!gatHistory, AuditsTypeOK
  <2> QED BY <2>4, <2>5 DEF AuditsTypeOK, Audits!At, Audits!gatFiles
<1>7. ASSUME NEW t \in GatTasks, Audits!Store(t) \/ Audits!ReadBack(t)
      PROVE  AuditsTypeOK'
  <2>1. gatPc[t] # "idle" /\ record[t] \in Audits!AuditReceipts
    BY <1>7 DEF Audits!Store, Audits!ReadBack, Audits!At, AuditsTypeOK
  <2>2. \/ Audits!Refuse(t) \/ Audits!Answer(t)
        \/ \E place \in AuditPlaces : Audits!Proceed(t, place)
    BY <1>7 DEF Audits!Store, Audits!ReadBack, AuditPlaces
  <2>3. /\ gatPc' \in [GatTasks -> AuditPlaces]
        /\ audit' \in [GatTasks -> AuditRequests \cup {Nil}]
        /\ \A u \in GatTasks : gatPc'[u] # "idle" => audit'[u] \in AuditRequests
        /\ record' \in [GatTasks -> Audits!AuditReceipts]
    <3>1. "idle" \in AuditPlaces
      BY DEF AuditPlaces
    <3> QED BY <2>1, <2>2, <3>1, AuditLocals
  <2> QED BY <1>7, <2>3 DEF Audits!Store, Audits!ReadBack, AuditsTypeOK, Audits!At, Audits!gatFiles
<1>8. ASSUME NEW t \in GatTasks, Audits!SaveReceipt(t)
      PROVE  AuditsTypeOK'
  <2>1. audit[t] \in AuditRequests /\ audit[t].id \in Audits!AuditIds
          /\ record[t] \in Audits!AuditReceipts /\ gatPc[t] # "idle"
    BY <1>8, AuditIdsAre DEF Audits!SaveReceipt, AuditsTypeOK, Audits!At
  <2>2. \A now \in GatTimes : [record[t] EXCEPT !.until = now] \in Audits!AuditReceipts
    BY <2>1 DEF Audits!AuditReceipts, Audits!AuditAssumption
  <2>3. gatReceipts' \in [Audits!AuditIds -> Audits!AuditReceipts \cup {Nil}]
    BY <1>8, <2>1, <2>2 DEF Audits!SaveReceipt, AuditsTypeOK
  <2>4. Audits!Refuse(t) \/ Audits!Proceed(t, "read back")
    BY <1>8 DEF Audits!SaveReceipt
  <2>5. /\ gatPc' \in [GatTasks -> AuditPlaces]
        /\ audit' \in [GatTasks -> AuditRequests \cup {Nil}]
        /\ \A u \in GatTasks : gatPc'[u] # "idle" => audit'[u] \in AuditRequests
        /\ record' \in [GatTasks -> Audits!AuditReceipts]
    <3>1. "read back" \in AuditPlaces
      BY DEF AuditPlaces
    <3> QED BY <2>1, <2>4, <3>1, AuditLocals
  <2> QED BY <1>8, <2>3, <2>5 DEF Audits!SaveReceipt, AuditsTypeOK, Audits!At
<1>9. ASSUME NEW t \in GatTasks, Audits!Exit(t)
      PROVE  AuditsTypeOK'
  BY <1>9
     DEF Audits!Exit, AuditsTypeOK, Audits!At, Audits!gatFiles, Audits!gatLocals, Audits!gatHistory
<1>10. ASSUME NEW t \in GatTasks, Audits!Crash(t)
       PROVE  AuditsTypeOK'
  <2>1. gatPc[t] # "idle" /\ Audits!Refuse(t) /\ record[t] \in Audits!AuditReceipts
    BY <1>10 DEF Audits!Crash, Audits!At, AuditsTypeOK
  <2>2. /\ gatPc' \in [GatTasks -> AuditPlaces]
        /\ audit' \in [GatTasks -> AuditRequests \cup {Nil}]
        /\ \A u \in GatTasks : gatPc'[u] # "idle" => audit'[u] \in AuditRequests
        /\ record' \in [GatTasks -> Audits!AuditReceipts]
    <3>1. "idle" \in AuditPlaces
      BY DEF AuditPlaces
    <3> QED BY <2>1, <3>1, AuditLocals
  <2> QED BY <1>10, <2>2 DEF Audits!Crash, AuditsTypeOK, Audits!At, Audits!gatFiles
<1>11. ASSUME NEW s \in Sources, Audits!Retain(s)
       PROVE  AuditsTypeOK'
  <2>1. \A content \in Contents, now \in GatTimes :
          [content |-> content, at |-> now] \in Audits!Retentions
    BY DEF Audits!Retentions, Audits!AuditAssumption
  <2> QED
    BY <1>11, <2>1 DEF Audits!Retain, AuditsTypeOK, Audits!At, Audits!gatLocals, Audits!gatHistory
<1>12. CASE Audits!RemoveLock
  BY <1>12 DEF Audits!RemoveLock, AuditsTypeOK, Audits!At, Audits!gatFiles, Audits!gatLocals
<1> QED
  BY <1>1, <1>2, <1>3, <1>4, <1>5, <1>6, <1>7, <1>8, <1>9, <1>10, <1>11, <1>12
     DEF Audits!Next, Audits!Step

LEMMA Engines ==
  ASSUME Audits!AuditAssumption, AuditsTypeOK, EngineInv, [Audits!Next]_(Audits!gatVars)
  PROVE  EngineInv'
<1> USE DEF Audits!At
<1>1. CASE UNCHANGED Audits!gatVars
  BY <1>1
     DEF EngineInv, Audits!EnginesRunning, Audits!gatVars, Audits!gatFiles, Audits!gatLocals,
         Audits!gatHistory
<1>2. ASSUME NEW t \in GatTasks, NEW a \in AuditRequests, Audits!Begin(t, a)
      PROVE  EngineInv'
  BY <1>2
     DEF Audits!Begin, EngineInv, Audits!EnginesRunning, AuditsTypeOK, Audits!Goto,
         Audits!gatHistory
<1>3. ASSUME NEW t \in GatTasks,
             Audits!Lookup(t) \/ Audits!Reserve(t) \/ Audits!CheckSource(t) \/ Audits!Store(t)
               \/ Audits!SaveReceipt(t) \/ Audits!ReadBack(t)
      PROVE  EngineInv'
  <2>1. /\ UNCHANGED <<auditLock, child, gatIntruded>>
        /\ gatPc[t] \notin {"wait", "idle"}
    BY <1>3
       DEF Audits!Lookup, Audits!Reserve, Audits!CheckSource, Audits!Store, Audits!SaveReceipt,
           Audits!ReadBack, AuditsTypeOK
  <2>2. \E place \in {"idle", "reserve", "source", "close", "lock", "projection", "read back"} :
          gatPc' = [gatPc EXCEPT ![t] = place]
    BY <1>3
       DEF Audits!Lookup, Audits!Reserve, Audits!CheckSource, Audits!Store, Audits!SaveReceipt,
           Audits!ReadBack, Audits!Goto, Audits!Refuse, Audits!Answer, Audits!Write, Audits!Proceed
  <2> QED BY <2>1, <2>2 DEF EngineInv, Audits!EnginesRunning, AuditsTypeOK
<1>4. ASSUME NEW t \in GatTasks, Audits!TakeLock(t)
      PROVE  EngineInv'
  <2>1. UNCHANGED <<child, gatIntruded>> /\ gatPc[t] = "lock"
    BY <1>4 DEF Audits!TakeLock
  <2>2. CASE auditLock = "free" /\ auditLock' = t /\ gatPc' = [gatPc EXCEPT ![t] = "spawn"]
    BY <2>1, <2>2 DEF EngineInv, Audits!EnginesRunning, AuditsTypeOK, Audits!AuditAssumption
  <2>3. CASE auditLock' = auditLock /\ gatPc' = [gatPc EXCEPT ![t] = "close"]
    BY <2>1, <2>3 DEF EngineInv, Audits!EnginesRunning, AuditsTypeOK
  <2> QED BY <1>4, <2>2, <2>3 DEF Audits!TakeLock, Audits!Proceed, Audits!Write, Audits!Goto
<1>5. ASSUME NEW t \in GatTasks, Audits!Spawn(t)
      PROVE  EngineInv'
  <2>1. UNCHANGED <<auditLock, gatIntruded>> /\ gatPc[t] = "spawn" /\ child[t] = "none"
    BY <1>5 DEF Audits!Spawn, EngineInv, AuditsTypeOK
  <2>2. CASE child' = [child EXCEPT ![t] = "running"] /\ gatPc' = [gatPc EXCEPT ![t] = "wait"]
    <3>1. ~ gatIntruded => \A u \in GatTasks : child[u] # "running"
      BY <2>1 DEF EngineInv, Audits!AuditAssumption
    <3> QED BY <2>1, <2>2, <3>1 DEF EngineInv, Audits!EnginesRunning, AuditsTypeOK
  <2>3. CASE child' = child /\ gatPc' = [gatPc EXCEPT ![t] = "unlock"]
    BY <2>1, <2>3 DEF EngineInv, Audits!EnginesRunning, AuditsTypeOK
  <2> QED BY <1>5, <2>2, <2>3 DEF Audits!Spawn, Audits!Proceed, Audits!Write, Audits!Goto
<1>6. ASSUME NEW t \in GatTasks, Audits!Stop(t)
      PROVE  EngineInv'
  BY <1>6
     DEF Audits!Stop, Audits!Write, Audits!Goto, Audits!gatHistory, EngineInv,
         Audits!EnginesRunning, AuditsTypeOK
<1>7. ASSUME NEW t \in GatTasks, Audits!Close(t)
      PROVE  EngineInv'
  <2>1. /\ UNCHANGED <<auditLock, gatIntruded>> /\ gatPc[t] = "wait"
        /\ child' = [child EXCEPT ![t] = "none"] /\ gatPc' = [gatPc EXCEPT ![t] = "unlock"]
    BY <1>7 DEF Audits!Close, Audits!Proceed, Audits!Write, Audits!Goto
  <2> QED BY <2>1 DEF EngineInv, Audits!EnginesRunning, AuditsTypeOK
<1>8. ASSUME NEW t \in GatTasks, Audits!Unlock(t)
      PROVE  EngineInv'
  <2>1. /\ UNCHANGED <<child, gatIntruded>> /\ gatPc[t] = "unlock" /\ auditLock' = "free"
        /\ gatPc' \in {[gatPc EXCEPT ![t] = place] : place \in {"close", "report"}}
    BY <1>8 DEF Audits!Unlock, Audits!Proceed, Audits!Write, Audits!Goto
  <2>2. ~ gatIntruded => \A u \in GatTasks : child[u] # "running"
    BY <2>1 DEF EngineInv, Audits!AuditAssumption, AuditsTypeOK
  <2>3. ~ gatIntruded => \A u \in GatTasks \ {t} : gatPc[u] \notin {"spawn", "wait", "unlock"}
    BY <2>1 DEF EngineInv
  <2> QED BY <2>1, <2>2, <2>3 DEF EngineInv, Audits!EnginesRunning, AuditsTypeOK
<1>9. ASSUME NEW t \in GatTasks, Audits!Exit(t)
      PROVE  EngineInv'
  BY <1>9
     DEF Audits!Exit, Audits!gatLocals, Audits!gatHistory, EngineInv, Audits!EnginesRunning,
         AuditsTypeOK
<1>10. ASSUME NEW t \in GatTasks, Audits!Crash(t)
       PROVE  EngineInv'
  <2>1. /\ UNCHANGED gatIntruded /\ gatPc' = [gatPc EXCEPT ![t] = "idle"]
        /\ child' = [child EXCEPT ![t] = IF @ = "running" THEN @ ELSE "none"]
        /\ auditLock' = IF auditLock = t THEN "stale" ELSE auditLock
    BY <1>10 DEF Audits!Crash, Audits!Refuse, Audits!Goto
  <2>2. \A u \in GatTasks : child'[u] = "running" <=> child[u] = "running"
    BY <2>1 DEF AuditsTypeOK
  <2>3. \A u \in GatTasks : child'[u] = "stopped" => u # t /\ child[u] = "stopped"
    BY <2>1 DEF AuditsTypeOK
  <2>4. ~ gatIntruded => \A u \in GatTasks \ {t} :
          gatPc'[u] \in {"spawn", "wait", "unlock"} => auditLock' = u
    BY <2>1 DEF EngineInv, AuditsTypeOK
  <2>5. ~ gatIntruded => \A u \in GatTasks : child'[u] = "running" => auditLock' \in {u, "stale"}
    BY <2>1, <2>2 DEF EngineInv
  <2>6. \A u \in GatTasks : child'[u] = "running" => gatPc'[u] \in {"wait", "idle"}
    BY <2>1, <2>2 DEF EngineInv, AuditsTypeOK
  <2>7. \A u \in GatTasks : child'[u] = "stopped" => gatPc'[u] = "wait"
    BY <2>1, <2>3 DEF EngineInv, AuditsTypeOK
  <2>8. gatPc'[t] = "idle"
    BY <2>1 DEF AuditsTypeOK
  <2>9. Audits!EnginesRunning' = Audits!EnginesRunning
    BY <2>2 DEF Audits!EnginesRunning
  <2> QED BY <2>1, <2>4, <2>5, <2>6, <2>7, <2>8, <2>9 DEF EngineInv
<1>11. ASSUME NEW s \in Sources, Audits!Retain(s)
       PROVE  EngineInv'
  BY <1>11 DEF Audits!Retain, Audits!gatLocals, Audits!gatHistory, EngineInv, Audits!EnginesRunning
<1>12. CASE Audits!RemoveLock
  <2>1. UNCHANGED <<child, gatPc>>
        /\ (~ gatIntruded' => ~ gatIntruded /\ auditLock = "stale" /\ Audits!EnginesRunning = {})
    BY <1>12 DEF Audits!RemoveLock, AuditsTypeOK, Audits!gatLocals
  <2>2. ~ gatIntruded' => \A u \in GatTasks : child[u] # "running"
          /\ gatPc[u] \notin {"spawn", "wait", "unlock"}
    BY <2>1 DEF EngineInv, Audits!EnginesRunning, Audits!AuditAssumption
  <2> QED BY <2>1, <2>2 DEF EngineInv, Audits!EnginesRunning
<1> QED
  BY <1>1, <1>2, <1>3, <1>4, <1>5, <1>6, <1>7, <1>8, <1>9, <1>10, <1>11, <1>12
     DEF Audits!Next, Audits!Step

\* A task that goes on with its request and its time, or gives up.
GoesOn(t, from, to) ==
  /\ gatPc[t] \in from
  /\ \/ gatPc' = [gatPc EXCEPT ![t] = "idle"]
     \/ /\ \E place \in to : gatPc' = [gatPc EXCEPT ![t] = place]
        /\ audit'[t] = audit[t] /\ record'[t].at = record[t].at
  /\ \A u \in GatTasks \ {t} : audit'[u] = audit[u] /\ record'[u] = record[u]

\* A call that works, and is not about to begin or to be told.
MidWork == AuditPlaces \ {"idle", "lookup", "reserve", "source", "read back"}

LEMMA AuditClaimsStay ==
  ASSUME AuditsTypeOK, ClaimsInv, NEW t \in GatTasks,
         UNCHANGED <<reservations, begun, gatReceipts>>,
         \/ GoesOn(t, AuditPlaces, {"idle"})
         \/ GoesOn(t, {"lookup"}, {"reserve"})
         \/ GoesOn(t, MidWork, MidWork)
  PROVE  ClaimsInv'
<1>1. \A u \in GatTasks \ {t} :
        /\ gatPc'[u] = gatPc[u] /\ audit'[u] = audit[u] /\ record'[u] = record[u]
        /\ AuditWorking(u)' = AuditWorking(u)
  <2>1. \E place : gatPc' = [gatPc EXCEPT ![t] = place]
    BY DEF GoesOn
  <2>2. \A u \in GatTasks \ {t} : gatPc'[u] = gatPc[u]
    BY <2>1 DEF AuditsTypeOK
  <2>3. \A u \in GatTasks \ {t} : audit'[u] = audit[u] /\ record'[u] = record[u]
    BY DEF GoesOn
  <2> QED BY <2>2, <2>3 DEF AuditWorking
<1>2. CASE ~ AuditWorking(t)'
  <2>1. \A u \in GatTasks : AuditWorking(u)' => u # t /\ AuditWorking(u) /\ AuditClaim(u)
    BY <1>1, <1>2 DEF ClaimsInv
  <2>2. ASSUME NEW u \in GatTasks, AuditWorking(u)'
        PROVE  AuditClaim(u)'
    <3>1. /\ AuditClaim(u)
          /\ gatPc'[u] = gatPc[u] /\ audit'[u] = audit[u] /\ record'[u] = record[u]
      BY <1>1, <2>1, <2>2
    <3> QED BY <3>1 DEF AuditClaim, Audits!At
  <2> QED BY <1>1, <2>1, <2>2 DEF ClaimsInv
<1>3. CASE AuditWorking(t)'
  <2>1. /\ AuditWorking(t) /\ gatPc[t] \in MidWork /\ gatPc'[t] \in MidWork
        /\ audit'[t] = audit[t] /\ record'[t].at = record[t].at
    <3>1. gatPc'[t] \notin {"idle", "reserve"}
      BY <1>3 DEF AuditWorking
    <3>2. \A place : gatPc' = [gatPc EXCEPT ![t] = place] => gatPc'[t] = place
      BY DEF AuditsTypeOK
    <3>3. GoesOn(t, MidWork, MidWork)
      BY <3>1, <3>2 DEF GoesOn
    <3>4. /\ gatPc[t] \in MidWork /\ \E place \in MidWork : gatPc' = [gatPc EXCEPT ![t] = place]
          /\ audit'[t] = audit[t] /\ record'[t].at = record[t].at
      BY <3>1, <3>2, <3>3 DEF GoesOn
    <3> QED BY <3>2, <3>4 DEF AuditWorking, MidWork
  <2>2. \A u \in GatTasks : AuditWorking(u)'
          => AuditWorking(u) /\ AuditClaim(u) /\ audit'[u] = audit[u]
    BY <1>1, <2>1 DEF ClaimsInv
  <2>3. AuditClaim(t)'
    BY <2>1, <2>2 DEF AuditClaim, Audits!At, MidWork, ClaimsInv
  <2>4. ASSUME NEW u \in GatTasks \ {t}, AuditWorking(u)'
        PROVE  AuditClaim(u)'
    <3>1. AuditClaim(u)
      BY <2>2, <2>4
    <3> QED BY <1>1, <3>1 DEF AuditClaim, Audits!At
  <2> QED BY <1>1, <2>2, <2>3, <2>4 DEF ClaimsInv
<1> QED BY <1>2, <1>3

LEMMA Claims ==
  ASSUME Audits!AuditAssumption, AuditsTypeOK, ClaimsInv, [Audits!Next]_(Audits!gatVars)
  PROVE  ClaimsInv'
<1>1. CASE UNCHANGED Audits!gatVars
  BY <1>1
     DEF ClaimsInv, AuditWorking, AuditClaim, Audits!At, Audits!gatVars, Audits!gatFiles,
         Audits!gatLocals, Audits!gatHistory
<1>2. ASSUME NEW t \in GatTasks, NEW a \in AuditRequests, Audits!Begin(t, a)
      PROVE  ClaimsInv'
  <2>1. /\ UNCHANGED <<reservations, begun, gatReceipts, record>>
        /\ gatPc' = [gatPc EXCEPT ![t] = "lookup"] /\ audit' = [audit EXCEPT ![t] = a]
    BY <1>2 DEF Audits!Begin, Audits!Goto, Audits!gatFiles, Audits!gatHistory
  <2>2. \A u \in GatTasks : AuditWorking(u)' => u # t /\ AuditWorking(u) /\ AuditClaim(u)
    BY <2>1 DEF ClaimsInv, AuditWorking, AuditsTypeOK
  <2>3. \A u \in GatTasks \ {t} : audit'[u] = audit[u] /\ gatPc'[u] = gatPc[u]
    BY <2>1 DEF AuditsTypeOK
  <2>4. ASSUME NEW u \in GatTasks, AuditWorking(u)'
        PROVE  AuditClaim(u)'
    <3>1. u # t /\ AuditClaim(u)
      BY <2>2, <2>4
    <3>2. audit'[u] = audit[u] /\ gatPc'[u] = gatPc[u]
      BY <2>3, <3>1
    <3> QED BY <2>1, <3>1, <3>2 DEF AuditClaim, Audits!At
  <2> QED BY <2>1, <2>2, <2>3, <2>4 DEF ClaimsInv
<1>3. ASSUME NEW t \in GatTasks, Audits!Lookup(t)
      PROVE  ClaimsInv'
  <2>1. UNCHANGED <<reservations, begun, gatReceipts>>
    BY <1>3 DEF Audits!Lookup, Audits!gatFiles
  <2>2. CASE Audits!Refuse(t) \/ Audits!Answer(t)
    <3>1. GoesOn(t, AuditPlaces, {"idle"})
      BY <2>2 DEF Audits!Refuse, Audits!Answer, Audits!Goto, GoesOn, AuditsTypeOK
    <3> QED BY <2>1, <3>1, AuditClaimsStay
  <2>3. ASSUME NEW now \in GatTimes, Audits!Write(t, "reserve", [Audits!NoRecord EXCEPT !.at = now])
        PROVE  ClaimsInv'
    <3>1. /\ gatPc' = [gatPc EXCEPT ![t] = "reserve"] /\ audit' = audit
          /\ \A u \in GatTasks \ {t} : record'[u] = record[u]
      BY <2>3 DEF Audits!Write, Audits!Goto, AuditsTypeOK
    <3>2. \A u \in GatTasks : AuditWorking(u)' => u # t /\ AuditWorking(u) /\ AuditClaim(u)
      BY <3>1 DEF ClaimsInv, AuditWorking, AuditsTypeOK
    <3>3. \A u \in GatTasks \ {t} : gatPc'[u] = gatPc[u]
      BY <3>1 DEF AuditsTypeOK
    <3>4. ASSUME NEW u \in GatTasks, AuditWorking(u)'
          PROVE  AuditClaim(u)'
      BY <2>1, <3>1, <3>2, <3>3, <3>4 DEF AuditClaim, Audits!At
    <3> QED BY <2>1, <3>1, <3>2, <3>4 DEF ClaimsInv
  <2> QED BY <1>3, <2>2, <2>3 DEF Audits!Lookup
<1>4. ASSUME NEW t \in GatTasks, Audits!Reserve(t)
      PROVE  ClaimsInv'
  <2> DEFINE i == audit[t].id
             mine == [audit |-> audit[t], at |-> record[t].at]
  <2>1. /\ UNCHANGED <<begun, gatReceipts>> /\ gatPc[t] = "reserve" /\ i \in Audits!AuditIds
        /\ audit[t] \in AuditRequests
    BY <1>4, AuditIdsAre DEF Audits!Reserve, AuditsTypeOK, Audits!At
  <2>2. mine # Nil
    BY <2>1 DEF AuditsTypeOK, Audits!AuditAssumption, Audits!AuditReservations, Audits!AuditReceipts
  <2>3. reservations' = [reservations EXCEPT ![i] = mine] \/ reservations' = reservations
    BY <1>4 DEF Audits!Reserve
  <2>4. reservations' # reservations => reservations[i] = Nil
    BY <1>4 DEF Audits!Reserve
  <2>5. \A u \in GatTasks : AuditWorking(u) => u # t
    BY <2>1 DEF AuditWorking
  <2>6. ASSUME NEW u \in GatTasks, AuditWorking(u), reservations' # reservations
        PROVE  audit[u].id # i
    <3>1. reservations[audit[u].id] = [audit |-> audit[u], at |-> record[u].at]
      BY <2>6 DEF ClaimsInv, AuditClaim
    <3>2. [audit |-> audit[u], at |-> record[u].at] # Nil
      BY <2>6
         DEF AuditWorking, Audits!At, AuditsTypeOK, Audits!AuditAssumption,
             Audits!AuditReservations, Audits!AuditReceipts
    <3> QED BY <2>4, <2>6, <3>1, <3>2
  <2>7. /\ Audits!Refuse(t) \/ (Audits!Proceed(t, "source") /\ reservations[i] = Nil /\ reservations' = [reservations EXCEPT ![i] = mine])
    BY <1>4 DEF Audits!Reserve
  <2>8. \A u \in GatTasks \ {t} : gatPc'[u] = gatPc[u] /\ audit'[u] = audit[u]
          /\ record'[u] = record[u]
    BY <2>7 DEF Audits!Refuse, Audits!Proceed, Audits!Goto, Audits!gatLocals, AuditsTypeOK
  <2>9. ASSUME NEW u \in GatTasks, AuditWorking(u)', u # t
        PROVE  AuditWorking(u) /\ AuditClaim(u) /\ AuditClaim(u)'
    <3>1. AuditWorking(u) /\ AuditClaim(u) /\ audit[u].id \in Audits!AuditIds
      BY <2>8, <2>9, AuditIdsAre DEF AuditWorking, ClaimsInv, AuditsTypeOK, Audits!At
    <3>2. reservations'[audit[u].id] = reservations[audit[u].id]
      BY <2>3, <2>6, <3>1 DEF AuditsTypeOK
    <3> QED BY <2>1, <2>8, <2>9, <3>1, <3>2 DEF AuditClaim, Audits!At
  <2>10. \A j \in Audits!AuditIds : reservations'[j] = Nil
           => begun'[j] = 0 /\ gatReceipts'[j] = Nil
    BY <2>1, <2>2, <2>3 DEF ClaimsInv, AuditsTypeOK
  <2>11. CASE AuditWorking(t)'
    <3>1. /\ reservations[i] = Nil /\ reservations'[i] = mine
          /\ gatPc'[t] = "source" /\ audit'[t] = audit[t] /\ record'[t] = record[t]
          /\ reservations' # reservations
      BY <2>1, <2>2, <2>7, <2>11
         DEF Audits!Refuse, Audits!Proceed, Audits!Goto, Audits!gatLocals, AuditsTypeOK,
             AuditWorking
    <3>2. begun[i] = 0 /\ gatReceipts[i] = Nil
      BY <2>1, <3>1 DEF ClaimsInv
    <3>3. AuditClaim(t)'
      BY <2>1, <3>1, <3>2 DEF AuditClaim, Audits!At
    <3>4. \A u \in GatTasks \ {t} : AuditWorking(u)' => audit'[u].id # audit'[t].id
      BY <2>6, <2>8, <2>9, <3>1
    <3> QED BY <2>8, <2>9, <2>10, <3>3, <3>4 DEF ClaimsInv
  <2>12. CASE ~ AuditWorking(t)'
    BY <2>8, <2>9, <2>10, <2>12 DEF ClaimsInv
  <2> QED BY <2>11, <2>12
<1>5. ASSUME NEW t \in GatTasks, Audits!CheckSource(t)
      PROVE  ClaimsInv'
  <2>1. /\ UNCHANGED <<reservations, gatReceipts>> /\ gatPc[t] = "source"
        /\ audit[t] \in AuditRequests /\ audit[t].id \in Audits!AuditIds
        /\ begun' = [begun EXCEPT ![audit[t].id] = @ + 1]
    BY <1>5, AuditIdsAre DEF Audits!CheckSource, AuditsTypeOK, Audits!At, Audits!gatFiles
  <2>2. AuditWorking(t) /\ AuditClaim(t)
    BY <2>1 DEF AuditWorking, AuditPlaces, ClaimsInv
  <2>3. begun[audit[t].id] = 0 /\ begun'[audit[t].id] = 1
    BY <2>1, <2>2 DEF AuditClaim, Audits!At, AuditsTypeOK
  <2>4. /\ gatPc'[t] \in {"close", "lock"} /\ audit' = audit /\ record'[t].at = record[t].at
        /\ \A u \in GatTasks \ {t} : gatPc'[u] = gatPc[u] /\ record'[u] = record[u]
    <3>1. \E place \in {"close", "lock"}, r \in Audits!AuditReceipts : r.at = record[t].at
            /\ Audits!Write(t, place, r)
      <4>1. record[t] \in Audits!AuditReceipts
        BY DEF AuditsTypeOK
      <4>2. PICK c : c = Audits!Checked(audit[t], record[t].at)
        OBVIOUS
      <4>3. c.outcome \in Audits!AuditOutcomes /\ c.verified \in BOOLEAN /\ c.decided \in BOOLEAN
        BY <4>2, CheckedIsTyped
      <4> DEFINE r == [record[t] EXCEPT !.verified = c.verified, !.decided = c.decided]
      <4>4. r \in Audits!AuditReceipts /\ r.at = record[t].at
        BY <4>1, <4>3 DEF Audits!AuditReceipts
      <4>5. \A q \in Audits!AuditReceipts, o \in Audits!AuditOutcomes :
              [q EXCEPT !.outcome = o] \in Audits!AuditReceipts
                /\ [q EXCEPT !.outcome = o].at = q.at
        BY DEF Audits!AuditReceipts
      <4>6. \/ Audits!Write(t, "close", [r EXCEPT !.outcome = c.outcome])
            \/ Audits!Write(t, "lock", r)
            \/ Audits!Write(t, "close", [r EXCEPT !.outcome = "SOURCE_INTEGRITY_FAILED"])
            \/ Audits!Write(t, "close", [record[t] EXCEPT !.outcome = "SOURCE_INTEGRITY_FAILED"])
        BY <1>5, <4>2 DEF Audits!CheckSource
      <4>7. "SOURCE_INTEGRITY_FAILED" \in Audits!AuditOutcomes
        BY DEF Audits!AuditOutcomes
      <4> HIDE DEF r
      <4> QED BY <4>1, <4>3, <4>4, <4>5, <4>6, <4>7
    <3> QED BY <3>1 DEF Audits!Write, Audits!Goto, AuditsTypeOK
  <2>5. \A u \in GatTasks : AuditWorking(u)' => AuditWorking(u)
    BY <2>2, <2>4 DEF AuditWorking
  <2>6. AuditClaim(t)'
    BY <2>1, <2>2, <2>3, <2>4 DEF AuditClaim, Audits!At
  <2>7. ASSUME NEW u \in GatTasks \ {t}, AuditWorking(u)'
        PROVE  AuditClaim(u)'
    <3>1. audit[u].id # audit[t].id /\ AuditClaim(u)
      BY <2>2, <2>5, <2>7 DEF ClaimsInv
    <3>2. audit[u].id \in Audits!AuditIds
      BY <2>5, <2>7, AuditIdsAre DEF AuditWorking, AuditsTypeOK, Audits!At
    <3>3. begun'[audit[u].id] = begun[audit[u].id]
      BY <2>1, <3>1, <3>2 DEF AuditsTypeOK
    <3> QED BY <2>1, <2>4, <3>1, <3>3 DEF AuditClaim, Audits!At
  <2>8. \A i \in Audits!AuditIds : reservations[i] = Nil => i # audit[t].id
    <3>1. [audit |-> audit[t], at |-> record[t].at] # Nil
      BY <2>1
         DEF AuditsTypeOK, Audits!AuditAssumption, Audits!AuditReservations, Audits!AuditReceipts
    <3> QED BY <2>2, <3>1 DEF AuditClaim
  <2>9. \A i \in Audits!AuditIds : reservations'[i] = Nil
          => begun'[i] = 0 /\ gatReceipts'[i] = Nil
    BY <2>1, <2>8 DEF ClaimsInv, AuditsTypeOK
  <2> QED BY <2>4, <2>5, <2>6, <2>7, <2>9 DEF ClaimsInv
<1>6. ASSUME NEW t \in GatTasks,
             Audits!TakeLock(t) \/ Audits!Spawn(t) \/ Audits!Stop(t) \/ Audits!Close(t)
               \/ Audits!Unlock(t) \/ Audits!Store(t)
      PROVE  ClaimsInv'
  <2>1. UNCHANGED <<reservations, begun, gatReceipts>>
    BY <1>6
       DEF Audits!TakeLock, Audits!Spawn, Audits!Stop, Audits!Close, Audits!Unlock, Audits!Store,
           Audits!gatFiles, Audits!gatHistory
  <2>2. gatPc[t] \in MidWork
    BY <1>6
       DEF Audits!TakeLock, Audits!Spawn, Audits!Stop, Audits!Close, Audits!Unlock, Audits!Store,
           Audits!At, MidWork, AuditPlaces
  <2>3. \/ Audits!Refuse(t)
        \/ \E place \in MidWork : \/ Audits!Proceed(t, place)
                                  \/ \E o \in Audits!AuditOutcomes :
                                       Audits!Write(t, place, [record[t] EXCEPT !.outcome = o])
    <3>1. CASE Audits!TakeLock(t)
      BY <3>1
         DEF Audits!TakeLock, MidWork, AuditPlaces, Audits!AuditOutcomes, Audits!RuntimeFailures
    <3>2. CASE Audits!Spawn(t)
      BY <3>2 DEF Audits!Spawn, MidWork, AuditPlaces, Audits!AuditOutcomes, Audits!RuntimeFailures
    <3>3. CASE Audits!Stop(t)
      BY <3>3 DEF Audits!Stop, MidWork, AuditPlaces, Audits!AuditOutcomes, Audits!RuntimeFailures
    <3>4. CASE Audits!Close(t)
      BY <3>4 DEF Audits!Close, MidWork, AuditPlaces, Audits!AuditOutcomes, Audits!RuntimeFailures
    <3>5. CASE Audits!Unlock(t)
      BY <3>5 DEF Audits!Unlock, MidWork, AuditPlaces, Audits!AuditOutcomes, Audits!RuntimeFailures
    <3>6. CASE Audits!Store(t)
      BY <3>6 DEF Audits!Store, MidWork, AuditPlaces
    <3> QED BY <1>6, <3>1, <3>2, <3>3, <3>4, <3>5, <3>6
  <2>4. CASE Audits!Refuse(t)
    <3>1. GoesOn(t, AuditPlaces, {"idle"})
      BY <2>4 DEF Audits!Refuse, Audits!Goto, GoesOn, AuditsTypeOK
    <3> QED BY <2>1, <3>1, AuditClaimsStay
  <2>5. ASSUME NEW place \in MidWork, Audits!Proceed(t, place)
        PROVE  ClaimsInv'
    <3>1. GoesOn(t, MidWork, MidWork)
      BY <2>2, <2>5 DEF Audits!Proceed, Audits!Goto, GoesOn, Audits!gatLocals
    <3> QED BY <2>1, <3>1, AuditClaimsStay
  <2>6. ASSUME NEW place \in MidWork, NEW o \in Audits!AuditOutcomes,
               Audits!Write(t, place, [record[t] EXCEPT !.outcome = o])
        PROVE  ClaimsInv'
    <3>1. [record[t] EXCEPT !.outcome = o].at = record[t].at
      BY DEF AuditsTypeOK, Audits!AuditReceipts
    <3>2. GoesOn(t, MidWork, MidWork)
      BY <2>2, <2>6, <3>1 DEF Audits!Write, Audits!Goto, GoesOn, AuditsTypeOK
    <3> QED BY <2>1, <3>2, AuditClaimsStay
  <2> QED BY <2>3, <2>4, <2>5, <2>6
<1>7. ASSUME NEW t \in GatTasks, Audits!ReadBack(t) \/ Audits!Crash(t)
      PROVE  ClaimsInv'
  <2>1. UNCHANGED <<reservations, begun, gatReceipts>>
    BY <1>7 DEF Audits!ReadBack, Audits!Crash, Audits!gatFiles
  <2>2. GoesOn(t, AuditPlaces, {"idle"})
    BY <1>7
       DEF Audits!ReadBack, Audits!Crash, Audits!Refuse, Audits!Answer, Audits!Goto, GoesOn,
           AuditsTypeOK
  <2> QED BY <2>1, <2>2, AuditClaimsStay
<1>8. ASSUME NEW t \in GatTasks, Audits!SaveReceipt(t)
      PROVE  ClaimsInv'
  <2> DEFINE i == audit[t].id
  <2>1. /\ UNCHANGED <<reservations, begun>> /\ gatPc[t] = "close" /\ i \in Audits!AuditIds
             /\ audit[t] \in AuditRequests
        /\ record[t] \in Audits!AuditReceipts
    BY <1>8, AuditIdsAre DEF Audits!SaveReceipt, AuditsTypeOK, Audits!At
  <2>2. AuditWorking(t) /\ AuditClaim(t)
    BY <2>1 DEF AuditWorking, AuditPlaces, ClaimsInv
  <2>3. \/ gatReceipts' = gatReceipts /\ Audits!Refuse(t)
        \/ \E r \in Audits!AuditReceipts : gatReceipts' = [gatReceipts EXCEPT ![i] = r]
             /\ (Audits!Refuse(t) \/ Audits!Proceed(t, "read back"))
    <3>1. \A now \in GatTimes : [record[t] EXCEPT !.until = now] \in Audits!AuditReceipts
      BY <2>1 DEF Audits!AuditReceipts, Audits!AuditAssumption
    <3>2. PICK now \in GatTimes :
            LET closed == [gatReceipts EXCEPT ![i] = [record[t] EXCEPT !.until = now]] IN
            \/ gatReceipts' = closed /\ Audits!Proceed(t, "read back")
            \/ gatReceipts' \in {gatReceipts, closed} /\ Audits!Refuse(t)
      BY <1>8 DEF Audits!SaveReceipt
    <3> QED BY <3>1, <3>2
  <2>4. /\ \A u \in GatTasks \ {t} : gatPc'[u] = gatPc[u] /\ audit'[u] = audit[u]
             /\ record'[u] = record[u]
        /\ \A j \in Audits!AuditIds \ {i} : gatReceipts'[j] = gatReceipts[j]
    BY <2>1, <2>3 DEF Audits!Refuse, Audits!Proceed, Audits!Goto, Audits!gatLocals, AuditsTypeOK
  <2>5. ASSUME NEW u \in GatTasks \ {t}, AuditWorking(u)'
        PROVE  AuditWorking(u) /\ AuditClaim(u)'
    <3>1. AuditWorking(u)
      BY <2>4, <2>5 DEF AuditWorking
    <3>2. AuditClaim(u) /\ audit[u].id # i
      BY <2>2, <3>1 DEF ClaimsInv
    <3>3. audit[u].id \in Audits!AuditIds
      BY <3>1, AuditIdsAre DEF AuditWorking, AuditsTypeOK, Audits!At
    <3>4. /\ gatPc'[u] = gatPc[u] /\ audit'[u] = audit[u] /\ record'[u] = record[u]
          /\ gatReceipts'[audit[u].id] = gatReceipts[audit[u].id]
          /\ reservations' = reservations /\ begun' = begun
      BY <2>1, <2>4, <3>2, <3>3
    <3>5. AuditClaim(u)'
      BY <3>2, <3>4 DEF AuditClaim, Audits!At
    <3> QED BY <3>1, <3>5
  <2>6. reservations[i] # Nil
    <3>1. [audit |-> audit[t], at |-> record[t].at] # Nil
      BY <2>1
         DEF AuditsTypeOK, Audits!AuditAssumption, Audits!AuditReservations, Audits!AuditReceipts
    <3> QED BY <2>2, <3>1 DEF AuditClaim
  <2>7. \A j \in Audits!AuditIds : reservations'[j] = Nil
          => begun'[j] = 0 /\ gatReceipts'[j] = Nil
    BY <2>1, <2>4, <2>6 DEF ClaimsInv
  <2>8. CASE AuditWorking(t)'
    <3>1. /\ gatPc'[t] = "read back" /\ audit' = audit /\ record' = record
          /\ gatReceipts'[i] \in Audits!AuditReceipts
      BY <2>1, <2>3, <2>8
         DEF Audits!Refuse, Audits!Proceed, Audits!Goto, Audits!gatLocals, AuditsTypeOK,
             AuditWorking
    <3>2. gatReceipts'[i] # Nil
      BY <3>1 DEF Audits!AuditAssumption
    <3>3. AuditClaim(t)'
      BY <2>1, <2>2, <3>1, <3>2 DEF AuditClaim, Audits!At
    <3>4. \A u \in GatTasks : AuditWorking(u)' => AuditWorking(u) /\ audit'[u] = audit[u]
      BY <2>2, <2>5, <3>1
    <3> QED BY <2>5, <2>7, <3>3, <3>4 DEF ClaimsInv
  <2>9. CASE ~ AuditWorking(t)'
    BY <2>4, <2>5, <2>7, <2>9 DEF ClaimsInv
  <2> QED BY <2>8, <2>9
<1>9. ASSUME NEW t \in GatTasks, Audits!Exit(t)
      PROVE  ClaimsInv'
  BY <1>9
     DEF Audits!Exit, Audits!gatFiles, Audits!gatLocals, Audits!gatHistory, ClaimsInv,
         AuditWorking, AuditClaim, Audits!At
<1>10. ASSUME NEW s \in Sources, Audits!Retain(s)
       PROVE  ClaimsInv'
  BY <1>10
     DEF Audits!Retain, Audits!gatLocals, Audits!gatHistory, ClaimsInv, AuditWorking, AuditClaim,
         Audits!At
<1>11. CASE Audits!RemoveLock
  BY <1>11
     DEF Audits!RemoveLock, Audits!gatFiles, Audits!gatLocals, ClaimsInv, AuditWorking, AuditClaim,
         Audits!At
<1> QED
  BY <1>1, <1>2, <1>3, <1>4, <1>5, <1>6, <1>7, <1>8, <1>9, <1>10, <1>11 DEF Audits!Next, Audits!Step

-----------------------------------------------------------------------------
\* What the source of a request is stays once it is retained, and so does what
\* was judged of it.
LEMMA GatesStay ==
  ASSUME Audits!AuditAssumption, AuditsTypeOK, NEW a \in AuditRequests, NEW r,
         \A s \in Sources : retained[s] # Nil => retained'[s] = retained[s],
         artifacts \subseteq artifacts'
  PROVE  /\ \A at : Audits!Checked(a, at).outcome # "SOURCE_UNAVAILABLE"
              => Audits!Checked(a, at)' = Audits!Checked(a, at)
         /\ Closes(a, r) => Closes(a, r)'
<1>1. a.source \in Sources
  BY DEF Audits!AuditAssumption
<1>2. CASE retained[a.source] # Nil
  <2>1. \A at : Audits!Checked(a, at)' = Audits!Checked(a, at)
    BY <1>1, <1>2 DEF Audits!Checked
  <2>2. Gates(a, r) => Gates(a, r)'
    BY <2>1 DEF Gates
  <2>3. retained'[a.source] # Nil
    BY <1>1, <1>2
  <2> QED BY <1>2, <2>1, <2>2, <2>3 DEF Closes
<1>3. CASE retained[a.source] = Nil
  <2>1. \A at : Audits!Checked(a, at).outcome = "SOURCE_UNAVAILABLE"
          /\ ~ Audits!Checked(a, at).verified /\ ~ Audits!Checked(a, at).decided
    BY <1>3 DEF Audits!Checked
  <2>2. ASSUME retained'[a.source] = Nil
        PROVE  Closes(a, r) => Closes(a, r)'
    <3>1. \A at : Audits!Checked(a, at)' = Audits!Checked(a, at)
      BY <1>3, <2>2 DEF Audits!Checked
    <3> QED BY <1>3, <2>2, <3>1 DEF Closes, Gates
  <2>3. ASSUME retained'[a.source] # Nil
        PROVE  Closes(a, r) => Closes(a, r)'
    BY <1>3, <2>1, <2>3 DEF Closes, Gates
  <2> QED BY <2>1, <2>2, <2>3
<1> QED BY <1>2, <1>3

\* Nobody else touches what a task at work has written down.
LEMMA RecordsStay ==
  ASSUME Audits!AuditAssumption, AuditsTypeOK, NEW u \in GatTasks, RecordAt(u),
         \A s \in Sources : retained[s] # Nil => retained'[s] = retained[s],
         artifacts \subseteq artifacts',
         gatPc'[u] = gatPc[u], audit'[u] = audit[u], record'[u] = record[u]
  PROVE  RecordAt(u)'
<1>1. CASE gatPc[u] \in {"idle", "lookup", "reserve", "source", "read back"}
  BY <1>1 DEF RecordAt, Audits!At
<1>2. CASE gatPc[u] = "close"
  <2>1. audit[u] \in AuditRequests
    BY <1>2 DEF AuditsTypeOK, Audits!At
  <2>2. Closes(audit[u], record[u]) /\ Closes(audit[u], record[u])'
    BY <1>2, <2>1, GatesStay DEF RecordAt, Audits!At
  <2> QED BY <1>2, <2>2 DEF RecordAt, Audits!At, Closes, Gates, Audits!Checked
<1>3. CASE gatPc[u] \in {"lock", "spawn", "wait", "unlock", "report", "projection"}
  <2>1. audit[u] \in AuditRequests /\ Passed(u)
    BY <1>3 DEF AuditsTypeOK, Audits!At, RecordAt
  <2>2. Audits!Checked(audit[u], record[u].at)' = Audits!Checked(audit[u], record[u].at)
    BY <2>1, GatesStay DEF Passed
  <2>3. Passed(u)'
    BY <2>1, <2>2 DEF Passed, Audits!Checked
  <2> QED BY <1>3, <2>3 DEF RecordAt, Audits!At
<1> QED BY <1>1, <1>2, <1>3 DEF AuditsTypeOK, AuditPlaces

\* A receipt is of the reservation of its identity, and closes it.
ReceiptInv(i) ==
  gatReceipts[i] # Nil =>
    /\ gatReceipts[i].until >= gatReceipts[i].at
    /\ reservations[i] # Nil /\ reservations[i].audit.id = i
    /\ Closes(reservations[i].audit, gatReceipts[i])

\* What is retained, stored and reserved stays so.
AuditFilesGrow ==
  /\ \A s \in Sources : retained[s] # Nil => retained'[s] = retained[s]
  /\ artifacts \subseteq artifacts'
  /\ \A i \in Audits!AuditIds : reservations[i] # Nil => reservations'[i] = reservations[i]

LEMMA AuditFiles ==
  ASSUME AuditsTypeOK, [Audits!Next]_(Audits!gatVars)
  PROVE  AuditFilesGrow
<1>1. CASE UNCHANGED <<retained, artifacts, reservations>>
  BY <1>1 DEF AuditFilesGrow
<1>2. ASSUME NEW t \in GatTasks, Audits!Reserve(t)
      PROVE  AuditFilesGrow
  BY <1>2 DEF Audits!Reserve, AuditFilesGrow, AuditsTypeOK
<1>3. ASSUME NEW t \in GatTasks, Audits!Store(t)
      PROVE  AuditFilesGrow
  BY <1>3 DEF Audits!Store, AuditFilesGrow
<1>4. ASSUME NEW s \in Sources, Audits!Retain(s)
      PROVE  AuditFilesGrow
  BY <1>4 DEF Audits!Retain, AuditFilesGrow, AuditsTypeOK
<1>5. ASSUME NEW t \in GatTasks,
             \/ \E a \in AuditRequests : Audits!Begin(t, a)
             \/ Audits!Lookup(t) \/ Audits!CheckSource(t) \/ Audits!TakeLock(t) \/ Audits!Spawn(t)
                  \/ Audits!Stop(t)
             \/ Audits!Close(t) \/ Audits!Unlock(t) \/ Audits!SaveReceipt(t) \/ Audits!ReadBack(t)
                  \/ Audits!Exit(t) \/ Audits!Crash(t)
      PROVE  UNCHANGED <<retained, artifacts, reservations>>
  BY <1>5
     DEF Audits!Begin, Audits!Lookup, Audits!CheckSource, Audits!TakeLock, Audits!Spawn,
         Audits!Stop, Audits!Close, Audits!Unlock, Audits!SaveReceipt, Audits!ReadBack,
              Audits!Exit, Audits!Crash, Audits!gatFiles
<1>6. CASE Audits!RemoveLock
  BY <1>6, <1>1 DEF Audits!RemoveLock, Audits!gatFiles
<1>7. CASE UNCHANGED Audits!gatVars
  BY <1>7, <1>1 DEF Audits!gatVars, Audits!gatFiles
<1> QED BY <1>1, <1>2, <1>3, <1>4, <1>5, <1>6, <1>7 DEF Audits!Next, Audits!Step

LEMMA ReceiptStays ==
  ASSUME Audits!AuditAssumption, AuditsTypeOK, AuditFilesGrow, NEW i \in Audits!AuditIds,
         ReceiptInv(i), gatReceipts'[i] = gatReceipts[i]
  PROVE  ReceiptInv(i)'
<1>1. CASE gatReceipts[i] = Nil
  BY <1>1 DEF ReceiptInv
<1>2. CASE gatReceipts[i] # Nil
  <2>1. /\ reservations[i] # Nil /\ reservations'[i] = reservations[i]
        /\ reservations[i].audit \in AuditRequests
    BY <1>2 DEF ReceiptInv, AuditFilesGrow, AuditsTypeOK, Audits!AuditReservations
  <2>2. Closes(reservations[i].audit, gatReceipts[i])'
    <3>1. PICK a \in AuditRequests : a = reservations[i].audit
      BY <2>1
    <3>2. PICK r : r = gatReceipts[i]
      OBVIOUS
    <3>3. Closes(a, r)'
      BY <1>2, <3>1, <3>2, GatesStay DEF ReceiptInv, AuditFilesGrow
    <3>4. reservations'[i].audit = a /\ gatReceipts'[i] = r
      BY <2>1, <3>1, <3>2
    <3> QED BY <3>3, <3>4 DEF Closes, Gates, Audits!Checked
  <2> QED BY <1>2, <2>1, <2>2 DEF ReceiptInv
<1> QED BY <1>1, <1>2

\* A step of t that writes no receipt keeps ReceiptsInv if its own record is right.
LEMMA ReceiptsStay ==
  ASSUME Audits!AuditAssumption, AuditsTypeOK, AuditFilesGrow, ReceiptsInv, NEW t \in GatTasks,
         UNCHANGED gatReceipts,
         \A u \in GatTasks \ {t} : gatPc'[u] = gatPc[u] /\ audit'[u] = audit[u]
           /\ record'[u] = record[u],
         RecordAt(t)'
  PROVE  ReceiptsInv'
<1>1. \A u \in GatTasks : RecordAt(u)'
  <2>1. ASSUME NEW u \in GatTasks \ {t}
        PROVE  RecordAt(u)'
    BY <2>1, RecordsStay DEF ReceiptsInv, AuditFilesGrow
  <2> QED BY <2>1
<1>2. \A i \in Audits!AuditIds : ReceiptInv(i)'
  <2>1. \A i \in Audits!AuditIds : ReceiptInv(i)
    BY DEF ReceiptsInv, ReceiptInv
  <2> QED BY <2>1, ReceiptStays
<1> QED BY <1>1, <1>2 DEF ReceiptsInv, ReceiptInv

LEMMA AuditReceiptsClose ==
  ASSUME Audits!AuditAssumption, AuditsTypeOK, ClaimsInv, ReceiptsInv,
         [Audits!Next]_(Audits!gatVars)
  PROVE  ReceiptsInv'
<1>1. AuditFilesGrow
  BY AuditFiles
<1>2. CASE UNCHANGED <<gatReceipts, gatPc, audit, record>>
  <2>1. \A u \in GatTasks : RecordAt(u)'
    <3>1. ASSUME NEW u \in GatTasks
          PROVE  RecordAt(u)'
      BY <1>1, <1>2, RecordsStay DEF ReceiptsInv, AuditFilesGrow
    <3> QED BY <3>1
  <2>2. \A i \in Audits!AuditIds : ReceiptInv(i)'
    <3>1. \A i \in Audits!AuditIds : ReceiptInv(i)
      BY DEF ReceiptsInv, ReceiptInv
    <3> QED BY <1>1, <1>2, <3>1, ReceiptStays
  <2> QED BY <2>1, <2>2 DEF ReceiptsInv, ReceiptInv
<1>3. ASSUME NEW t \in GatTasks,
             \/ Audits!Refuse(t) \/ Audits!Answer(t)
             \/ \E a \in AuditRequests : Audits!Begin(t, a)
             \/ \E now \in GatTimes : Audits!Write(t, "reserve", [Audits!NoRecord EXCEPT !.at = now])
             \/ Audits!At(t, "reserve") /\ Audits!Proceed(t, "source"),
             UNCHANGED gatReceipts
      PROVE  ReceiptsInv'
  <2>1. \A u \in GatTasks \ {t} : gatPc'[u] = gatPc[u] /\ audit'[u] = audit[u]
          /\ record'[u] = record[u]
    BY <1>3
       DEF Audits!Refuse, Audits!Answer, Audits!Begin, Audits!Write, Audits!Proceed, Audits!Goto,
           Audits!gatLocals, AuditsTypeOK
  <2>2. /\ gatPc'[t] \in {"idle", "lookup", "reserve", "source"}
        /\ gatPc'[t] \in {"reserve", "source"} => record'[t].outcome = "none"
    <3>1. CASE \/ Audits!Refuse(t) \/ Audits!Answer(t)
               \/ \E a \in AuditRequests : Audits!Begin(t, a)
      <4>1. gatPc' = [gatPc EXCEPT ![t] = "idle"] \/ gatPc' = [gatPc EXCEPT ![t] = "lookup"]
        BY <3>1 DEF Audits!Refuse, Audits!Answer, Audits!Begin, Audits!Goto
      <4> QED BY <4>1 DEF AuditsTypeOK
    <3>2. CASE \E now \in GatTimes :
                 Audits!Write(t, "reserve", [Audits!NoRecord EXCEPT !.at = now])
      <4>1. /\ gatPc' = [gatPc EXCEPT ![t] = "reserve"]
            /\ \E now : record' = [record EXCEPT ![t] = [Audits!NoRecord EXCEPT !.at = now]]
        BY <3>2 DEF Audits!Write, Audits!Goto
      <4>2. \A now : [Audits!NoRecord EXCEPT !.at = now].outcome = "none"
        BY DEF Audits!NoRecord
      <4> QED BY <4>1, <4>2 DEF AuditsTypeOK
    <3>3. CASE Audits!At(t, "reserve") /\ Audits!Proceed(t, "source")
      <4>1. gatPc' = [gatPc EXCEPT ![t] = "source"] /\ record' = record /\ gatPc[t] = "reserve"
        BY <3>3 DEF Audits!Proceed, Audits!Goto, Audits!At, Audits!gatLocals
      <4>2. record[t].outcome = "none"
        BY <4>1 DEF ReceiptsInv, RecordAt
      <4> QED BY <4>1, <4>2 DEF AuditsTypeOK
    <3> QED BY <1>3, <3>1, <3>2, <3>3
  <2>3. RecordAt(t)'
    BY <2>2 DEF RecordAt, Audits!At
  <2> QED BY <1>1, <1>3, <2>1, <2>3, ReceiptsStay
<1>4. ASSUME NEW t \in GatTasks, Audits!CheckSource(t)
      PROVE  ReceiptsInv'
  <2>1. UNCHANGED <<gatReceipts, retained, artifacts>> /\ audit[t] \in AuditRequests
          /\ record[t] \in Audits!AuditReceipts
    BY <1>4 DEF Audits!CheckSource, AuditsTypeOK, Audits!At, Audits!gatFiles
  <2>2. /\ \A u \in GatTasks \ {t} : gatPc'[u] = gatPc[u] /\ audit'[u] = audit[u]
             /\ record'[u] = record[u]
        /\ audit' = audit
    BY <1>4 DEF Audits!CheckSource, Audits!Write, Audits!Goto, AuditsTypeOK
  <2>3. PICK c : c = Audits!Checked(audit[t], record[t].at)
    OBVIOUS
  <2>4. /\ c.outcome \in Audits!AuditOutcomes /\ c.verified \in BOOLEAN /\ c.decided \in BOOLEAN
        /\ c.outcome = "none" => c.verified /\ c.decided
        /\ c.outcome \notin Audits!Audited
    BY <2>3, CheckedIsTyped
  <2>5. PICK r : r = [record[t] EXCEPT !.verified = c.verified, !.decided = c.decided]
    OBVIOUS
  <2>6. /\ r.at = record[t].at /\ r.verified = c.verified /\ r.decided = c.decided
        /\ r \in Audits!AuditReceipts
    BY <2>1, <2>4, <2>5 DEF Audits!AuditReceipts
  <2>7. CASE c.outcome # "none" /\ Audits!Write(t, "close", [r EXCEPT !.outcome = c.outcome])
    <3>1. gatPc'[t] = "close" /\ record'[t] = [r EXCEPT !.outcome = c.outcome]
      BY <2>7 DEF Audits!Write, Audits!Goto, AuditsTypeOK
    <3>2. /\ record'[t].outcome = c.outcome /\ record'[t].verified = c.verified
          /\ record'[t].decided = c.decided /\ record'[t].at = record[t].at
      BY <2>4, <2>6, <3>1 DEF Audits!AuditReceipts
    <3>3. Audits!Checked(audit[t], record'[t].at) = c
      BY <2>3, <3>2
    <3>4. Gates(audit[t], record'[t])
      BY <2>4, <2>7, <3>2, <3>3 DEF Gates
    <3>5. Closes(audit[t], record[t])'
      BY <2>1, <2>2, <3>4 DEF Closes, Gates, Audits!Checked
    <3>6. RecordAt(t)'
      BY <3>1, <3>5 DEF RecordAt, Audits!At
    <3> QED BY <1>1, <2>1, <2>2, <3>6, ReceiptsStay
  <2>8. CASE c.outcome = "none" /\ Audits!Write(t, "lock", r)
    <3>1. gatPc'[t] = "lock" /\ record'[t] = r
      BY <2>8 DEF Audits!Write, Audits!Goto, AuditsTypeOK
    <3>2. record[t].outcome = "none"
      BY <1>4 DEF Audits!CheckSource, ReceiptsInv, RecordAt, Audits!At
    <3>3. r.outcome = "none"
      BY <2>1, <2>5, <3>2 DEF Audits!AuditReceipts
    <3>4. Audits!Checked(audit[t], r.at).outcome = "none"
      BY <2>3, <2>6, <2>8
    <3>5. Passed(t)'
      BY <2>1, <2>2, <2>4, <2>6, <2>8, <3>1, <3>4 DEF Passed, Audits!Checked
    <3>6. RecordAt(t)'
      BY <3>1, <3>3, <3>5 DEF RecordAt, Audits!At
    <3> QED BY <1>1, <2>1, <2>2, <3>6, ReceiptsStay
  <2>9. ASSUME NEW q \in Audits!AuditReceipts,
               Audits!Write(t, "close", [q EXCEPT !.outcome = "SOURCE_INTEGRITY_FAILED"])
        PROVE  ReceiptsInv'
    <3>1. gatPc'[t] = "close" /\ record'[t].outcome = "SOURCE_INTEGRITY_FAILED"
      BY <2>9 DEF Audits!Write, Audits!Goto, AuditsTypeOK, Audits!AuditReceipts
    <3>2. RecordAt(t)'
      BY <3>1 DEF RecordAt, Audits!At, Closes
    <3> QED BY <1>1, <2>1, <2>2, <3>2, ReceiptsStay
  <2>10. \/ c.outcome # "none" /\ Audits!Write(t, "close", [r EXCEPT !.outcome = c.outcome])
         \/ c.outcome = "none" /\ Audits!Write(t, "lock", r)
         \/ Audits!Write(t, "close", [r EXCEPT !.outcome = "SOURCE_INTEGRITY_FAILED"])
         \/ Audits!Write(t, "close", [record[t] EXCEPT !.outcome = "SOURCE_INTEGRITY_FAILED"])
    BY <1>4, <2>3, <2>5 DEF Audits!CheckSource
  <2> QED BY <2>1, <2>6, <2>7, <2>8, <2>9, <2>10

<1>5. ASSUME NEW t \in GatTasks,
             Audits!TakeLock(t) \/ Audits!Spawn(t) \/ Audits!Stop(t) \/ Audits!Close(t)
               \/ Audits!Unlock(t)
      PROVE  ReceiptsInv'
  <2>1. /\ UNCHANGED <<gatReceipts, retained, artifacts>> /\ audit[t] \in AuditRequests
             /\ record[t] \in Audits!AuditReceipts
        /\ gatPc[t] \in {"lock", "spawn", "wait", "unlock"}
    BY <1>5
       DEF Audits!TakeLock, Audits!Spawn, Audits!Stop, Audits!Close, Audits!Unlock, AuditsTypeOK,
           Audits!At, Audits!gatFiles
  <2>2. \/ \E place \in {"spawn", "wait", "unlock", "report", "close"} : Audits!Proceed(t, place)
        \/ \E place \in {"close", "unlock", "wait"}, o \in Audits!AuditOutcomes :
             Audits!Write(t, place, [record[t] EXCEPT !.outcome = o])
    BY <1>5
       DEF Audits!TakeLock, Audits!Spawn, Audits!Stop, Audits!Close, Audits!Unlock,
           Audits!AuditOutcomes, Audits!RuntimeFailures
  <2>3. /\ \A u \in GatTasks \ {t} : gatPc'[u] = gatPc[u] /\ audit'[u] = audit[u]
             /\ record'[u] = record[u]
        /\ audit' = audit
    BY <2>2 DEF Audits!Write, Audits!Proceed, Audits!Goto, Audits!gatLocals, AuditsTypeOK
  <2>4. record'[t] \in Audits!AuditReceipts
          /\ [record'[t] EXCEPT !.outcome = "none"] = [record[t] EXCEPT !.outcome = "none"]
    BY <2>1, <2>2
       DEF Audits!Write, Audits!Proceed, Audits!gatLocals, AuditsTypeOK, Audits!AuditReceipts
  <2>5. Passed(t) /\ RecordAt(t)
    BY <2>1 DEF ReceiptsInv, RecordAt
  <2>6. /\ record'[t].at = record[t].at /\ record'[t].verified = record[t].verified
        /\ record'[t].decided = record[t].decided
    BY <2>1, <2>2
       DEF Audits!Write, Audits!Proceed, Audits!gatLocals, AuditsTypeOK, Audits!AuditReceipts
  <2>7. Passed(t)'
    BY <2>1, <2>3, <2>5, <2>6 DEF Passed, Audits!Checked
  <2>8. /\ gatPc'[t] \in {"spawn", "wait", "unlock", "report", "close"}
        /\ gatPc'[t] = "spawn" => record'[t].outcome = "none"
        /\ gatPc'[t] = "wait" => record'[t].outcome \in {"none"} \cup Audits!RuntimeFailures
        /\ gatPc'[t] = "unlock" => record'[t].outcome \in Audits!Audited \cup Audits!RuntimeFailures
        /\ gatPc'[t] = "report" => record'[t].outcome \in Audits!Audited
        /\ gatPc'[t] = "close" => record'[t].outcome \in Audits!RuntimeFailures
    <3>1. CASE Audits!TakeLock(t)
      BY <2>1, <2>5, <3>1
         DEF Audits!TakeLock, Audits!Write, Audits!Proceed, Audits!Goto, Audits!At,
             Audits!gatLocals, RecordAt, AuditsTypeOK,
                        Audits!AuditReceipts, Audits!RuntimeFailures, Audits!Audited
    <3>2. CASE Audits!Spawn(t)
      BY <2>1, <2>5, <3>2
         DEF Audits!Spawn, Audits!Write, Audits!Proceed, Audits!Goto, Audits!At, Audits!gatLocals,
             RecordAt, AuditsTypeOK,
                        Audits!AuditReceipts, Audits!RuntimeFailures, Audits!Audited
    <3>3. CASE Audits!Stop(t)
      BY <2>1, <2>5, <3>3
         DEF Audits!Stop, Audits!Write, Audits!Proceed, Audits!Goto, Audits!At, Audits!gatLocals,
             RecordAt, AuditsTypeOK,
                        Audits!AuditReceipts, Audits!RuntimeFailures, Audits!Audited
    <3>4. CASE Audits!Close(t)
      BY <2>1, <2>5, <3>4
         DEF Audits!Close, Audits!Write, Audits!Proceed, Audits!Goto, Audits!At, Audits!gatLocals,
             RecordAt, AuditsTypeOK,
                        Audits!AuditReceipts, Audits!RuntimeFailures, Audits!Audited
    <3>5. CASE Audits!Unlock(t)
      BY <2>1, <2>5, <3>5
         DEF Audits!Unlock, Audits!Write, Audits!Proceed, Audits!Goto, Audits!At, Audits!gatLocals,
             RecordAt, AuditsTypeOK,
                        Audits!AuditReceipts, Audits!RuntimeFailures, Audits!Audited
    <3> QED BY <1>5, <3>1, <3>2, <3>3, <3>4, <3>5
  <2>9. gatPc'[t] = "close" => Closes(audit[t], record[t])'
    <3>1. Audits!Checked(audit[t], record[t].at)' = Audits!Checked(audit[t], record[t].at)
      BY <2>1, <2>3, <2>6 DEF Audits!Checked
    <3>2. Audits!Checked(audit[t], record[t].at).verified
            /\ Audits!Checked(audit[t], record[t].at).decided
      BY <2>5, CheckedIsTyped DEF Passed
    <3>3. /\ Audits!Checked(audit[t], record[t].at).verified \in BOOLEAN
          /\ Audits!Checked(audit[t], record[t].at).decided \in BOOLEAN
      BY CheckedIsTyped
    <3>4. record[t].verified \in BOOLEAN /\ record[t].decided \in BOOLEAN
      BY <2>1 DEF Audits!AuditReceipts
    <3>5. Audits!Audited \cap Audits!RuntimeFailures = {}
      BY DEF Audits!Audited, Audits!RuntimeFailures
    <3> QED BY <2>5, <2>6, <2>8, <3>1, <3>2, <3>3, <3>4, <3>5 DEF Closes, Gates, Passed
  <2>10. RecordAt(t)'
    BY <2>7, <2>8, <2>9 DEF RecordAt, Audits!At
  <2> QED BY <1>1, <2>1, <2>3, <2>10, ReceiptsStay
<1>6. ASSUME NEW t \in GatTasks, Audits!Store(t)
      PROVE  ReceiptsInv'
  <2>1. PICK piece \in {"report", "projection"} :
          /\ Audits!At(t, piece)
          /\ \/ /\ artifacts' = artifacts \cup {<<audit[t].id, piece, record[t].outcome>>}
                /\ Audits!Proceed(t, IF piece = "report" THEN "projection" ELSE "close")
             \/ Audits!Refuse(t)
    BY <1>6 DEF Audits!Store
  <2>2. UNCHANGED <<gatReceipts, retained>> /\ audit[t] \in AuditRequests
          /\ record[t] \in Audits!AuditReceipts
    BY <1>6, <2>1 DEF Audits!Store, AuditsTypeOK, Audits!At
  <2>3. CASE Audits!Refuse(t)
    BY <1>3, <2>2, <2>3
  <2>4. CASE /\ artifacts' = artifacts \cup {<<audit[t].id, piece, record[t].outcome>>}
             /\ Audits!Proceed(t, IF piece = "report" THEN "projection" ELSE "close")
    <3>1. /\ \A u \in GatTasks \ {t} : gatPc'[u] = gatPc[u] /\ audit'[u] = audit[u]
               /\ record'[u] = record[u]
          /\ audit' = audit /\ record' = record
          /\ gatPc'[t] = IF piece = "report" THEN "projection" ELSE "close"
      BY <2>4 DEF Audits!Proceed, Audits!Goto, Audits!gatLocals, AuditsTypeOK
    <3>2. /\ Passed(t) /\ record[t].outcome \in Audits!Audited
          /\ piece = "projection" => <<audit[t].id, "report", record[t].outcome>> \in artifacts
      BY <2>1 DEF ReceiptsInv, RecordAt, Audits!At
    <3>3. Passed(t)'
      BY <2>2, <3>1, <3>2 DEF Passed, Audits!Checked
    <3>4. piece = "projection" => Closes(audit[t], record[t])'
      <4>1. Audits!Checked(audit[t], record[t].at)' = Audits!Checked(audit[t], record[t].at)
        BY <2>2, <3>1 DEF Audits!Checked
      <4>2. Audits!Checked(audit[t], record[t].at).verified
              /\ Audits!Checked(audit[t], record[t].at).decided
        BY <3>2, CheckedIsTyped DEF Passed
      <4>3. /\ Audits!Checked(audit[t], record[t].at).verified \in BOOLEAN
            /\ Audits!Checked(audit[t], record[t].at).decided \in BOOLEAN
        BY CheckedIsTyped
      <4>4. record[t].verified \in BOOLEAN /\ record[t].decided \in BOOLEAN
        BY <2>2 DEF Audits!AuditReceipts
      <4>5. piece = "projection" =>
              \A p \in {"report", "projection"} :
                <<audit[t].id, p, record[t].outcome>> \in artifacts'
        BY <2>4, <3>2
      <4>6. record[t].verified = TRUE /\ record[t].decided = TRUE
        BY <3>2, <4>4 DEF Passed
      <4> QED BY <3>1, <3>2, <4>1, <4>2, <4>3, <4>5, <4>6 DEF Closes, Gates, Passed
    <3>5. RecordAt(t)'
      BY <2>4, <3>1, <3>2, <3>3, <3>4 DEF RecordAt, Audits!At
    <3> QED BY <1>1, <2>2, <3>1, <3>5, ReceiptsStay
  <2> QED BY <2>1, <2>3, <2>4
<1>7. ASSUME NEW t \in GatTasks, Audits!SaveReceipt(t)
      PROVE  ReceiptsInv'
  <2>0. PICK i : i = audit[t].id
    OBVIOUS
  <2>1. /\ UNCHANGED <<retained, reservations, artifacts>> /\ audit[t] \in AuditRequests
             /\ i \in Audits!AuditIds
        /\ record[t] \in Audits!AuditReceipts /\ gatPc[t] = "close"
    BY <1>7, <2>0, AuditIdsAre DEF Audits!SaveReceipt, AuditsTypeOK, Audits!At
  <2>2. AuditClaim(t) /\ Closes(audit[t], record[t])
    BY <2>1 DEF ClaimsInv, ReceiptsInv, RecordAt, AuditWorking, AuditPlaces, Audits!At
  <2>3. PICK now \in GatTimes :
          \/ gatReceipts' = gatReceipts /\ Audits!Refuse(t)
          \/ /\ now >= record[t].at
             /\ gatReceipts' = [gatReceipts EXCEPT ![i] = [record[t] EXCEPT !.until = now]]
             /\ Audits!Refuse(t) \/ Audits!Proceed(t, "read back")
    <3>1. record[t].at \in Nat /\ GatTimes \subseteq Nat
      BY <2>1 DEF Audits!AuditReceipts, Audits!AuditAssumption
    <3>2. PICK now \in GatTimes :
            LET closed == [gatReceipts EXCEPT ![i] = [record[t] EXCEPT !.until = now]] IN
            \/ now >= record[t].at /\ gatReceipts' = closed /\ Audits!Proceed(t, "read back")
            \/ /\ gatReceipts' \in (IF now < record[t].at THEN {gatReceipts} ELSE {gatReceipts,
                                                                                   closed})
               /\ Audits!Refuse(t)
      BY <1>7, <2>0 DEF Audits!SaveReceipt
    <3>3. now < record[t].at \/ now >= record[t].at
      BY <3>1
    <3> QED BY <3>2, <3>3
  <2>4. CASE gatReceipts' = gatReceipts /\ Audits!Refuse(t)
    BY <1>3, <2>4
  <2>5. CASE /\ now >= record[t].at
             /\ gatReceipts' = [gatReceipts EXCEPT ![i] = [record[t] EXCEPT !.until = now]]
             /\ Audits!Refuse(t) \/ Audits!Proceed(t, "read back")
    <3>1. PICK r : r = [record[t] EXCEPT !.until = now]
      OBVIOUS
    <3>2. /\ r.until = now /\ r.at = record[t].at /\ r.outcome = record[t].outcome
          /\ r.verified = record[t].verified /\ r.decided = record[t].decided
      BY <2>1, <3>1 DEF Audits!AuditReceipts
    <3>3. Closes(audit[t], r)
      BY <2>2, <3>2 DEF Closes, Gates
    <3>4. reservations[i].audit = audit[t] /\ reservations[i] # Nil
      <4>1. [audit |-> audit[t], at |-> record[t].at] # Nil
        BY <2>1
           DEF AuditsTypeOK, Audits!AuditAssumption, Audits!AuditReservations, Audits!AuditReceipts
      <4>2. reservations[i] = [audit |-> audit[t], at |-> record[t].at]
        BY <2>0, <2>2 DEF AuditClaim
      <4> QED BY <4>1, <4>2
    <3>5. gatReceipts'[i] = r /\ \A j \in Audits!AuditIds \ {i} : gatReceipts'[j] = gatReceipts[j]
      BY <2>1, <2>5, <3>1 DEF AuditsTypeOK
    <3>6. ReceiptInv(i)'
      <4>1. Closes(reservations[i].audit, gatReceipts[i])'
        <5>1. PICK a \in AuditRequests : a = audit[t]
          BY <2>1
        <5>2. Closes(a, r)'
          <6>1. Audits!Checked(a, r.at)' = Audits!Checked(a, r.at)
            BY <2>1 DEF Audits!Checked
          <6> QED BY <2>1, <3>3, <5>1, <6>1 DEF Closes, Gates
        <5>3. reservations'[i].audit = a /\ gatReceipts'[i] = r
          BY <2>1, <3>4, <3>5, <5>1
        <5> QED BY <5>2, <5>3 DEF Closes, Gates, Audits!Checked
      <4>2. r.until >= r.at
        BY <2>5, <3>2
      <4>3. reservations' = reservations /\ reservations[i].audit.id = i
        BY <2>0, <2>1, <3>4
      <4>4. reservations'[i] # Nil /\ reservations'[i].audit.id = i
            /\ gatReceipts'[i].until >= gatReceipts'[i].at
        BY <3>4, <3>5, <4>2, <4>3
      <4> QED BY <4>1, <4>4 DEF ReceiptInv
    <3>7. \A j \in Audits!AuditIds : ReceiptInv(j)'
      <4>1. \A j \in Audits!AuditIds : ReceiptInv(j)
        BY DEF ReceiptsInv, ReceiptInv
      <4>2. ASSUME NEW j \in Audits!AuditIds \ {i}
            PROVE  ReceiptInv(j)'
        BY <1>1, <3>5, <4>1, <4>2, ReceiptStays
      <4> QED BY <3>6, <4>2
    <3>8. /\ \A u \in GatTasks \ {t} : gatPc'[u] = gatPc[u] /\ audit'[u] = audit[u]
               /\ record'[u] = record[u]
          /\ gatPc'[t] \in {"idle", "read back"}
      BY <2>5 DEF Audits!Refuse, Audits!Proceed, Audits!Goto, Audits!gatLocals, AuditsTypeOK
    <3>9. \A u \in GatTasks : RecordAt(u)'
      <4>1. ASSUME NEW u \in GatTasks \ {t}
            PROVE  RecordAt(u)'
        BY <1>1, <3>8, <4>1, RecordsStay DEF ReceiptsInv, AuditFilesGrow
      <4>2. RecordAt(t)'
        BY <3>8 DEF RecordAt, Audits!At
      <4> QED BY <4>1, <4>2
    <3> QED BY <3>7, <3>9 DEF ReceiptsInv, ReceiptInv
  <2> QED BY <2>3, <2>4, <2>5
<1>8. ASSUME NEW t \in GatTasks, Audits!Lookup(t) \/ Audits!Reserve(t) \/ Audits!ReadBack(t)
               \/ Audits!Crash(t) \/ \E a \in AuditRequests : Audits!Begin(t, a)
      PROVE  ReceiptsInv'
  <2>1. UNCHANGED gatReceipts
    BY <1>8
       DEF Audits!Lookup, Audits!Reserve, Audits!ReadBack, Audits!Crash, Audits!Begin,
           Audits!gatFiles
  <2>2. \/ Audits!Refuse(t) \/ Audits!Answer(t) \/ \E a \in AuditRequests : Audits!Begin(t, a)
        \/ \E now \in GatTimes : Audits!Write(t, "reserve", [Audits!NoRecord EXCEPT !.at = now])
        \/ Audits!At(t, "reserve") /\ Audits!Proceed(t, "source")
    BY <1>8 DEF Audits!Lookup, Audits!Reserve, Audits!ReadBack, Audits!Crash
  <2> QED BY <1>3, <2>1, <2>2
<1>9. ASSUME \/ \E t \in GatTasks : Audits!Exit(t)
             \/ \E s \in Sources : Audits!Retain(s)
             \/ Audits!RemoveLock \/ UNCHANGED Audits!gatVars
      PROVE  UNCHANGED <<gatReceipts, gatPc, audit, record>>
  BY <1>9
     DEF Audits!Exit, Audits!Retain, Audits!RemoveLock, Audits!gatVars, Audits!gatFiles,
         Audits!gatLocals, Audits!gatHistory
<1> QED BY <1>2, <1>4, <1>5, <1>6, <1>7, <1>8, <1>9 DEF Audits!Next, Audits!Step

LEMMA AuditStart == ASSUME Audits!AuditAssumption, Audits!Init PROVE AuditInv
<1>1. Audits!NoRecord \in Audits!AuditReceipts
  BY DEF Audits!NoRecord, Audits!AuditReceipts, Audits!AuditOutcomes
<1>2. AuditsTypeOK
  BY <1>1 DEF Audits!Init, AuditsTypeOK, AuditPlaces, Audits!At
<1>3. EngineInv /\ ClaimsInv /\ ReceiptsInv
  BY DEF Audits!Init, EngineInv, Audits!EnginesRunning, ClaimsInv, ReceiptsInv, RecordAt,
         AuditWorking, Audits!At
<1> QED BY <1>2, <1>3 DEF AuditInv

LEMMA AuditInvInductive == ASSUME Audits!AuditAssumption PROVE Audits!Spec => []AuditInv
<1>1. Audits!Init => AuditInv
  BY AuditStart
<1>2. AuditInv /\ [Audits!Next]_(Audits!gatVars) => AuditInv'
  BY AuditTypes, Engines, Claims, AuditReceiptsClose DEF AuditInv
<1> QED BY <1>1, <1>2, PTL DEF Audits!Spec

\* For any number of calls, requests, sources and contents: whoever is killed,
\* and whenever, at most one IFC engine runs at a time, unless the lock of a
\* running call was removed.
THEOREM AuditsHaveOneEngine == ASSUME Audits!AuditAssumption PROVE Audits!Spec => []Audits!OneEngine
<1>1. AuditInv => Audits!OneEngine
  <2> SUFFICES ASSUME AuditInv, ~ gatIntruded
               PROVE  Cardinality(Audits!EnginesRunning) <= 1
    BY AuditsCount DEF Audits!OneEngine
  <2>1. \A t, u \in Audits!EnginesRunning : t = u
    BY DEF AuditInv, EngineInv
  <2>2. CASE Audits!EnginesRunning = {}
    BY <2>2, FS_EmptySet
  <2>3. CASE Audits!EnginesRunning # {}
    <3>1. PICK t : Audits!EnginesRunning = {t}
      BY <2>1, <2>3
    <3>2. Cardinality({t}) = 1
      BY FS_Singleton
    <3> QED BY <3>1, <3>2
  <2> QED BY <2>2, <2>3
<1> QED BY <1>1, AuditInvInductive, PTL

\* For any number of calls, requests, sources and contents: every receipt
\* recomputes at every later inspection, whatever has been retained since it
\* was written, and however the clock was set.
THEOREM AuditHistoryRecomputes ==
  ASSUME Audits!AuditAssumption
  PROVE  Audits!Spec => []Audits!HistoryRecomputes
<1>1. AuditInv => Audits!HistoryRecomputes
  <2> SUFFICES ASSUME AuditInv, NEW i \in Audits!AuditIds, gatReceipts[i] # Nil
               PROVE  \/ Audits!Recomputes(i)
                      \/ gatReceipts[i].outcome = "SOURCE_INTEGRITY_FAILED"
                      \/ /\ gatReceipts[i].outcome = "SOURCE_UNAVAILABLE"
                         /\ retained[reservations[i].audit.source] # Nil
    BY DEF Audits!HistoryRecomputes
  <2> QED BY DEF AuditInv, ReceiptsInv, Closes, Gates, Audits!Recomputes
<1> QED BY <1>1, AuditInvInductive, PTL

LEMMA AuditStepsRunOnce ==
  ASSUME Audits!AuditAssumption, AuditInv, [Audits!Next]_(Audits!gatVars)
  PROVE  [Audits!Contract!Next]_(Audits!Contract!vars)
<1> DEFINE bound(res) == [i \in Audits!AuditIds |-> IF res[i] = Nil THEN Nil ELSE res[i].audit]
<1>1. ASSUME UNCHANGED <<reservations, begun, gatReceipts, gatTold>>
      PROVE  UNCHANGED Audits!Contract!vars
  BY <1>1 DEF Audits!Contract!vars
<1>2. ASSUME NEW t \in GatTasks, NEW c \in AuditRequests, c = audit[t], Audits!Answer(t),
             UNCHANGED <<reservations, begun, gatReceipts>>,
             gatReceipts[c.id] # Nil, reservations[c.id] # Nil, reservations[c.id].audit = c
      PROVE  Audits!Contract!Tell(c)
  <2>1. c.id \in Audits!AuditIds
    BY AuditIdsAre
  <2> QED BY <1>2, <2>1 DEF Audits!Answer, Audits!Contract!Tell
<1>3. ASSUME NEW t \in GatTasks, Audits!Lookup(t)
      PROVE  [Audits!Contract!Next]_(Audits!Contract!vars)
  <2>1. UNCHANGED <<reservations, begun, gatReceipts>> /\ audit[t] \in AuditRequests
          /\ audit[t].id \in Audits!AuditIds
    BY <1>3, AuditIdsAre DEF Audits!Lookup, Audits!gatFiles, AuditInv, AuditsTypeOK, Audits!At
  <2>2. CASE UNCHANGED gatTold
    BY <1>1, <2>1, <2>2
  <2>3. CASE /\ gatReceipts[audit[t].id] # Nil /\ reservations[audit[t].id].audit = audit[t]
             /\ Audits!Answer(t)
    <3>1. reservations[audit[t].id] # Nil
      BY <2>1, <2>3 DEF AuditInv, ReceiptsInv
    <3>2. Audits!Contract!Tell(audit[t])
      BY <1>2, <2>1, <2>3, <3>1
    <3> QED BY <2>1, <3>2 DEF Audits!Contract!Next
  <2> QED BY <1>3, <2>2, <2>3 DEF Audits!Lookup, Audits!Write, Audits!Refuse
<1>4. ASSUME NEW t \in GatTasks, Audits!ReadBack(t)
      PROVE  [Audits!Contract!Next]_(Audits!Contract!vars)
  <2>1. UNCHANGED <<reservations, begun, gatReceipts>> /\ audit[t] \in AuditRequests
          /\ audit[t].id \in Audits!AuditIds
        /\ record[t] \in Audits!AuditReceipts
    BY <1>4, AuditIdsAre DEF Audits!ReadBack, Audits!gatFiles, AuditInv, AuditsTypeOK, Audits!At
  <2>2. CASE Audits!Refuse(t)
    BY <1>1, <2>1, <2>2 DEF Audits!Refuse
  <2>3. CASE Audits!Answer(t)
    <3>1. AuditClaim(t) /\ Audits!At(t, "read back")
      BY <1>4 DEF Audits!ReadBack, AuditInv, ClaimsInv, AuditWorking, AuditPlaces, Audits!At
    <3>2. gatReceipts[audit[t].id] # Nil /\ reservations[audit[t].id] # Nil
      BY <2>1, <3>1 DEF AuditClaim, AuditInv, ReceiptsInv
    <3>3. reservations[audit[t].id].audit = audit[t]
      <4>1. reservations[audit[t].id] = [audit |-> audit[t], at |-> record[t].at]
        BY <3>1 DEF AuditClaim
      <4> QED BY <4>1
    <3>4. Audits!Contract!Tell(audit[t])
      BY <1>2, <2>1, <2>3, <3>2, <3>3
    <3> QED BY <2>1, <3>4 DEF Audits!Contract!Next
  <2> QED BY <1>4, <2>2, <2>3 DEF Audits!ReadBack
<1>5. ASSUME NEW t \in GatTasks, Audits!Reserve(t)
      PROVE  [Audits!Contract!Next]_(Audits!Contract!vars)
  <2>1. UNCHANGED <<begun, gatReceipts, gatTold>> /\ audit[t] \in AuditRequests
          /\ audit[t].id \in Audits!AuditIds
        /\ record[t] \in Audits!AuditReceipts
    BY <1>5, AuditIdsAre
       DEF Audits!Reserve, Audits!Proceed, Audits!Refuse, AuditInv, AuditsTypeOK, Audits!At
  <2>2. CASE reservations' = reservations
    BY <1>1, <2>1, <2>2
  <2>3. CASE /\ reservations[audit[t].id] = Nil
             /\ reservations' = [reservations EXCEPT ![audit[t].id] = [audit |-> audit[t],
                                                                       at |-> record[t].at]]
    <3>1. PICK c \in AuditRequests : c = audit[t]
      BY <2>1
    <3>2. PICK mine : mine = [audit |-> c, at |-> record[t].at]
      OBVIOUS
    <3>3. mine # Nil /\ mine.audit = c
      BY <2>1, <3>2 DEF Audits!AuditAssumption, Audits!AuditReservations, Audits!AuditReceipts
    <3>4. c.id \in Audits!AuditIds
            /\ reservations \in [Audits!AuditIds -> Audits!AuditReservations \cup {Nil}]
      BY <2>1, <3>1 DEF AuditInv, AuditsTypeOK
    <3>5. bound(reservations') = [bound(reservations) EXCEPT ![c.id] = c]
      BY <2>3, <3>1, <3>2, <3>3, <3>4
    <3>6. bound(reservations)[c.id] = Nil
      BY <2>3, <3>1, <3>4
    <3>7. Audits!Contract!Bind(c)
      BY <2>1, <3>5, <3>6 DEF Audits!Contract!Bind
    <3> QED BY <3>7 DEF Audits!Contract!Next
  <2> QED BY <1>5, <2>2, <2>3 DEF Audits!Reserve
<1>6. ASSUME NEW t \in GatTasks, Audits!CheckSource(t)
      PROVE  [Audits!Contract!Next]_(Audits!Contract!vars)
  <2> DEFINE i == audit[t].id
  <2>1. UNCHANGED <<reservations, gatReceipts, gatTold>> /\ audit[t] \in AuditRequests
          /\ i \in Audits!AuditIds
        /\ record[t] \in Audits!AuditReceipts
    BY <1>6, AuditIdsAre
       DEF Audits!CheckSource, Audits!Write, AuditInv, AuditsTypeOK, Audits!At, Audits!gatFiles
  <2>2. AuditClaim(t) /\ Audits!At(t, "source")
    BY <1>6 DEF Audits!CheckSource, AuditInv, ClaimsInv, AuditWorking, AuditPlaces, Audits!At
  <2>3. [audit |-> audit[t], at |-> record[t].at] # Nil
    BY <2>1 DEF Audits!AuditAssumption, Audits!AuditReservations, Audits!AuditReceipts
  <2>4. reservations[i] = [audit |-> audit[t], at |-> record[t].at] /\ begun[i] = 0
    BY <2>2 DEF AuditClaim
  <2>5. bound(reservations)[i] # Nil
    <3>1. audit[t] # Nil
      BY <2>1 DEF Audits!AuditAssumption
    <3> QED BY <2>1, <2>3, <2>4, <3>1
  <2>6. begun' = [begun EXCEPT ![i] = 1]
    BY <1>6, <2>1, <2>4 DEF Audits!CheckSource, AuditInv, AuditsTypeOK
  <2>7. Audits!Contract!Start(i)
    BY <2>1, <2>4, <2>5, <2>6 DEF Audits!Contract!Start
  <2> QED BY <2>1, <2>7 DEF Audits!Contract!Next
<1>7. ASSUME NEW t \in GatTasks, Audits!SaveReceipt(t)
      PROVE  [Audits!Contract!Next]_(Audits!Contract!vars)
  <2> DEFINE i == audit[t].id
  <2>1. UNCHANGED <<reservations, begun, gatTold>> /\ audit[t] \in AuditRequests
          /\ i \in Audits!AuditIds
        /\ record[t] \in Audits!AuditReceipts
    BY <1>7, AuditIdsAre
       DEF Audits!SaveReceipt, Audits!Proceed, Audits!Refuse, AuditInv, AuditsTypeOK, Audits!At
  <2>2. AuditClaim(t) /\ Audits!At(t, "close")
    BY <1>7 DEF Audits!SaveReceipt, AuditInv, ClaimsInv, AuditWorking, AuditPlaces, Audits!At
  <2>3. begun[i] = 1 /\ gatReceipts[i] = Nil
    BY <2>2 DEF AuditClaim, Audits!At
  <2>4. PICK now \in GatTimes :
          \/ gatReceipts' = gatReceipts
          \/ gatReceipts' = [gatReceipts EXCEPT ![i] = [record[t] EXCEPT !.until = now]]
    BY <1>7 DEF Audits!SaveReceipt
  <2>5. CASE gatReceipts' = gatReceipts
    BY <1>1, <2>1, <2>5
  <2>6. CASE gatReceipts' = [gatReceipts EXCEPT ![i] = [record[t] EXCEPT !.until = now]]
    <3>1. [record[t] EXCEPT !.until = now] \in Audits!AuditReceipts
      BY <2>1 DEF Audits!AuditReceipts, Audits!AuditAssumption
    <3>2. gatReceipts'[i] # Nil /\ gatReceipts' = [gatReceipts EXCEPT ![i] = gatReceipts'[i]]
      BY <2>1, <2>6, <3>1 DEF Audits!AuditAssumption, AuditInv, AuditsTypeOK
    <3>3. Audits!Contract!Finish(i)
      BY <2>1, <2>3, <3>2 DEF Audits!Contract!Finish
    <3> QED BY <2>1, <3>3 DEF Audits!Contract!Next
  <2> QED BY <2>4, <2>5, <2>6
<1>8. ASSUME \/ \E t \in GatTasks :
                  \/ \E a \in AuditRequests : Audits!Begin(t, a)
                  \/ Audits!TakeLock(t) \/ Audits!Spawn(t) \/ Audits!Stop(t) \/ Audits!Close(t)
                       \/ Audits!Unlock(t) \/ Audits!Store(t)
                  \/ Audits!Exit(t) \/ Audits!Crash(t)
             \/ \E s \in Sources : Audits!Retain(s)
             \/ Audits!RemoveLock \/ UNCHANGED Audits!gatVars
      PROVE  UNCHANGED <<reservations, begun, gatReceipts, gatTold>>
  BY <1>8
     DEF Audits!Begin, Audits!TakeLock, Audits!Spawn, Audits!Stop, Audits!Close, Audits!Unlock,
         Audits!Store, Audits!Exit, Audits!Crash, Audits!Retain, Audits!RemoveLock,
              Audits!Refuse, Audits!Proceed, Audits!Write, Audits!gatVars, Audits!gatFiles,
              Audits!gatHistory
<1> QED BY <1>1, <1>3, <1>4, <1>5, <1>6, <1>7, <1>8 DEF Audits!Next, Audits!Step

\* The inspector implements the contract RunsOnce: an identity is reserved for
\* one request, is worked on once, has one receipt, and nobody is told another;
\* for any number of calls that may be killed at every step.
THEOREM AuditsRunOnce == ASSUME Audits!AuditAssumption PROVE Audits!Spec => Audits!RunsOnceSpec
<1>1. Audits!Init => Audits!Contract!Init
  BY DEF Audits!Init, Audits!Contract!Init
<1>2. AuditInv /\ [Audits!Next]_(Audits!gatVars) => [Audits!Contract!Next]_(Audits!Contract!vars)
  BY AuditStepsRunOnce
<1> QED
  BY <1>1, <1>2, AuditInvInductive, PTL DEF Audits!Spec, Audits!RunsOnceSpec, Audits!Contract!Spec

-----------------------------------------------------------------------------
(* ComputedRuns. Evidence that was retained stays, so what a run was       *)
(* computed from does: a run is made of its request and its time.          *)

\* Where a call of submit() is.
RunPlaces == {"idle", "inspect", "compute", "publish", "winner", "confirm"}

RunsTypeOK ==
  /\ runStore \in Runs!Stores
  /\ runEvidence \in [EvidenceIds -> Runs!Kept \cup {Nil}]
  /\ runs \in [Runs!RunIds -> Runs!RunRecords \cup {Nil}]
  /\ runPc \in [RunTasks -> RunPlaces]
  /\ asked \in [RunTasks -> RunRequests \cup {Nil}]
  /\ run \in [RunTasks -> Runs!RunRecords \cup {Nil}]
  /\ \A t \in RunTasks : ~ Runs!At(t, "idle") => asked[t] \in RunRequests
  /\ runTold \subseteq [request : RunRequests, run : Runs!RunRecords, now : RunTimes]

\* x is what request r was computed to, from evidence that is still there.
MadeOf(r, x) ==
  /\ x \in Runs!RunRecords /\ x.request = r
  /\ Runs!Computes(r, x.at, x.at)
  /\ x = Runs!RunOf(r, x.at, x.elapsed)

\* What a call was told is the published run of its request, which recomputed
\* when it was told.
Answered(said) ==
  /\ said.run.request = said.request
  /\ said.run = runs[said.request.id]
  /\ MadeOf(said.request, said.run)
  /\ Runs!Computes(said.request, said.run.at, said.now)

RunsInv ==
  /\ RunsTypeOK
  /\ \A t \in RunTasks : runPc[t] \in {"publish", "confirm"} => MadeOf(asked[t], run[t])
  /\ \A i \in Runs!RunIds : runs[i] # Nil =>
       runs[i].request.id = i /\ MadeOf(runs[i].request, runs[i])
  /\ \A said \in runTold : Answered(said)

LEMMA RunIdsAre == \A r \in RunRequests : r.id \in Runs!RunIds
BY DEF Runs!RunIds

\* A run computed is a run.
LEMMA RunOfIsARun ==
  ASSUME Runs!RunAssumption, runEvidence \in [EvidenceIds -> Runs!Kept \cup {Nil}],
         NEW r \in RunRequests, NEW at \in RunTimes, NEW elapsed \in RunTasks \cup {Nil},
         Runs!Computes(r, at, at)
  PROVE  MadeOf(r, Runs!RunOf(r, at, elapsed))
<1>1. \A ref \in r.evidence : runEvidence[ref.acquisition] \in Runs!Kept
  BY DEF Runs!Computes, Runs!Verified, Runs!RunAssumption
<1>2. Runs!RunOf(r, at, elapsed) \in Runs!RunRecords
  BY <1>1 DEF Runs!RunOf, Runs!RunRecords
<1>3. /\ Runs!RunOf(r, at, elapsed).request = r /\ Runs!RunOf(r, at, elapsed).at = at
      /\ Runs!RunOf(r, at, elapsed).elapsed = elapsed
  BY DEF Runs!RunOf
<1> QED BY <1>2, <1>3 DEF MadeOf

\* Evidence is kept, and which store this is does not change.
EvidenceStays ==
  /\ runStore' = runStore
  /\ \A a \in EvidenceIds : runEvidence[a] # Nil => runEvidence'[a] = runEvidence[a]

LEMMA EvidenceIsKept ==
  ASSUME RunsTypeOK, [Runs!Next]_(Runs!runVars)
  PROVE  EvidenceStays
<1>1. CASE \E a \in EvidenceIds : Runs!Capture(a)
  BY <1>1 DEF Runs!Capture, EvidenceStays, RunsTypeOK
<1>2. CASE ~ \E a \in EvidenceIds : Runs!Capture(a)
  <2>1. UNCHANGED <<runStore, runEvidence>>
    BY <1>2
       DEF Runs!Next, Runs!Ask, Runs!InspectFirst, Runs!Compute, Runs!Publish, Runs!Winner,
           Runs!Confirm, Runs!Fail, Runs!runVars
  <2> QED BY <2>1 DEF EvidenceStays
<1> QED BY <1>1, <1>2

\* What could be computed can be computed, and comes out the same.
LEMMA ComputationsStay ==
  ASSUME Runs!RunAssumption, EvidenceStays, NEW r \in RunRequests, NEW at, NEW now, NEW elapsed,
         Runs!Computes(r, at, now)
  PROVE  /\ Runs!Computes(r, at, now)'
         /\ Runs!RunOf(r, at, elapsed)' = Runs!RunOf(r, at, elapsed)
<1>1. \A ref \in r.evidence :
        runEvidence[ref.acquisition] # Nil
          /\ runEvidence'[ref.acquisition] = runEvidence[ref.acquisition]
  BY DEF Runs!Computes, Runs!Verified, Runs!RunAssumption, EvidenceStays
<1>2. \A ref \in r.evidence : Runs!Verified(ref, at)'
  BY <1>1 DEF Runs!Computes, Runs!Verified, Runs!Allowed
<1>3. runStore = "clearance" => at <= now /\ \A ref \in r.evidence : Runs!UsableNow(ref, now)'
  BY <1>1 DEF Runs!Computes, Runs!UsableNow, Runs!Allowed
<1>4. Runs!Computes(r, at, now)'
  BY <1>2, <1>3 DEF Runs!Computes, EvidenceStays
<1>5. Runs!RunOf(r, at, elapsed)' = Runs!RunOf(r, at, elapsed)
  BY <1>1 DEF Runs!RunOf
<1> QED BY <1>4, <1>5

LEMMA RunsStayMade ==
  ASSUME Runs!RunAssumption, EvidenceStays, NEW r, NEW x, MadeOf(r, x)
  PROVE  MadeOf(r, x)'
<1>1. r \in RunRequests
  BY DEF MadeOf, Runs!RunRecords
<1>2. Runs!Computes(r, x.at, x.at)'
        /\ Runs!RunOf(r, x.at, x.elapsed)' = Runs!RunOf(r, x.at, x.elapsed)
  BY <1>1, ComputationsStay DEF MadeOf
<1> QED BY <1>2 DEF MadeOf, Runs!RunOf

LEMMA RunTypes ==
  ASSUME Runs!RunAssumption, RunsInv, [Runs!Next]_(Runs!runVars)
  PROVE  RunsTypeOK'
<1> USE DEF RunsInv
<1>1. CASE UNCHANGED Runs!runVars
  BY <1>1 DEF RunsTypeOK, Runs!runVars, Runs!runLocals, Runs!At
<1>2. ASSUME NEW t \in RunTasks, NEW r \in RunRequests, Runs!Ask(t, r)
      PROVE  RunsTypeOK'
  BY <1>2 DEF Runs!Ask, Runs!Goto, RunsTypeOK, RunPlaces, Runs!At
<1>3. ASSUME NEW t \in RunTasks, Runs!Refuse(t), UNCHANGED <<runStore, runEvidence, runs>>
      PROVE  RunsTypeOK'
  BY <1>3 DEF Runs!Refuse, Runs!Goto, RunsTypeOK, RunPlaces, Runs!At
<1>4. ASSUME NEW t \in RunTasks, NEW now \in RunTimes, Runs!Answer(t, now), ~ Runs!At(t, "idle"),
             runs[asked[t].id] # Nil, UNCHANGED <<runStore, runEvidence, runs>>
      PROVE  RunsTypeOK'
  <2>1. /\ runPc' \in [RunTasks -> RunPlaces]
        /\ asked' \in [RunTasks -> RunRequests \cup {Nil}]
        /\ run' \in [RunTasks -> Runs!RunRecords \cup {Nil}]
        /\ \A u \in RunTasks : runPc'[u] # "idle" => asked'[u] \in RunRequests
    BY <1>4 DEF Runs!Answer, Runs!Goto, RunsTypeOK, RunPlaces, Runs!At
  <2>2. asked[t] \in RunRequests /\ runs[asked[t].id] \in Runs!RunRecords
    BY <1>4, RunIdsAre DEF RunsTypeOK
  <2>3. runTold' \subseteq [request : RunRequests, run : Runs!RunRecords, now : RunTimes]
    BY <1>4, <2>2 DEF Runs!Answer, RunsTypeOK
  <2> QED BY <1>4, <2>1, <2>3 DEF RunsTypeOK, Runs!At
<1>5. ASSUME NEW t \in RunTasks, Runs!InspectFirst(t)
      PROVE  RunsTypeOK'
  <2>1. CASE /\ Runs!Goto(t, "compute") /\ UNCHANGED <<asked, run, runTold>>
    BY <1>5, <2>1 DEF Runs!InspectFirst, Runs!Goto, RunsTypeOK, RunPlaces, Runs!At
  <2>2. CASE Runs!Refuse(t) \/ \E now \in RunTimes : Runs!Answer(t, now) /\ runs[asked[t].id] # Nil
    BY <1>3, <1>4, <1>5, <2>2 DEF Runs!InspectFirst, Runs!At
  <2> QED BY <1>5, <2>1, <2>2 DEF Runs!InspectFirst
<1>6. ASSUME NEW t \in RunTasks, Runs!Compute(t)
      PROVE  RunsTypeOK'
  <2>1. PICK at \in RunTimes, elapsed \in RunTasks \cup {Nil} :
          \/ /\ Runs!Computes(asked[t], at, at)
             /\ run' = [run EXCEPT ![t] = Runs!RunOf(asked[t], at, elapsed)]
             /\ Runs!Goto(t, "publish")
             /\ UNCHANGED <<asked, runTold>>
          \/ Runs!Refuse(t)
    BY <1>6 DEF Runs!Compute
  <2>2. asked[t] \in RunRequests
    BY <1>6 DEF Runs!Compute, RunsTypeOK, Runs!At
  <2>3. CASE Runs!Refuse(t)
    BY <1>3, <1>6, <2>3 DEF Runs!Compute
  <2>4. CASE /\ Runs!Computes(asked[t], at, at)
             /\ run' = [run EXCEPT ![t] = Runs!RunOf(asked[t], at, elapsed)]
             /\ Runs!Goto(t, "publish")
             /\ UNCHANGED <<asked, runTold>>
    <3>1. Runs!RunOf(asked[t], at, elapsed) \in Runs!RunRecords
      BY <2>2, <2>4, RunOfIsARun DEF RunsTypeOK, MadeOf
    <3> QED BY <1>6, <2>2, <2>4, <3>1 DEF Runs!Compute, Runs!Goto, RunsTypeOK, RunPlaces, Runs!At
  <2> QED BY <2>1, <2>3, <2>4
<1>7. ASSUME NEW t \in RunTasks, Runs!Publish(t)
      PROVE  RunsTypeOK'
  <2>1. asked[t] \in RunRequests /\ run[t] \in Runs!RunRecords
    BY <1>7 DEF Runs!Publish, RunsTypeOK, MadeOf, Runs!At
  <2>2. runs' = runs \/ runs' = [runs EXCEPT ![asked[t].id] = run[t]]
    BY <1>7 DEF Runs!Publish
  <2>3. runs' \in [Runs!RunIds -> Runs!RunRecords \cup {Nil}]
    BY <2>1, <2>2 DEF RunsTypeOK
  <2> QED BY <1>7, <2>1, <2>3 DEF Runs!Publish, Runs!Goto, RunsTypeOK, RunPlaces, Runs!At
<1>8. ASSUME NEW t \in RunTasks, Runs!Winner(t) \/ Runs!Confirm(t) \/ Runs!Fail(t)
      PROVE  RunsTypeOK'
  <2>1. /\ UNCHANGED <<runStore, runEvidence, runs>>
        /\ ~ Runs!At(t, "idle")
    BY <1>8 DEF Runs!Winner, Runs!Confirm, Runs!Fail, Runs!At
  <2>2. Runs!Refuse(t) \/ \E now \in RunTimes : Runs!Answer(t, now) /\ runs[asked[t].id] # Nil
    <3>1. CASE Runs!Winner(t)
      BY <3>1 DEF Runs!Winner
    <3>2. CASE Runs!Confirm(t)
      <4>1. run[t] # Nil
        BY <3>2 DEF Runs!Confirm, Runs!At, MadeOf, Runs!RunAssumption
      <4> QED BY <3>2, <4>1 DEF Runs!Confirm
    <3> QED BY <1>8, <3>1, <3>2 DEF Runs!Fail
  <2> QED BY <1>3, <1>4, <2>1, <2>2
<1>9. ASSUME NEW a \in EvidenceIds, Runs!Capture(a)
      PROVE  RunsTypeOK'
  <2>1. runEvidence' \in [EvidenceIds -> Runs!Kept \cup {Nil}]
    BY <1>9 DEF Runs!Capture, RunsTypeOK, Runs!Kept
  <2> QED BY <1>9, <2>1 DEF Runs!Capture, RunsTypeOK, Runs!runLocals, Runs!At
<1> QED BY <1>1, <1>2, <1>5, <1>6, <1>7, <1>8, <1>9 DEF Runs!Next

\* What a step does to the calls: a run is computed, published, or neither.
LEMMA CallsStay ==
  ASSUME Runs!RunAssumption, RunsInv, EvidenceStays, [Runs!Next]_(Runs!runVars)
  PROVE  \A t \in RunTasks : runPc'[t] \in {"publish", "confirm"} => MadeOf(asked[t], run[t])'
<1> USE DEF RunsInv
<1>1. ASSUME NEW u \in RunTasks, runPc[u] \in {"publish", "confirm"},
             asked'[u] = asked[u], run'[u] = run[u]
      PROVE  MadeOf(asked[u], run[u])'
  <2>1. MadeOf(asked[u], run[u])
    BY <1>1
  <2>2. PICK r, x : r = asked[u] /\ x = run[u]
    OBVIOUS
  <2>3. MadeOf(r, x)'
    BY <2>1, <2>2, RunsStayMade
  <2> QED BY <1>1, <2>2, <2>3 DEF MadeOf, Runs!RunOf
<1>2. ASSUME NEW t \in RunTasks,
             \A u \in RunTasks \ {t} : runPc'[u] = runPc[u] /\ asked'[u] = asked[u]
               /\ run'[u] = run[u],
             runPc'[t] \in {"publish", "confirm"} => MadeOf(asked[t], run[t])'
      PROVE  \A u \in RunTasks : runPc'[u] \in {"publish", "confirm"} => MadeOf(asked[u], run[u])'
  BY <1>1, <1>2
<1>3. CASE UNCHANGED Runs!runLocals
  BY <1>1, <1>3 DEF Runs!runLocals
<1>4. ASSUME NEW t \in RunTasks,
             \/ Runs!Refuse(t)
             \/ \E now \in RunTimes : Runs!Answer(t, now)
             \/ Runs!Goto(t, "inspect") /\ UNCHANGED run
                  /\ \E r \in RunRequests : asked' = [asked EXCEPT ![t] = r]
             \/ Runs!Goto(t, "compute") /\ UNCHANGED <<asked, run>>
             \/ Runs!Goto(t, "winner") /\ UNCHANGED <<asked, run>>
      PROVE  \A u \in RunTasks : runPc'[u] \in {"publish", "confirm"} => MadeOf(asked[u], run[u])'
  <2>1. /\ \A u \in RunTasks \ {t} : runPc'[u] = runPc[u] /\ asked'[u] = asked[u]
             /\ run'[u] = run[u]
        /\ runPc'[t] \notin {"publish", "confirm"}
    BY <1>4 DEF Runs!Refuse, Runs!Answer, Runs!Goto, RunsTypeOK
  <2> QED BY <1>2, <2>1
<1>5. ASSUME NEW t \in RunTasks, Runs!Compute(t)
      PROVE  \A u \in RunTasks : runPc'[u] \in {"publish", "confirm"} => MadeOf(asked[u], run[u])'
  <2>1. PICK at \in RunTimes, elapsed \in RunTasks \cup {Nil} :
          \/ /\ Runs!Computes(asked[t], at, at)
             /\ run' = [run EXCEPT ![t] = Runs!RunOf(asked[t], at, elapsed)]
             /\ Runs!Goto(t, "publish")
             /\ UNCHANGED <<asked, runTold>>
          \/ Runs!Refuse(t)
    BY <1>5 DEF Runs!Compute
  <2>2. CASE /\ Runs!Computes(asked[t], at, at)
             /\ run' = [run EXCEPT ![t] = Runs!RunOf(asked[t], at, elapsed)]
             /\ Runs!Goto(t, "publish")
             /\ UNCHANGED <<asked, runTold>>
    <3>1. asked[t] \in RunRequests
      BY <1>5 DEF Runs!Compute, RunsTypeOK, Runs!At
    <3>2. PICK r, x : r = asked[t] /\ x = Runs!RunOf(asked[t], at, elapsed)
      OBVIOUS
    <3>3. MadeOf(r, x)
      BY <2>2, <3>1, <3>2, RunOfIsARun DEF RunsTypeOK
    <3>4. MadeOf(r, x)'
      BY <3>3, RunsStayMade
    <3>5. asked'[t] = r /\ run'[t] = x
      BY <2>2, <3>2 DEF RunsTypeOK
    <3>6. MadeOf(asked[t], run[t])'
      BY <3>4, <3>5 DEF MadeOf, Runs!RunOf
    <3>7. \A u \in RunTasks \ {t} : runPc'[u] = runPc[u] /\ asked'[u] = asked[u] /\ run'[u] = run[u]
      BY <2>2 DEF Runs!Goto, RunsTypeOK
    <3> QED BY <1>2, <3>6, <3>7
  <2> QED BY <1>4, <2>1, <2>2
<1>6. ASSUME NEW t \in RunTasks, Runs!Publish(t)
      PROVE  \A u \in RunTasks : runPc'[u] \in {"publish", "confirm"} => MadeOf(asked[u], run[u])'
  <2>1. CASE Runs!Goto(t, "confirm")
    <3>1. /\ \A u \in RunTasks \ {t} : runPc'[u] = runPc[u] /\ asked'[u] = asked[u]
               /\ run'[u] = run[u]
          /\ runPc[t] = "publish" /\ asked'[t] = asked[t] /\ run'[t] = run[t]
      BY <1>6, <2>1 DEF Runs!Publish, Runs!Goto, RunsTypeOK, Runs!At
    <3> QED BY <1>1, <1>2, <3>1
  <2> QED BY <1>4, <1>6, <2>1 DEF Runs!Publish
<1>7. ASSUME NEW t \in RunTasks,
             Runs!InspectFirst(t) \/ Runs!Winner(t) \/ Runs!Confirm(t) \/ Runs!Fail(t)
               \/ \E r \in RunRequests : Runs!Ask(t, r)
      PROVE  \A u \in RunTasks : runPc'[u] \in {"publish", "confirm"} => MadeOf(asked[u], run[u])'
  BY <1>4, <1>7 DEF Runs!InspectFirst, Runs!Winner, Runs!Confirm, Runs!Fail, Runs!Ask
<1>8. CASE \E a \in EvidenceIds : Runs!Capture(a)
  BY <1>3, <1>8 DEF Runs!Capture
<1>9. CASE UNCHANGED Runs!runVars
  BY <1>3, <1>9 DEF Runs!runVars
<1> QED BY <1>5, <1>6, <1>7, <1>8, <1>9 DEF Runs!Next

\* A published run is not replaced.
LEMMA PublishedRuns ==
  ASSUME Runs!RunAssumption, RunsInv, EvidenceStays, [Runs!Next]_(Runs!runVars),
         NEW i \in Runs!RunIds
  PROVE  /\ runs[i] # Nil => runs'[i] = runs[i]
         /\ runs'[i] # Nil => (runs[i].request.id = i /\ MadeOf(runs[i].request, runs[i]))'
<1> USE DEF RunsInv
<1>1. CASE runs'[i] = runs[i]
  <2>1. PICK x : x = runs[i]
    OBVIOUS
  <2>2. x # Nil => x.request.id = i /\ MadeOf(x.request, x)'
    BY <2>1, RunsStayMade
  <2> QED BY <1>1, <2>1, <2>2 DEF MadeOf, Runs!RunOf
<1>2. ASSUME NEW t \in RunTasks, Runs!Publish(t), runs'[i] # runs[i]
      PROVE  /\ runs[i] = Nil
             /\ (runs[i].request.id = i /\ MadeOf(runs[i].request, runs[i]))'
  <2>1. PICK r, x : r = asked[t] /\ x = run[t]
    OBVIOUS
  <2>2. MadeOf(r, x)
    BY <1>2, <2>1 DEF Runs!Publish, Runs!At
  <2>3. runs[r.id] \in {Nil, x} /\ runs' = [runs EXCEPT ![r.id] = x]
    BY <1>2, <2>1 DEF Runs!Publish
  <2>4. i = r.id /\ runs[i] = Nil /\ runs'[i] = x
    BY <1>2, <2>3 DEF RunsTypeOK
  <2>5. MadeOf(r, x)' /\ x.request = r
    BY <2>2, RunsStayMade DEF MadeOf
  <2> QED BY <2>4, <2>5 DEF MadeOf, Runs!RunOf
<1>3. ASSUME ~ \E t \in RunTasks : Runs!Publish(t)
      PROVE  runs' = runs
  BY <1>3
     DEF Runs!Next, Runs!Ask, Runs!InspectFirst, Runs!Compute, Runs!Winner, Runs!Confirm,
         Runs!Fail, Runs!Capture, Runs!runVars
<1> QED BY <1>1, <1>2, <1>3

LEMMA AnswersStay ==
  ASSUME Runs!RunAssumption, RunsInv, EvidenceStays, [Runs!Next]_(Runs!runVars)
  PROVE  \A said \in runTold' : Answered(said)'
<1> USE DEF RunsInv
<1>1. ASSUME NEW said \in runTold
      PROVE  Answered(said)'
  <2>1. /\ said.run.request = said.request /\ said.run = runs[said.request.id]
        /\ MadeOf(said.request, said.run) /\ Runs!Computes(said.request, said.run.at, said.now)
    BY <1>1 DEF Answered
  <2>2. said.request \in RunRequests /\ said.run \in Runs!RunRecords
          /\ said.request.id \in Runs!RunIds
    BY <1>1, RunIdsAre DEF RunsTypeOK
  <2>3. runs'[said.request.id] = said.run
    BY <2>1, <2>2, PublishedRuns DEF Runs!RunAssumption
  <2>4. MadeOf(said.request, said.run)' /\ Runs!Computes(said.request, said.run.at, said.now)'
    BY <2>1, <2>2, RunsStayMade, ComputationsStay
  <2> QED BY <2>1, <2>3, <2>4 DEF Answered
<1>2. ASSUME NEW t \in RunTasks, NEW now \in RunTimes, Runs!Answer(t, now), UNCHANGED runs,
             ~ Runs!At(t, "idle"), runs[asked[t].id] # Nil, runs[asked[t].id].request = asked[t],
             Runs!Inspects(asked[t].id, now)
      PROVE  \A said \in runTold' : Answered(said)'
  <2>1. PICK r, x : r = asked[t] /\ x = runs[asked[t].id]
    OBVIOUS
  <2>2. r \in RunRequests /\ r.id \in Runs!RunIds
    BY <1>2, <2>1, RunIdsAre DEF RunsTypeOK
  <2>3. MadeOf(r, x) /\ x.request = r
    BY <1>2, <2>1, <2>2
  <2>4. Runs!Computes(r, x.at, now)
    BY <1>2, <2>1 DEF Runs!Inspects
  <2>5. MadeOf(r, x)' /\ Runs!Computes(r, x.at, now)'
    BY <2>2, <2>3, <2>4, RunsStayMade, ComputationsStay
  <2>6. runs'[r.id] = x
    BY <1>2, <2>1
  <2>7. PICK new : new = [request |-> r, run |-> x, now |-> now]
    OBVIOUS
  <2>8. Answered(new)'
    BY <2>3, <2>5, <2>6, <2>7 DEF Answered
  <2>9. runTold' = runTold \cup {new}
    BY <1>2, <2>1, <2>7 DEF Runs!Answer
  <2> QED BY <1>1, <2>8, <2>9
<1>3. CASE runTold' = runTold
  BY <1>1, <1>3
<1>4. ASSUME NEW t \in RunTasks, Runs!InspectFirst(t) \/ Runs!Winner(t) \/ Runs!Confirm(t)
      PROVE  \A said \in runTold' : Answered(said)'
  <2>1. UNCHANGED runs /\ ~ Runs!At(t, "idle")
    BY <1>4 DEF Runs!InspectFirst, Runs!Winner, Runs!Confirm, Runs!At
  <2>2. CASE Runs!InspectFirst(t)
    <3>1. \/ runTold' = runTold
          \/ \E now \in RunTimes : /\ Runs!Answer(t, now) /\ runs[asked[t].id] # Nil
                                   /\ runs[asked[t].id].request = asked[t]
                                        /\ Runs!Inspects(asked[t].id, now)
      BY <2>2 DEF Runs!InspectFirst, Runs!Refuse
    <3> QED BY <1>2, <1>3, <2>1, <3>1
  <2>3. CASE Runs!Winner(t)
    <3>1. \/ runTold' = runTold
          \/ \E now \in RunTimes : /\ Runs!Answer(t, now) /\ runs[asked[t].id] # Nil
                                   /\ runs[asked[t].id].request = asked[t]
                                        /\ Runs!Inspects(asked[t].id, now)
      BY <2>3 DEF Runs!Winner, Runs!Refuse
    <3> QED BY <1>2, <1>3, <2>1, <3>1
  <2>4. CASE Runs!Confirm(t)
    <3>1. \/ runTold' = runTold
          \/ \E now \in RunTimes : /\ Runs!Answer(t, now) /\ runs[asked[t].id] = run[t]
                                   /\ Runs!Inspects(asked[t].id, now)
      BY <2>4 DEF Runs!Confirm, Runs!Refuse
    <3>2. run[t] # Nil /\ run[t].request = asked[t]
      BY <2>4 DEF Runs!Confirm, Runs!At, MadeOf, Runs!RunAssumption
    <3> QED BY <1>2, <1>3, <2>1, <3>1, <3>2
  <2> QED BY <1>4, <2>2, <2>3, <2>4
<1>5. ASSUME ~ \E t \in RunTasks : Runs!InspectFirst(t) \/ Runs!Winner(t) \/ Runs!Confirm(t)
      PROVE  runTold' = runTold
  BY <1>5
     DEF Runs!Next, Runs!Ask, Runs!Compute, Runs!Publish, Runs!Fail, Runs!Refuse, Runs!Capture,
         Runs!runVars
<1> QED BY <1>3, <1>4, <1>5

LEMMA RunsInvInductive == ASSUME Runs!RunAssumption PROVE Runs!Spec => []RunsInv
<1>1. Runs!Init => RunsInv
  BY DEF Runs!Init, RunsInv, RunsTypeOK, RunPlaces, Runs!At
<1>2. RunsInv /\ [Runs!Next]_(Runs!runVars) => RunsInv'
  <2> SUFFICES ASSUME RunsInv, [Runs!Next]_(Runs!runVars) PROVE RunsInv'
    OBVIOUS
  <2>1. EvidenceStays
    BY EvidenceIsKept DEF RunsInv
  <2>2. RunsTypeOK'
    BY RunTypes
  <2>3. \A t \in RunTasks : runPc'[t] \in {"publish", "confirm"} => MadeOf(asked[t], run[t])'
    BY <2>1, CallsStay
  <2>4. \A i \in Runs!RunIds : runs'[i] # Nil
          => (runs[i].request.id = i /\ MadeOf(runs[i].request, runs[i]))'
    BY <2>1, PublishedRuns
  <2>5. \A said \in runTold' : Answered(said)'
    BY <2>1, AnswersStay
  <2> QED BY <2>2, <2>3, <2>4, <2>5 DEF RunsInv
<1> QED BY <1>1, <1>2, PTL DEF Runs!Spec

\* For any number of calls and any requests: callers of one of the four compute
\* stores that are told a run of the same request are told the same run, and
\* never a run of another request.
THEOREM CallersAreToldOneRun == ASSUME Runs!RunAssumption PROVE Runs!Spec => []Runs!OneRunPerRequest
<1>1. RunsInv => Runs!OneRunPerRequest
  BY DEF RunsInv, Runs!OneRunPerRequest, Answered
<1> QED BY <1>1, RunsInvInductive, PTL

\* For any number of calls, requests and policies: whatever was retained or has
\* expired since, each published run recomputes from evidence that was allowed,
\* and in its window, when it was made.
THEOREM SavedRunsRecompute == ASSUME Runs!RunAssumption PROVE Runs!Spec => []Runs!RunsRecompute
<1>1. ASSUME RunsInv, NEW r, NEW x, MadeOf(r, x), NEW e \in x.used
      PROVE  \E ref \in r.evidence : e = runEvidence[ref.acquisition] /\ Runs!Verified(ref, x.at)
  BY <1>1 DEF MadeOf, Runs!RunOf, Runs!Computes
<1>2. ASSUME RunsInv, NEW r, NEW x, MadeOf(r, x), NEW e \in x.used
      PROVE  e.storedAt <= x.at /\ x.at < e.policy.effective /\ "DERIVE" \in e.policy.operations
  BY <1>1, <1>2 DEF Runs!Verified, Runs!Allowed
<1>3. ASSUME RunsInv, NEW i \in Runs!RunIds, runs[i] # Nil
      PROVE  /\ Runs!Inspects(i, runs[i].at)
             /\ \A e \in runs[i].used :
                  /\ e.storedAt <= runs[i].at /\ runs[i].at < e.policy.effective
                  /\ "DERIVE" \in e.policy.operations
  <2>1. MadeOf(runs[i].request, runs[i])
    BY <1>3 DEF RunsInv
  <2>2. Runs!Inspects(i, runs[i].at)
    BY <2>1 DEF MadeOf, Runs!Inspects
  <2> QED BY <1>2, <1>3, <2>1, <2>2
<1>4. ASSUME RunsInv, runStore = "clearance", NEW said \in runTold, NEW e \in said.run.used
      PROVE  /\ said.run.at <= said.now
             /\ said.now < e.policy.retained /\ said.now < e.policy.effective
             /\ "RETRIEVE" \in e.policy.operations
  <2>1. MadeOf(said.request, said.run) /\ Runs!Computes(said.request, said.run.at, said.now)
    BY <1>4 DEF RunsInv, Answered
  <2>2. PICK ref \in said.request.evidence : e = runEvidence[ref.acquisition]
    BY <1>1, <1>4, <2>1
  <2> QED BY <1>4, <2>1, <2>2 DEF Runs!Computes, Runs!UsableNow, Runs!Allowed
<1>5. RunsInv => Runs!RunsRecompute
  BY <1>3, <1>4 DEF Runs!RunsRecompute
<1> QED BY <1>5, RunsInvInductive, PTL

-----------------------------------------------------------------------------
(* SpatialAnalyses. The reservation of an identity and who works on it; the *)
(* sources of a receipt.                                                   *)

\* Where a call of submit() is.
SpatialPlaces == {"idle", "inspect", "prepare", "reserve", "analyse", "save", "read back"}

AnalysesTypeOK ==
  /\ layers \in [Layers -> Analyses!KeptLayers \cup {Nil}]
  /\ reserved \in [Analyses!AnalysisIds -> Analyses!SpatialReservations \cup {Nil}]
  /\ spatialReceipts \in [Analyses!AnalysisIds -> Analyses!SpatialReceipts \cup {Nil}]
  /\ spatialPc \in [SpatialTasks -> SpatialPlaces]
  /\ submitted \in [SpatialTasks -> AnalysisRequests \cup {Nil}]
  /\ \A t \in SpatialTasks : ~ Analyses!At(t, "idle") => submitted[t] \in AnalysisRequests
  /\ startedAt \in [SpatialTasks -> SpatialTimes \cup {0}]
  /\ \A t \in SpatialTasks :
       spatialPc[t] \in {"reserve", "analyse", "save", "read back"} => startedAt[t] \in SpatialTimes
  /\ analysed \in [Analyses!AnalysisIds -> Nat]

\* The call that created the reservation works on it.
Analysing(t) == spatialPc[t] \in {"analyse", "save", "read back"}

\* What it has reserved, begun and written.
AnalysisClaim(t) ==
  LET i == submitted[t].id IN
  /\ reserved[i] = [request |-> submitted[t], startedAt |-> startedAt[t]]
  /\ analysed[i] = (IF spatialPc[t] = "analyse" THEN 0 ELSE 1)
  /\ spatialPc[t] = "read back" <=> spatialReceipts[i] # Nil

\* It works alone, on the reservation it created.
ReservationsInv ==
  /\ \A t \in SpatialTasks : Analysing(t) => AnalysisClaim(t)
  /\ \A t, u \in SpatialTasks :
       Analysing(t) /\ Analysing(u) /\ submitted[t].id = submitted[u].id => t = u
  /\ \A i \in Analyses!AnalysisIds :
       /\ reserved[i] = Nil => analysed[i] = 0 /\ spatialReceipts[i] = Nil
       /\ reserved[i] # Nil => reserved[i].request.id = i

\* Receipt r is of reservation v, but perhaps for its end.
ReceiptOf(r, v) ==
  /\ r.request = v.request /\ r.startedAt = v.startedAt
  /\ Analyses!Inputs(r.request, r.startedAt)
  /\ r.decisions = Analyses!Decisions(r.request)

\* The layers a call has checked remain what they were, and so does what a
\* receipt says of them.
SourcesInv ==
  /\ \A t \in SpatialTasks :
       spatialPc[t] \in {"reserve", "analyse", "save"}
         => Analyses!Inputs(submitted[t], startedAt[t])
  /\ \A i \in Analyses!AnalysisIds : spatialReceipts[i] # Nil
       => ReceiptOf(spatialReceipts[i], reserved[i])

AnalysesInv == AnalysesTypeOK /\ ReservationsInv /\ SourcesInv

LEMMA AnalysisIdsAre == \A a \in AnalysisRequests : a.id \in Analyses!AnalysisIds
BY DEF Analyses!AnalysisIds

LEMMA DecisionsAre ==
  ASSUME Analyses!AnalysisAssumption, layers \in [Layers -> Analyses!KeptLayers \cup {Nil}],
         NEW a \in AnalysisRequests, NEW at, Analyses!Inputs(a, at)
  PROVE  Analyses!Decisions(a) \subseteq LayerPolicies
<1>1. \A ref \in a.sources : layers[ref.acquisition] \in Analyses!KeptLayers
  BY DEF Analyses!Inputs, Analyses!SourceOf, Analyses!AnalysisAssumption
<1>2. \A k \in Analyses!KeptLayers : k.policy \in LayerPolicies
  BY DEF Analyses!KeptLayers
<1> QED BY <1>1, <1>2 DEF Analyses!Decisions

LEMMA AnalysisCalls ==
  ASSUME AnalysesTypeOK, NEW t \in SpatialTasks, spatialPc[t] # "idle",
         \/ Analyses!End(t)
         \/ \E place \in {"prepare", "analyse", "save", "read back"} :
              /\ Analyses!Goto(t, place) /\ UNCHANGED <<submitted, startedAt>>
              /\ place \in {"prepare"} \/ startedAt[t] \in SpatialTimes
         \/ /\ \E now \in SpatialTimes : startedAt' = [startedAt EXCEPT ![t] = now]
            /\ Analyses!Goto(t, "reserve") /\ UNCHANGED submitted
  PROVE  /\ spatialPc' \in [SpatialTasks -> SpatialPlaces]
         /\ submitted' \in [SpatialTasks -> AnalysisRequests \cup {Nil}]
         /\ \A u \in SpatialTasks : spatialPc'[u] # "idle" => submitted'[u] \in AnalysisRequests
         /\ startedAt' \in [SpatialTasks -> SpatialTimes \cup {0}]
         /\ \A u \in SpatialTasks :
              spatialPc'[u] \in {"reserve", "analyse", "save", "read back"}
                => startedAt'[u] \in SpatialTimes
         /\ \A u \in SpatialTasks \ {t} :
              spatialPc'[u] = spatialPc[u] /\ submitted'[u] = submitted[u]
                /\ startedAt'[u] = startedAt[u]
<1>1. submitted[t] \in AnalysisRequests
  BY DEF AnalysesTypeOK, Analyses!At
<1>2. CASE Analyses!End(t)
  BY <1>1, <1>2 DEF Analyses!End, Analyses!Goto, Analyses!At, AnalysesTypeOK, SpatialPlaces
<1>3. CASE \E place \in {"prepare", "analyse", "save", "read back"} :
             /\ Analyses!Goto(t, place) /\ UNCHANGED <<submitted, startedAt>>
             /\ place \in {"prepare"} \/ startedAt[t] \in SpatialTimes
  <2>1. PICK place \in {"prepare", "analyse", "save", "read back"} :
          /\ spatialPc' = [spatialPc EXCEPT ![t] = place] /\ UNCHANGED <<submitted, startedAt>>
          /\ place = "prepare" \/ startedAt[t] \in SpatialTimes
    BY <1>3 DEF Analyses!Goto
  <2> QED BY <1>1, <2>1 DEF Analyses!At, AnalysesTypeOK, SpatialPlaces
<1>4. CASE /\ \E now \in SpatialTimes : startedAt' = [startedAt EXCEPT ![t] = now]
           /\ Analyses!Goto(t, "reserve") /\ UNCHANGED submitted
  BY <1>1, <1>4 DEF Analyses!Goto, Analyses!At, AnalysesTypeOK, SpatialPlaces
<1> QED BY <1>2, <1>3, <1>4

LEMMA AnalysisTypes ==
  ASSUME Analyses!AnalysisAssumption, AnalysesInv, [Analyses!Next]_(Analyses!spatialVars)
  PROVE  AnalysesTypeOK'
<1> USE DEF AnalysesInv
<1>1. ASSUME NEW t \in SpatialTasks, UNCHANGED <<layers>>, spatialPc[t] # "idle",
             \/ Analyses!End(t)
             \/ \E place \in {"prepare", "analyse", "save", "read back"} :
                  /\ Analyses!Goto(t, place) /\ UNCHANGED <<submitted, startedAt>>
                  /\ place \in {"prepare"} \/ startedAt[t] \in SpatialTimes
             \/ /\ \E now \in SpatialTimes : startedAt' = [startedAt EXCEPT ![t] = now]
                /\ Analyses!Goto(t, "reserve") /\ UNCHANGED submitted,
             reserved' \in [Analyses!AnalysisIds -> Analyses!SpatialReservations \cup {Nil}],
             spatialReceipts' \in [Analyses!AnalysisIds -> Analyses!SpatialReceipts \cup {Nil}],
             analysed' \in [Analyses!AnalysisIds -> Nat]
      PROVE  AnalysesTypeOK'
  BY <1>1, AnalysisCalls DEF AnalysesTypeOK, Analyses!At
<1>2. ASSUME NEW t \in SpatialTasks, NEW a \in AnalysisRequests, Analyses!Submit(t, a)
      PROVE  AnalysesTypeOK'
  BY <1>2
     DEF Analyses!Submit, Analyses!Goto, Analyses!At, AnalysesTypeOK, SpatialPlaces,
         Analyses!spatialFiles
<1>3. ASSUME NEW t \in SpatialTasks,
             Analyses!InspectFirst(t) \/ Analyses!Prepare(t) \/ Analyses!ReadBack(t)
               \/ Analyses!Fail(t)
      PROVE  AnalysesTypeOK'
  <2>1. UNCHANGED <<layers, reserved, spatialReceipts, analysed>> /\ spatialPc[t] # "idle"
    BY <1>3
       DEF Analyses!InspectFirst, Analyses!Prepare, Analyses!ReadBack, Analyses!Fail, Analyses!At,
           Analyses!spatialFiles
  <2>2. \/ Analyses!End(t)
        \/ Analyses!Goto(t, "prepare") /\ UNCHANGED <<submitted, startedAt>>
        \/ /\ \E now \in SpatialTimes : startedAt' = [startedAt EXCEPT ![t] = now]
           /\ Analyses!Goto(t, "reserve") /\ UNCHANGED submitted
    BY <1>3
       DEF Analyses!InspectFirst, Analyses!Prepare, Analyses!ReadBack, Analyses!Fail,
           Analyses!Refuse, Analyses!Answer, Analyses!Proceed
  <2>3. \/ Analyses!End(t)
        \/ \E place \in {"prepare", "analyse", "save", "read back"} :
             /\ Analyses!Goto(t, place) /\ UNCHANGED <<submitted, startedAt>>
             /\ place \in {"prepare"} \/ startedAt[t] \in SpatialTimes
        \/ /\ \E now \in SpatialTimes : startedAt' = [startedAt EXCEPT ![t] = now]
           /\ Analyses!Goto(t, "reserve") /\ UNCHANGED submitted
    BY <2>2
  <2> QED BY <1>1, <2>1, <2>3 DEF AnalysesTypeOK
<1>4. ASSUME NEW t \in SpatialTasks,
             Analyses!Reserve(t) \/ Analyses!Analyse(t) \/ Analyses!SaveReceipt(t)
      PROVE  AnalysesTypeOK'
  <2>1. /\ UNCHANGED layers /\ spatialPc[t] # "idle"
        /\ submitted[t] \in AnalysisRequests /\ startedAt[t] \in SpatialTimes
        /\ submitted[t].id \in Analyses!AnalysisIds
    BY <1>4, AnalysisIdsAre
       DEF Analyses!Reserve, Analyses!Analyse, Analyses!SaveReceipt, Analyses!spatialFiles,
           Analyses!At, AnalysesTypeOK
  <2>2. \/ Analyses!End(t)
        \/ \E place \in {"analyse", "save", "read back"} :
             Analyses!Goto(t, place) /\ UNCHANGED <<submitted, startedAt>>
    BY <1>4
       DEF Analyses!Reserve, Analyses!Analyse, Analyses!SaveReceipt, Analyses!Proceed,
           Analyses!Refuse
  <2>3. \/ Analyses!End(t)
        \/ \E place \in {"prepare", "analyse", "save", "read back"} :
             /\ Analyses!Goto(t, place) /\ UNCHANGED <<submitted, startedAt>>
             /\ place \in {"prepare"} \/ startedAt[t] \in SpatialTimes
        \/ /\ \E now \in SpatialTimes : startedAt' = [startedAt EXCEPT ![t] = now]
           /\ Analyses!Goto(t, "reserve") /\ UNCHANGED submitted
    BY <2>1, <2>2
  <2>4. reserved' \in [Analyses!AnalysisIds -> Analyses!SpatialReservations \cup {Nil}]
    <3>1. \/ reserved' = reserved
          \/ reserved' = [reserved EXCEPT ![submitted[t].id] =
                            [request |-> submitted[t], startedAt |-> startedAt[t]]]
      BY <1>4 DEF Analyses!Reserve, Analyses!Analyse, Analyses!SaveReceipt, Analyses!spatialFiles
    <3>2. [request |-> submitted[t], startedAt |-> startedAt[t]] \in Analyses!SpatialReservations
      BY <2>1 DEF Analyses!SpatialReservations
    <3> QED BY <3>1, <3>2 DEF AnalysesTypeOK
  <2>5. spatialReceipts' \in [Analyses!AnalysisIds -> Analyses!SpatialReceipts \cup {Nil}]
    <3>1. CASE UNCHANGED spatialReceipts
      BY <3>1 DEF AnalysesTypeOK
    <3>2. CASE Analyses!SaveReceipt(t)
      <4>1. Analyses!Inputs(submitted[t], startedAt[t])
        BY <3>2 DEF Analyses!SaveReceipt, Analyses!At, SourcesInv
      <4>2. Analyses!Decisions(submitted[t]) \subseteq LayerPolicies
        BY <2>1, <4>1, DecisionsAre DEF AnalysesTypeOK
      <4>3. PICK now \in SpatialTimes :
              \/ spatialReceipts' = spatialReceipts
              \/ spatialReceipts' = [spatialReceipts EXCEPT ![submitted[t].id] =
                   [request |-> submitted[t], startedAt |-> startedAt[t], completedAt |-> now,
                    decisions |-> Analyses!Decisions(submitted[t])]]
        BY <3>2 DEF Analyses!SaveReceipt
      <4>4. [request |-> submitted[t], startedAt |-> startedAt[t], completedAt |-> now,
             decisions |-> Analyses!Decisions(submitted[t])] \in Analyses!SpatialReceipts
        BY <2>1, <4>2 DEF Analyses!SpatialReceipts
      <4> QED BY <4>3, <4>4 DEF AnalysesTypeOK
    <3> QED BY <1>4, <3>1, <3>2 DEF Analyses!Reserve, Analyses!Analyse, Analyses!spatialFiles
  <2>6. analysed' \in [Analyses!AnalysisIds -> Nat]
    <3>1. PICK i \in Analyses!AnalysisIds : i = submitted[t].id
      BY <2>1
    <3>2. analysed' = analysed \/ analysed' = [analysed EXCEPT ![i] = analysed[i] + 1]
      BY <1>4, <3>1 DEF Analyses!Reserve, Analyses!Analyse, Analyses!SaveReceipt
    <3>3. analysed \in [Analyses!AnalysisIds -> Nat]
      BY DEF AnalysesTypeOK
    <3>4. analysed[i] + 1 \in Nat
      BY <3>3
    <3> QED BY <3>2, <3>3, <3>4
  <2> QED BY <1>1, <2>1, <2>3, <2>4, <2>5, <2>6
<1>5. ASSUME NEW l \in Layers, Analyses!RetainLayer(l)
      PROVE  AnalysesTypeOK'
  <2>1. layers' \in [Layers -> Analyses!KeptLayers \cup {Nil}]
    <3>1. PICK k \in Analyses!KeptLayers : layers' = [layers EXCEPT ![l] = k]
      BY <1>5 DEF Analyses!RetainLayer, Analyses!KeptLayers
    <3> QED BY <3>1 DEF AnalysesTypeOK
  <2> QED
    BY <1>5, <2>1 DEF Analyses!RetainLayer, AnalysesTypeOK, Analyses!spatialLocals, Analyses!At
<1>6. CASE UNCHANGED Analyses!spatialVars
  BY <1>6
     DEF AnalysesTypeOK, Analyses!spatialVars, Analyses!spatialFiles, Analyses!spatialLocals,
         Analyses!At
<1> QED BY <1>2, <1>3, <1>4, <1>5, <1>6 DEF Analyses!Next

\* A call keeps its claim while another one works.
LEMMA AnalysisClaimStays ==
  ASSUME NEW u \in SpatialTasks, AnalysisClaim(u),
         spatialPc'[u] = spatialPc[u], submitted'[u] = submitted[u], startedAt'[u] = startedAt[u],
         reserved'[submitted[u].id] = reserved[submitted[u].id],
         analysed'[submitted[u].id] = analysed[submitted[u].id],
         spatialReceipts'[submitted[u].id] # Nil <=> spatialReceipts[submitted[u].id] # Nil
  PROVE  AnalysisClaim(u)'
BY DEF AnalysisClaim

LEMMA Reservations ==
  ASSUME Analyses!AnalysisAssumption, AnalysesInv, [Analyses!Next]_(Analyses!spatialVars)
  PROVE  ReservationsInv'
<1> USE DEF AnalysesInv
<1>1. CASE UNCHANGED <<reserved, analysed, spatialReceipts, spatialPc, submitted, startedAt>>
  <2>1. \A u \in SpatialTasks : Analysing(u)' = Analysing(u)
    BY <1>1 DEF Analysing
  <2>2. \A u \in SpatialTasks : AnalysisClaim(u)' = AnalysisClaim(u)
    BY <1>1 DEF AnalysisClaim
  <2> QED BY <1>1, <2>1, <2>2 DEF ReservationsInv
\* A call stops, or does not work yet.
<1>2. ASSUME NEW t \in SpatialTasks, spatialPc'[t] \notin {"analyse", "save", "read back"},
             \A u \in SpatialTasks \ {t} :
               spatialPc'[u] = spatialPc[u] /\ submitted'[u] = submitted[u]
                 /\ startedAt'[u] = startedAt[u],
             \A u \in SpatialTasks \ {t} : Analysing(u) =>
               /\ reserved'[submitted[u].id] = reserved[submitted[u].id]
               /\ analysed'[submitted[u].id] = analysed[submitted[u].id]
               /\ spatialReceipts'[submitted[u].id] # Nil
                    <=> spatialReceipts[submitted[u].id] # Nil,
             \A i \in Analyses!AnalysisIds :
               /\ reserved'[i] = Nil => analysed'[i] = 0 /\ spatialReceipts'[i] = Nil
               /\ reserved'[i] # Nil => reserved'[i].request.id = i
      PROVE  ReservationsInv'
  <2>1. ASSUME NEW u \in SpatialTasks, Analysing(u)'
        PROVE  u # t /\ Analysing(u) /\ AnalysisClaim(u)' /\ submitted'[u] = submitted[u]
    <3>1. u # t /\ Analysing(u)
      BY <1>2, <2>1 DEF Analysing
    <3>2. AnalysisClaim(u)'
      BY <1>2, <3>1, AnalysisClaimStays DEF ReservationsInv
    <3> QED BY <1>2, <3>1, <3>2
  <2> QED BY <1>2, <2>1 DEF ReservationsInv
<1>3. ASSUME NEW t \in SpatialTasks, UNCHANGED <<reserved, analysed, spatialReceipts>>,
             spatialPc'[t] \notin {"analyse", "save", "read back"},
             \A u \in SpatialTasks \ {t} :
               spatialPc'[u] = spatialPc[u] /\ submitted'[u] = submitted[u]
                 /\ startedAt'[u] = startedAt[u]
      PROVE  ReservationsInv'
  BY <1>2, <1>3 DEF ReservationsInv
<1>4. ASSUME NEW t \in SpatialTasks,
             Analyses!InspectFirst(t) \/ Analyses!Prepare(t) \/ Analyses!ReadBack(t)
               \/ Analyses!Fail(t) \/ \E a \in AnalysisRequests : Analyses!Submit(t, a)
      PROVE  ReservationsInv'
  <2>1. UNCHANGED <<reserved, analysed, spatialReceipts>>
    BY <1>4
       DEF Analyses!InspectFirst, Analyses!Prepare, Analyses!ReadBack, Analyses!Fail,
           Analyses!Submit, Analyses!spatialFiles
  <2>2. /\ spatialPc'[t] \in {"idle", "inspect", "prepare", "reserve"}
        /\ \A u \in SpatialTasks \ {t} :
             spatialPc'[u] = spatialPc[u] /\ submitted'[u] = submitted[u]
               /\ startedAt'[u] = startedAt[u]
    BY <1>4
       DEF Analyses!InspectFirst, Analyses!Prepare, Analyses!ReadBack, Analyses!Fail,
           Analyses!Submit, Analyses!Refuse, Analyses!Answer, Analyses!Proceed, Analyses!End,
       Analyses!Goto,
                AnalysesTypeOK
  <2> QED BY <1>3, <2>1, <2>2
<1>5. ASSUME NEW t \in SpatialTasks, Analyses!Reserve(t)
      PROVE  ReservationsInv'
  <2>1. PICK a, i : a = submitted[t] /\ i = a.id
    OBVIOUS
  <2>2. PICK v : v = [request |-> a, startedAt |-> startedAt[t]]
    OBVIOUS
  <2>3. /\ a \in AnalysisRequests /\ i \in Analyses!AnalysisIds
             /\ v \in Analyses!SpatialReservations /\ v # Nil
        /\ v.request.id = i
    <3>1. a \in AnalysisRequests /\ startedAt[t] \in SpatialTimes
      BY <1>5, <2>1 DEF Analyses!Reserve, Analyses!At, AnalysesTypeOK
    <3>2. v \in Analyses!SpatialReservations
      BY <2>2, <3>1 DEF Analyses!SpatialReservations
    <3>3. v # Nil
      BY <3>2 DEF Analyses!AnalysisAssumption
    <3> QED BY <2>1, <2>2, <3>1, <3>2, <3>3, AnalysisIdsAre
  <2>4. UNCHANGED <<analysed, spatialReceipts>>
    BY <1>5 DEF Analyses!Reserve
  <2>5. CASE Analyses!Refuse(t) /\ reserved' = reserved
    BY <1>3, <2>4, <2>5 DEF Analyses!Refuse, Analyses!End, Analyses!Goto, AnalysesTypeOK
  <2>6. CASE reserved[i] = Nil /\ reserved' = [reserved EXCEPT ![i] = v]
    <3>1. \A j \in Analyses!AnalysisIds : reserved'[j] = IF j = i THEN v ELSE reserved[j]
      BY <2>3, <2>6 DEF AnalysesTypeOK
    <3>2. ASSUME NEW u \in SpatialTasks, Analysing(u)
          PROVE  submitted[u].id # i /\ submitted[u].id \in Analyses!AnalysisIds /\ u # t
      <4>1. submitted[u] \in AnalysisRequests /\ submitted[u].id \in Analyses!AnalysisIds
        BY <3>2, AnalysisIdsAre DEF Analysing, AnalysesTypeOK, Analyses!At
      <4>2. reserved[submitted[u].id] = [request |-> submitted[u], startedAt |-> startedAt[u]]
        BY <3>2 DEF ReservationsInv, AnalysisClaim
      <4>3. startedAt[u] \in SpatialTimes
        BY <3>2 DEF Analysing, AnalysesTypeOK
      <4>4. reserved[submitted[u].id] # Nil
        BY <4>1, <4>2, <4>3 DEF Analyses!SpatialReservations, Analyses!AnalysisAssumption
      <4>5. u # t
        BY <1>5, <3>2 DEF Analyses!Reserve, Analysing, Analyses!At
      <4> QED BY <2>6, <4>1, <4>4, <4>5
    <3>3. analysed[i] = 0 /\ spatialReceipts[i] = Nil
      BY <2>3, <2>6 DEF ReservationsInv
    <3>4. \A j \in Analyses!AnalysisIds :
            /\ reserved'[j] = Nil => analysed'[j] = 0 /\ spatialReceipts'[j] = Nil
            /\ reserved'[j] # Nil => reserved'[j].request.id = j
      BY <2>3, <2>4, <3>1 DEF ReservationsInv
    <3>5. CASE Analyses!Refuse(t)
      <4>1. /\ spatialPc'[t] = "idle"
            /\ \A u \in SpatialTasks \ {t} :
                 spatialPc'[u] = spatialPc[u] /\ submitted'[u] = submitted[u]
                   /\ startedAt'[u] = startedAt[u]
        BY <3>5 DEF Analyses!Refuse, Analyses!End, Analyses!Goto, AnalysesTypeOK
      <4>2. \A u \in SpatialTasks \ {t} : Analysing(u) =>
               /\ reserved'[submitted[u].id] = reserved[submitted[u].id]
               /\ analysed'[submitted[u].id] = analysed[submitted[u].id]
               /\ spatialReceipts'[submitted[u].id] # Nil
                    <=> spatialReceipts[submitted[u].id] # Nil
        BY <2>4, <3>1, <3>2
      <4> QED BY <1>2, <3>4, <4>1, <4>2
    <3>6. CASE Analyses!Proceed(t, "analyse")
      <4>1. /\ spatialPc'[t] = "analyse" /\ submitted'[t] = a /\ startedAt'[t] = startedAt[t]
            /\ \A u \in SpatialTasks \ {t} :
                 spatialPc'[u] = spatialPc[u] /\ submitted'[u] = submitted[u]
                   /\ startedAt'[u] = startedAt[u]
        BY <2>1, <3>6 DEF Analyses!Proceed, Analyses!Goto, AnalysesTypeOK
      <4>2. AnalysisClaim(t)'
        BY <2>1, <2>2, <2>3, <2>4, <3>1, <3>3, <4>1 DEF AnalysisClaim
      <4>3. ASSUME NEW u \in SpatialTasks \ {t}, Analysing(u)'
            PROVE  Analysing(u) /\ AnalysisClaim(u)' /\ submitted'[u].id # i
        <5>1. Analysing(u)
          BY <4>1, <4>3 DEF Analysing
        <5>2. AnalysisClaim(u)'
          BY <2>4, <3>1, <3>2, <4>1, <5>1, AnalysisClaimStays DEF ReservationsInv
        <5> QED BY <3>2, <4>1, <5>1, <5>2
      <4>4. \A u \in SpatialTasks : Analysing(u)' => AnalysisClaim(u)'
        BY <4>2, <4>3
      <4>5. \A u, w \in SpatialTasks :
              Analysing(u)' /\ Analysing(w)' /\ submitted'[u].id = submitted'[w].id => u = w
        <5>1. submitted'[t].id = i
          BY <2>1, <4>1
        <5>2. ASSUME NEW u \in SpatialTasks, NEW w \in SpatialTasks,
                     Analysing(u)', Analysing(w)', submitted'[u].id = submitted'[w].id
              PROVE  u = w
          <6>1. CASE u # t /\ w # t
            BY <4>1, <4>3, <5>2, <6>1 DEF ReservationsInv
          <6>2. CASE u = t \/ w = t
            BY <4>3, <5>1, <5>2, <6>2
          <6> QED BY <6>1, <6>2
        <5> QED BY <5>2
      <4> QED BY <3>4, <4>4, <4>5 DEF ReservationsInv
    <3> QED BY <1>5, <2>1, <2>6, <3>5, <3>6 DEF Analyses!Reserve
  <2> QED BY <1>5, <2>1, <2>2, <2>5, <2>6 DEF Analyses!Reserve
\* A call that works takes a step and works on.
<1>6. ASSUME NEW t \in SpatialTasks, Analysing(t), Analysing(t)', AnalysisClaim(t)',
             submitted' = submitted, startedAt' = startedAt, reserved' = reserved,
             \A u \in SpatialTasks \ {t} : spatialPc'[u] = spatialPc[u],
             \A i \in Analyses!AnalysisIds \ {submitted[t].id} :
               analysed'[i] = analysed[i] /\ spatialReceipts'[i] = spatialReceipts[i]
      PROVE  ReservationsInv'
  <2>1. \A u \in SpatialTasks : Analysing(u) <=> Analysing(u)'
    BY <1>6 DEF Analysing
  <2>2. ASSUME NEW u \in SpatialTasks \ {t}, Analysing(u)
        PROVE  AnalysisClaim(u)'
    <3>1. submitted[u].id # submitted[t].id
      BY <1>6, <2>2 DEF ReservationsInv
    <3>2. submitted[u].id \in Analyses!AnalysisIds
      BY <2>2, AnalysisIdsAre DEF Analysing, AnalysesTypeOK, Analyses!At
    <3> QED BY <1>6, <2>2, <3>1, <3>2, AnalysisClaimStays DEF ReservationsInv
  <2>3. \A u, w \in SpatialTasks :
          Analysing(u)' /\ Analysing(w)' /\ submitted'[u].id = submitted'[w].id => u = w
    BY <1>6, <2>1 DEF ReservationsInv
  <2>4. submitted[t] \in AnalysisRequests /\ startedAt[t] \in SpatialTimes
    BY <1>6 DEF Analysing, AnalysesTypeOK, Analyses!At
  <2>5. reserved[submitted[t].id] = [request |-> submitted[t], startedAt |-> startedAt[t]]
    BY <1>6 DEF ReservationsInv, AnalysisClaim
  <2>6. reserved[submitted[t].id] # Nil
    BY <2>4, <2>5 DEF Analyses!SpatialReservations, Analyses!AnalysisAssumption
  <2>7. \A i \in Analyses!AnalysisIds :
          /\ reserved'[i] = Nil => analysed'[i] = 0 /\ spatialReceipts'[i] = Nil
          /\ reserved'[i] # Nil => reserved'[i].request.id = i
    BY <1>6, <2>6 DEF ReservationsInv
  <2> QED BY <1>6, <2>1, <2>2, <2>3, <2>7 DEF ReservationsInv
<1>7. ASSUME NEW t \in SpatialTasks, Analyses!Analyse(t)
      PROVE  ReservationsInv'
  <2>1. /\ spatialPc[t] = "analyse" /\ spatialPc' = [spatialPc EXCEPT ![t] = "save"]
        /\ submitted' = submitted /\ startedAt' = startedAt /\ reserved' = reserved
        /\ spatialReceipts' = spatialReceipts
        /\ analysed' = [analysed EXCEPT ![submitted[t].id] = @ + 1]
    BY <1>7
       DEF Analyses!Analyse, Analyses!Proceed, Analyses!Goto, Analyses!At, Analyses!spatialFiles
  <2>2. Analysing(t) /\ submitted[t].id \in Analyses!AnalysisIds
    BY <2>1, AnalysisIdsAre DEF Analysing, AnalysesTypeOK, Analyses!At
  <2>3. spatialPc'[t] = "save" /\ \A u \in SpatialTasks \ {t} : spatialPc'[u] = spatialPc[u]
    BY <2>1 DEF AnalysesTypeOK
  <2>4. /\ analysed'[submitted[t].id] = analysed[submitted[t].id] + 1
        /\ \A i \in Analyses!AnalysisIds \ {submitted[t].id} : analysed'[i] = analysed[i]
    BY <2>1, <2>2 DEF AnalysesTypeOK
  <2>5. AnalysisClaim(t)
    BY <2>2 DEF ReservationsInv
  <2>6. AnalysisClaim(t)'
    <3>1. PICK i : i = submitted[t].id
      OBVIOUS
    <3>2. analysed[i] = 0 /\ analysed'[i] = 1 /\ submitted'[t].id = i
      BY <2>1, <2>4, <2>5, <3>1 DEF AnalysisClaim
    <3> QED BY <2>1, <2>3, <2>5, <3>1, <3>2 DEF AnalysisClaim
  <2>7. Analysing(t)'
    BY <2>3 DEF Analysing
  <2> QED BY <1>6, <2>1, <2>2, <2>3, <2>4, <2>6, <2>7
<1>8. ASSUME NEW t \in SpatialTasks, Analyses!SaveReceipt(t)
      PROVE  ReservationsInv'
  <2>1. /\ spatialPc[t] = "save" /\ reserved' = reserved /\ analysed' = analysed
        /\ submitted[t] \in AnalysisRequests /\ startedAt[t] \in SpatialTimes
        /\ submitted[t].id \in Analyses!AnalysisIds
    BY <1>8, AnalysisIdsAre DEF Analyses!SaveReceipt, Analyses!At, AnalysesTypeOK
  <2>2. Analysing(t) /\ AnalysisClaim(t)
    BY <2>1 DEF Analysing, ReservationsInv
  <2>3. spatialReceipts[submitted[t].id] = Nil /\ reserved[submitted[t].id] # Nil
    BY <2>1, <2>2 DEF AnalysisClaim, Analyses!SpatialReservations, Analyses!AnalysisAssumption
  <2>4. PICK now \in SpatialTimes :
          LET receipt == [request |-> submitted[t], startedAt |-> startedAt[t], completedAt |-> now,
                          decisions |-> Analyses!Decisions(submitted[t])]
              made == [spatialReceipts EXCEPT ![submitted[t].id] = receipt] IN
            \/ spatialReceipts' = made /\ Analyses!Proceed(t, "read back")
            \/ spatialReceipts' \in {spatialReceipts, made} /\ Analyses!Refuse(t)
    BY <1>8, <2>3 DEF Analyses!SaveReceipt
  <2>5. PICK r : r = [request |-> submitted[t], startedAt |-> startedAt[t], completedAt |-> now,
                      decisions |-> Analyses!Decisions(submitted[t])]
    OBVIOUS
  <2>6. Analyses!Decisions(submitted[t]) \subseteq LayerPolicies
    <3>1. Analyses!Inputs(submitted[t], startedAt[t])
      BY <2>1 DEF SourcesInv
    <3> QED BY <2>1, <3>1, DecisionsAre DEF AnalysesTypeOK
  <2>7. r \in Analyses!SpatialReceipts /\ r # Nil
    BY <2>1, <2>5, <2>6 DEF Analyses!SpatialReceipts, Analyses!AnalysisAssumption
  <2>8. CASE Analyses!Refuse(t)
    <3>1. spatialReceipts' \in {spatialReceipts, [spatialReceipts EXCEPT ![submitted[t].id] = r]}
      BY <2>4, <2>5
    <3>2. \A i \in Analyses!AnalysisIds \ {submitted[t].id} :
            spatialReceipts'[i] = spatialReceipts[i]
      BY <2>1, <3>1 DEF AnalysesTypeOK
    <3>3. /\ spatialPc'[t] = "idle"
          /\ \A u \in SpatialTasks \ {t} :
               spatialPc'[u] = spatialPc[u] /\ submitted'[u] = submitted[u]
                 /\ startedAt'[u] = startedAt[u]
      BY <2>8 DEF Analyses!Refuse, Analyses!End, Analyses!Goto, AnalysesTypeOK
    <3>4. \A u \in SpatialTasks \ {t} : Analysing(u) =>
            submitted[u].id # submitted[t].id /\ submitted[u].id \in Analyses!AnalysisIds
      BY <2>2, AnalysisIdsAre DEF ReservationsInv, Analysing, AnalysesTypeOK, Analyses!At
    <3>5. \A i \in Analyses!AnalysisIds :
            /\ reserved'[i] = Nil => analysed'[i] = 0 /\ spatialReceipts'[i] = Nil
            /\ reserved'[i] # Nil => reserved'[i].request.id = i
      BY <2>1, <2>3, <3>2 DEF ReservationsInv
    <3> QED BY <1>2, <2>1, <3>2, <3>3, <3>4, <3>5
  <2>9. CASE /\ spatialReceipts' = [spatialReceipts EXCEPT ![submitted[t].id] = r]
             /\ Analyses!Proceed(t, "read back")
    <3>1. /\ spatialPc'[t] = "read back" /\ submitted' = submitted /\ startedAt' = startedAt
          /\ \A u \in SpatialTasks \ {t} : spatialPc'[u] = spatialPc[u]
      BY <2>9 DEF Analyses!Proceed, Analyses!Goto, AnalysesTypeOK
    <3>2. /\ spatialReceipts'[submitted[t].id] = r
          /\ \A i \in Analyses!AnalysisIds \ {submitted[t].id} :
               spatialReceipts'[i] = spatialReceipts[i]
      BY <2>1, <2>9 DEF AnalysesTypeOK
    <3>3. AnalysisClaim(t)'
      BY <2>1, <2>2, <2>7, <3>1, <3>2 DEF AnalysisClaim
    <3>4. Analysing(t)'
      BY <3>1 DEF Analysing
    <3> QED BY <1>6, <2>1, <2>2, <3>1, <3>2, <3>3, <3>4
  <2> QED BY <2>4, <2>5, <2>8, <2>9
<1>9. CASE (\E l \in Layers : Analyses!RetainLayer(l)) \/ UNCHANGED Analyses!spatialVars
  BY <1>1, <1>9
     DEF Analyses!RetainLayer, Analyses!spatialLocals, Analyses!spatialVars, Analyses!spatialFiles
<1> QED BY <1>4, <1>5, <1>7, <1>8, <1>9 DEF Analyses!Next

\* What is retained and reserved stays.
LayersStay ==
  /\ \A l \in Layers : layers[l] # Nil => layers'[l] = layers[l]
  /\ \A i \in Analyses!AnalysisIds : reserved[i] # Nil => reserved'[i] = reserved[i]

LEMMA LayersAreKept ==
  ASSUME AnalysesTypeOK, [Analyses!Next]_(Analyses!spatialVars)
  PROVE  LayersStay
<1>1. CASE \E l \in Layers : Analyses!RetainLayer(l)
  BY <1>1 DEF Analyses!RetainLayer, LayersStay, AnalysesTypeOK
<1>2. CASE \E t \in SpatialTasks : Analyses!Reserve(t)
  BY <1>2 DEF Analyses!Reserve, LayersStay, AnalysesTypeOK
<1>3. CASE ~ \E l \in Layers : Analyses!RetainLayer(l)
             /\ ~ \E t \in SpatialTasks : Analyses!Reserve(t)
  <2>1. \/ \E l \in Layers : Analyses!RetainLayer(l)
        \/ \E t \in SpatialTasks : Analyses!Reserve(t)
        \/ UNCHANGED <<layers, reserved>>
    BY DEF Analyses!Next, Analyses!Submit, Analyses!InspectFirst, Analyses!Prepare,
           Analyses!Analyse, Analyses!SaveReceipt, Analyses!ReadBack, Analyses!Fail,
       Analyses!spatialVars,
           Analyses!spatialFiles
  <2> QED BY <1>1, <1>2, <2>1 DEF LayersStay
<1> QED BY <1>1, <1>2, <1>3

LEMMA InputsStay ==
  ASSUME Analyses!AnalysisAssumption, LayersStay, NEW a \in AnalysisRequests, NEW at,
         Analyses!Inputs(a, at)
  PROVE  Analyses!Inputs(a, at)' /\ Analyses!Decisions(a)' = Analyses!Decisions(a)
<1>1. \A ref \in a.sources : layers[ref.acquisition] # Nil
        /\ layers'[ref.acquisition] = layers[ref.acquisition]
  BY DEF Analyses!Inputs, Analyses!SourceOf, LayersStay, Analyses!AnalysisAssumption
<1>2. Analyses!Inputs(a, at)'
  BY <1>1 DEF Analyses!Inputs, Analyses!SourceOf
<1>3. Analyses!Decisions(a)' = Analyses!Decisions(a)
  BY <1>1 DEF Analyses!Decisions
<1> QED BY <1>2, <1>3

LEMMA SourcesStay ==
  ASSUME Analyses!AnalysisAssumption, AnalysesInv, [Analyses!Next]_(Analyses!spatialVars)
  PROVE  SourcesInv'
<1> USE DEF AnalysesInv
<1>1. LayersStay
  BY LayersAreKept
<1>2. ASSUME NEW u \in SpatialTasks, spatialPc'[u] \in {"reserve", "analyse", "save"}
      PROVE  Analyses!Inputs(submitted[u], startedAt[u])'
  <2>1. ASSUME NEW a \in AnalysisRequests, NEW at, Analyses!Inputs(a, at), submitted'[u] = a,
               startedAt'[u] = at
        PROVE  Analyses!Inputs(submitted[u], startedAt[u])'
    <3>1. Analyses!Inputs(a, at)'
      BY <1>1, <2>1, InputsStay
    <3> QED BY <2>1, <3>1 DEF Analyses!Inputs, Analyses!SourceOf
  <2>2. CASE /\ spatialPc[u] \in {"reserve", "analyse", "save"}
             /\ submitted'[u] = submitted[u] /\ startedAt'[u] = startedAt[u]
    BY <2>1, <2>2 DEF SourcesInv, AnalysesTypeOK, Analyses!At
  <2>3. CASE \E t \in SpatialTasks : Analyses!Prepare(t) /\ t = u
    <3>1. PICK now \in SpatialTimes :
            /\ Analyses!Inputs(submitted[u], now)
            /\ startedAt' = [startedAt EXCEPT ![u] = now] /\ UNCHANGED submitted
      BY <1>2, <2>3
         DEF Analyses!Prepare, Analyses!Refuse, Analyses!End, Analyses!Goto, AnalysesTypeOK
    <3>2. submitted[u] \in AnalysisRequests
      BY <2>3 DEF Analyses!Prepare, AnalysesTypeOK, Analyses!At
    <3>3. startedAt'[u] = now /\ submitted'[u] = submitted[u]
      BY <3>1 DEF AnalysesTypeOK
    <3> QED BY <2>1, <3>1, <3>2, <3>3
  <2>4. ASSUME NEW t \in SpatialTasks,
               \/ \E a \in AnalysisRequests : Analyses!Submit(t, a)
               \/ Analyses!InspectFirst(t) \/ Analyses!Reserve(t) \/ Analyses!Analyse(t)
                    \/ Analyses!SaveReceipt(t) \/ Analyses!ReadBack(t) \/ Analyses!Fail(t)
        PROVE  /\ spatialPc[u] \in {"reserve", "analyse", "save"}
               /\ submitted'[u] = submitted[u] /\ startedAt'[u] = startedAt[u]
    BY <1>2, <2>4
       DEF Analyses!Submit, Analyses!InspectFirst, Analyses!Reserve, Analyses!Analyse,
           Analyses!SaveReceipt, Analyses!ReadBack, Analyses!Fail,
                      Analyses!Refuse, Analyses!Answer, Analyses!Proceed, Analyses!End,
                      Analyses!Goto, Analyses!At, AnalysesTypeOK
  <2>5. ASSUME NEW t \in SpatialTasks, t # u, Analyses!Prepare(t)
        PROVE  /\ spatialPc[u] \in {"reserve", "analyse", "save"}
               /\ submitted'[u] = submitted[u] /\ startedAt'[u] = startedAt[u]
    BY <1>2, <2>5 DEF Analyses!Prepare, Analyses!Refuse, Analyses!End, Analyses!Goto, AnalysesTypeOK
  <2>6. CASE (\E l \in Layers : Analyses!RetainLayer(l)) \/ UNCHANGED Analyses!spatialVars
    BY <1>2, <2>2, <2>6 DEF Analyses!RetainLayer, Analyses!spatialLocals, Analyses!spatialVars
  <2> QED BY <2>2, <2>3, <2>4, <2>5, <2>6 DEF Analyses!Next
<1>3. ASSUME NEW i \in Analyses!AnalysisIds, spatialReceipts'[i] # Nil
      PROVE  ReceiptOf(spatialReceipts[i], reserved[i])'
  <2>1. ASSUME NEW r, NEW v, v.request \in AnalysisRequests, ReceiptOf(r, v),
               spatialReceipts'[i] = r, reserved'[i] = v
        PROVE  ReceiptOf(spatialReceipts[i], reserved[i])'
    <3>1. r.request \in AnalysisRequests /\ Analyses!Inputs(r.request, r.startedAt)
      BY <2>1 DEF ReceiptOf
    <3>2. Analyses!Inputs(r.request, r.startedAt)'
            /\ Analyses!Decisions(r.request)' = Analyses!Decisions(r.request)
      BY <1>1, <3>1, InputsStay
    <3>3. ReceiptOf(r, v)'
      BY <2>1, <3>2 DEF ReceiptOf
    <3> QED BY <2>1, <3>3 DEF ReceiptOf, Analyses!Inputs, Analyses!SourceOf, Analyses!Decisions
  <2>2. CASE spatialReceipts'[i] = spatialReceipts[i]
    <3>1. reserved[i] # Nil
      BY <1>3, <2>2 DEF ReservationsInv
    <3>2. reserved'[i] = reserved[i] /\ reserved[i].request \in AnalysisRequests
      BY <1>1, <3>1 DEF LayersStay, AnalysesTypeOK, Analyses!SpatialReservations
    <3>3. ReceiptOf(spatialReceipts[i], reserved[i])
      BY <1>3, <2>2 DEF SourcesInv
    <3> QED BY <2>1, <2>2, <3>2, <3>3
  <2>3. ASSUME NEW t \in SpatialTasks, Analyses!SaveReceipt(t),
               spatialReceipts'[i] # spatialReceipts[i]
        PROVE  ReceiptOf(spatialReceipts[i], reserved[i])'
    <3>1. /\ spatialPc[t] = "save" /\ reserved' = reserved
          /\ submitted[t] \in AnalysisRequests
      BY <2>3 DEF Analyses!SaveReceipt, Analyses!At, AnalysesTypeOK
    <3>2. AnalysisClaim(t) /\ Analyses!Inputs(submitted[t], startedAt[t])
      BY <3>1 DEF Analysing, ReservationsInv, SourcesInv
    <3>3. PICK now \in SpatialTimes :
            spatialReceipts' = [spatialReceipts EXCEPT ![submitted[t].id] =
               [request |-> submitted[t], startedAt |-> startedAt[t], completedAt |-> now,
                decisions |-> Analyses!Decisions(submitted[t])]]
      BY <2>3 DEF Analyses!SaveReceipt
    <3>4. PICK r : r = [request |-> submitted[t], startedAt |-> startedAt[t], completedAt |-> now,
                        decisions |-> Analyses!Decisions(submitted[t])]
      OBVIOUS
    <3>5. i = submitted[t].id /\ spatialReceipts'[i] = r
      BY <2>3, <3>3, <3>4 DEF AnalysesTypeOK
    <3>6. reserved[i] = [request |-> submitted[t], startedAt |-> startedAt[t]]
      BY <3>2, <3>5 DEF AnalysisClaim
    <3>7. ReceiptOf(r, reserved[i]) /\ reserved[i].request \in AnalysisRequests
      BY <3>1, <3>2, <3>4, <3>6 DEF ReceiptOf
    <3> QED BY <2>1, <3>1, <3>5, <3>7
  <2>4. ASSUME ~ \E t \in SpatialTasks : Analyses!SaveReceipt(t)
        PROVE  spatialReceipts' = spatialReceipts
    BY <2>4
       DEF Analyses!Next, Analyses!Submit, Analyses!InspectFirst, Analyses!Prepare,
           Analyses!Reserve, Analyses!Analyse, Analyses!ReadBack, Analyses!Fail,
       Analyses!RetainLayer,
                Analyses!spatialVars, Analyses!spatialFiles
  <2> QED BY <2>2, <2>3, <2>4
<1> QED BY <1>2, <1>3 DEF SourcesInv

LEMMA AnalysesInvInductive ==
  ASSUME Analyses!AnalysisAssumption
  PROVE  Analyses!Spec => []AnalysesInv
<1>1. Analyses!Init => AnalysesInv
  BY DEF Analyses!Init, AnalysesInv, AnalysesTypeOK, ReservationsInv, SourcesInv, SpatialPlaces,
         Analysing, Analyses!At
<1>2. AnalysesInv /\ [Analyses!Next]_(Analyses!spatialVars) => AnalysesInv'
  BY AnalysisTypes, Reservations, SourcesStay DEF AnalysesInv
<1> QED BY <1>1, <1>2, PTL DEF Analyses!Spec

\* For any number of calls, requests and policies: every receipt passes the
\* inspection that recomputes it, unless the clock was set back while it was
\* made.
THEOREM AnalysisReceiptsInspect ==
  ASSUME Analyses!AnalysisAssumption
  PROVE  Analyses!Spec => []Analyses!ReceiptsInspect
<1>1. AnalysesInv => Analyses!ReceiptsInspect
  <2> SUFFICES ASSUME AnalysesInv, NEW i \in Analyses!AnalysisIds, spatialReceipts[i] # Nil
               PROVE  Analyses!Inspects(i) \/ spatialReceipts[i].completedAt < spatialReceipts[i].startedAt
    BY DEF Analyses!ReceiptsInspect
  <2>1. /\ spatialReceipts[i].completedAt \in Nat /\ spatialReceipts[i].startedAt \in Nat
    BY DEF AnalysesInv, AnalysesTypeOK, Analyses!SpatialReceipts, Analyses!AnalysisAssumption
  <2>2. \/ spatialReceipts[i].completedAt >= spatialReceipts[i].startedAt
        \/ spatialReceipts[i].completedAt < spatialReceipts[i].startedAt
    BY <2>1
  <2> QED BY <2>2 DEF AnalysesInv, SourcesInv, ReceiptOf, Analyses!Inspects
<1> QED BY <1>1, AnalysesInvInductive, PTL

LEMMA AnalysisStepsRunOnce ==
  ASSUME Analyses!AnalysisAssumption, AnalysesInv, [Analyses!Next]_(Analyses!spatialVars)
  PROVE  [Analyses!Contract!Next]_(Analyses!Contract!vars)
<1> DEFINE bound(res) == [i \in Analyses!AnalysisIds |-> IF res[i] = Nil THEN Nil ELSE res[i].request]
<1> USE DEF AnalysesInv
<1>1. ASSUME UNCHANGED <<reserved, analysed, spatialReceipts, spatialTold>>
      PROVE  UNCHANGED Analyses!Contract!vars
  BY <1>1 DEF Analyses!Contract!vars
<1>2. ASSUME NEW t \in SpatialTasks, spatialPc[t] # "idle", Analyses!Answer(t),
             UNCHANGED <<reserved, analysed, spatialReceipts>>,
             spatialReceipts[submitted[t].id] # Nil, reserved[submitted[t].id].request
               = submitted[t]
      PROVE  [Analyses!Contract!Next]_(Analyses!Contract!vars)
  <2>1. PICK c \in AnalysisRequests : c = submitted[t]
    BY <1>2 DEF AnalysesTypeOK, Analyses!At
  <2>2. c.id \in Analyses!AnalysisIds /\ reserved[c.id] # Nil
    BY <1>2, <2>1, AnalysisIdsAre DEF ReservationsInv
  <2>3. bound(reserved)[c.id] = c
    BY <1>2, <2>1, <2>2
  <2>4. Analyses!Contract!Tell(c)
    BY <1>2, <2>1, <2>3 DEF Analyses!Answer, Analyses!Contract!Tell
  <2> QED BY <2>4 DEF Analyses!Contract!Next
<1>3. ASSUME NEW t \in SpatialTasks, Analyses!InspectFirst(t)
      PROVE  [Analyses!Contract!Next]_(Analyses!Contract!vars)
  <2>1. UNCHANGED <<reserved, analysed, spatialReceipts>> /\ spatialPc[t] # "idle"
    BY <1>3 DEF Analyses!InspectFirst, Analyses!spatialFiles, Analyses!At
  <2>2. \/ spatialTold' = spatialTold
        \/ /\ spatialReceipts[submitted[t].id] # Nil /\ Analyses!Inspects(submitted[t].id)
           /\ spatialReceipts[submitted[t].id].request = submitted[t] /\ Analyses!Answer(t)
    BY <1>3 DEF Analyses!InspectFirst, Analyses!Proceed, Analyses!Refuse
  <2> QED BY <1>1, <1>2, <2>1, <2>2 DEF Analyses!Inspects
<1>4. ASSUME NEW t \in SpatialTasks, Analyses!ReadBack(t)
      PROVE  [Analyses!Contract!Next]_(Analyses!Contract!vars)
  <2>1. /\ UNCHANGED <<reserved, analysed, spatialReceipts>>
        /\ spatialPc[t] = "read back"
    BY <1>4 DEF Analyses!ReadBack, Analyses!spatialFiles, Analyses!At
  <2>2. CASE Analyses!Refuse(t)
    BY <1>1, <2>1, <2>2 DEF Analyses!Refuse
  <2>3. CASE Analyses!Answer(t)
    <3>1. AnalysisClaim(t)
      BY <2>1 DEF ReservationsInv, Analysing
    <3>2. reserved[submitted[t].id] = [request |-> submitted[t], startedAt |-> startedAt[t]]
      BY <3>1 DEF AnalysisClaim
    <3>3. reserved[submitted[t].id].request = submitted[t]
      BY <3>2
    <3>4. spatialReceipts[submitted[t].id] # Nil
      BY <2>1, <3>1 DEF AnalysisClaim
    <3> QED BY <1>2, <2>1, <2>3, <3>3, <3>4
  <2> QED BY <1>4, <2>2, <2>3 DEF Analyses!ReadBack
<1>5. ASSUME NEW t \in SpatialTasks, Analyses!Reserve(t)
      PROVE  [Analyses!Contract!Next]_(Analyses!Contract!vars)
  <2>1. PICK c \in AnalysisRequests : c = submitted[t]
    BY <1>5 DEF Analyses!Reserve, AnalysesTypeOK, Analyses!At
  <2>2. PICK v : v = [request |-> c, startedAt |-> startedAt[t]]
    OBVIOUS
  <2>3. c.id \in Analyses!AnalysisIds /\ v # Nil /\ v.request = c
    <3>1. startedAt[t] \in SpatialTimes
      BY <1>5 DEF Analyses!Reserve, Analyses!At, AnalysesTypeOK
    <3>2. v \in Analyses!SpatialReservations
      BY <2>2, <3>1 DEF Analyses!SpatialReservations
    <3>3. v # Nil
      BY <3>2 DEF Analyses!AnalysisAssumption
    <3> QED BY <2>2, <3>3, AnalysisIdsAre
  <2>4. UNCHANGED <<analysed, spatialReceipts, spatialTold>>
    BY <1>5 DEF Analyses!Reserve, Analyses!Proceed, Analyses!Refuse
  <2>5. \/ reserved' = reserved
        \/ reserved[c.id] = Nil /\ reserved' = [reserved EXCEPT ![c.id] = v]
    BY <1>5, <2>1, <2>2 DEF Analyses!Reserve
  <2>6. CASE reserved' = reserved
    BY <1>1, <2>4, <2>6
  <2>7. CASE reserved[c.id] = Nil /\ reserved' = [reserved EXCEPT ![c.id] = v]
    <3>1. bound(reserved') = [bound(reserved) EXCEPT ![c.id] = c]
      BY <2>3, <2>7 DEF AnalysesTypeOK
    <3>2. bound(reserved)[c.id] = Nil
      BY <2>3, <2>7
    <3>3. Analyses!Contract!Bind(c)
      BY <2>4, <3>1, <3>2 DEF Analyses!Contract!Bind
    <3> QED BY <3>3 DEF Analyses!Contract!Next
  <2> QED BY <2>5, <2>6, <2>7
<1>6. ASSUME NEW t \in SpatialTasks, Analyses!Analyse(t)
      PROVE  [Analyses!Contract!Next]_(Analyses!Contract!vars)
  <2>1. PICK i \in Analyses!AnalysisIds : i = submitted[t].id
    BY <1>6, AnalysisIdsAre DEF Analyses!Analyse, AnalysesTypeOK, Analyses!At
  <2>2. /\ UNCHANGED <<reserved, spatialReceipts, spatialTold>> /\ spatialPc[t] = "analyse"
        /\ analysed' = [analysed EXCEPT ![i] = @ + 1]
        /\ submitted[t] \in AnalysisRequests /\ startedAt[t] \in SpatialTimes
    BY <1>6, <2>1
       DEF Analyses!Analyse, Analyses!Proceed, Analyses!spatialFiles, AnalysesTypeOK, Analyses!At
  <2>3. AnalysisClaim(t)
    BY <2>2 DEF ReservationsInv, Analysing
  <2>4. reserved[i] = [request |-> submitted[t], startedAt |-> startedAt[t]] /\ analysed[i] = 0
    BY <2>1, <2>2, <2>3 DEF AnalysisClaim
  <2>5. analysed' = [analysed EXCEPT ![i] = 1]
    <3>1. analysed[i] + 1 = 1
      BY <2>4
    <3> QED BY <2>2, <3>1
  <2>6. reserved[i] # Nil /\ submitted[t] # Nil
    BY <2>2, <2>4 DEF Analyses!SpatialReservations, Analyses!AnalysisAssumption
  <2>7. bound(reserved)[i] # Nil
    BY <2>1, <2>4, <2>6
  <2>8. Analyses!Contract!Start(i)
    BY <2>2, <2>4, <2>5, <2>7 DEF Analyses!Contract!Start
  <2> QED BY <2>8 DEF Analyses!Contract!Next
<1>7. ASSUME NEW t \in SpatialTasks, Analyses!SaveReceipt(t)
      PROVE  [Analyses!Contract!Next]_(Analyses!Contract!vars)
  <2>1. PICK i \in Analyses!AnalysisIds : i = submitted[t].id
    BY <1>7, AnalysisIdsAre DEF Analyses!SaveReceipt, AnalysesTypeOK, Analyses!At
  <2>2. UNCHANGED <<reserved, analysed, spatialTold>> /\ spatialPc[t] = "save"
    BY <1>7 DEF Analyses!SaveReceipt, Analyses!Proceed, Analyses!Refuse, Analyses!At
  <2>3. AnalysisClaim(t)
    BY <2>2 DEF ReservationsInv, Analysing
  <2>4. analysed[i] = 1 /\ spatialReceipts[i] = Nil
    BY <2>1, <2>2, <2>3 DEF AnalysisClaim
  <2>5. PICK r : spatialReceipts' \in {spatialReceipts, [spatialReceipts EXCEPT ![i] = r]}
    BY <1>7, <2>1, <2>4 DEF Analyses!SaveReceipt
  <2>6. CASE spatialReceipts' = spatialReceipts
    BY <1>1, <2>2, <2>6
  <2>7. CASE spatialReceipts' # spatialReceipts
    <3>1. spatialReceipts' = [spatialReceipts EXCEPT ![i] = spatialReceipts'[i]]
      BY <2>5, <2>7 DEF AnalysesTypeOK
    <3>2. spatialReceipts'[i] # Nil
      BY <2>4, <2>7, <3>1 DEF AnalysesTypeOK
    <3>3. Analyses!Contract!Finish(i)
      BY <2>2, <2>4, <3>1, <3>2 DEF Analyses!Contract!Finish
    <3> QED BY <3>3 DEF Analyses!Contract!Next
  <2> QED BY <2>6, <2>7
<1>8. ASSUME \/ \E t \in SpatialTasks : Analyses!Prepare(t) \/ Analyses!Fail(t)
                  \/ \E a \in AnalysisRequests : Analyses!Submit(t, a)
             \/ \E l \in Layers : Analyses!RetainLayer(l)
             \/ UNCHANGED Analyses!spatialVars
      PROVE  UNCHANGED <<reserved, analysed, spatialReceipts, spatialTold>>
  BY <1>8
     DEF Analyses!Prepare, Analyses!Fail, Analyses!Submit, Analyses!RetainLayer, Analyses!Refuse,
         Analyses!spatialVars, Analyses!spatialFiles
<1> QED BY <1>1, <1>3, <1>4, <1>5, <1>6, <1>7, <1>8 DEF Analyses!Next

\* The spatial analyses implement the contract RunsOnce: an identity is
\* reserved for one request, is analysed once and has one receipt, which is all
\* that anybody is told, whoever is killed at whichever step.
THEOREM AnalysesRunOnce ==
  ASSUME Analyses!AnalysisAssumption
  PROVE  Analyses!Spec => Analyses!AnalysedOnce
<1>1. Analyses!Init => Analyses!Contract!Init
  BY DEF Analyses!Init, Analyses!Contract!Init
<1>2. AnalysesInv /\ [Analyses!Next]_(Analyses!spatialVars)
        => [Analyses!Contract!Next]_(Analyses!Contract!vars)
  BY AnalysisStepsRunOnce
<1> QED
  BY <1>1, <1>2, AnalysesInvInductive, PTL
     DEF Analyses!Spec, Analyses!AnalysedOnce, Analyses!Contract!Spec

-----------------------------------------------------------------------------
(* EvidenceRail. Records stay and refer to records, so one that compiled at *)
(* its time compiles at that time ever after.                              *)

\* Where a call of the rail is.
RailPlaces == {"idle", "depend", "lookup", "compile", "store", "publish", "confirm", "winner"}

RailTypeOK ==
  /\ railFiles \in [Records!RailIds -> Records!RailRecords \cup {Nil}]
  /\ \A i \in Records!RailIds : railFiles[i] # Nil => railFiles[i].request.id = i
  /\ railPc \in [RailTasks -> RailPlaces]
  /\ wanted \in [RailTasks -> RailRequests \cup {Nil}]
  /\ \A t \in RailTasks : ~ Records!At(t, "idle") => wanted[t] \in RailRequests
  /\ drafted \in [RailTasks -> Records!RailRecords \cup {Nil}]

\* x is the record of request r, of which all it refers to is on the rail.
RecordFor(r, x) ==
  /\ x \in Records!RailRecords /\ x.request = r
  /\ Records!Dependencies(r)
  /\ Records!Compiles(r, x.at)
  /\ x = Records!RecordOf(r, x.at)

\* The bytes of a capture are in the object store before its record is on the
\* rail.
BytesStored(r) == r.kind = "ACQUIRE" => r.content \in objects

\* The order of the checks of a call.
Depended(t) ==
  \/ Records!At(t, "compile")
  \/ Records!At(t, "lookup") /\ ~ (Records!LooksFirst /\ wanted[t].kind # "ACQUIRE")

\* What a call has found, and the record it made of it.
DraftInv(t) ==
  /\ Depended(t) => Records!Dependencies(wanted[t])
  /\ railPc[t] \in {"store", "publish", "confirm"} => RecordFor(wanted[t], drafted[t])
  /\ Records!At(t, "publish") => BytesStored(wanted[t])

\* A record on the rail has all that it refers to.
FileInv(i) ==
  railFiles[i] # Nil => RecordFor(railFiles[i].request, railFiles[i])
    /\ BytesStored(railFiles[i].request)

\* Callers are told the record that is on the rail.
ToldInv(said) ==
  /\ said[1] \in RailRequests /\ said[2] # Nil
  /\ said[2].request = said[1] /\ railFiles[said[1].id] = said[2]

RailInv ==
  /\ RailTypeOK
  /\ \A t \in RailTasks : DraftInv(t)
  /\ \A i \in Records!RailIds : FileInv(i)
  /\ \A said \in railTold : ToldInv(said)

\* Files and bytes stay.
RailGrows ==
  /\ objects \subseteq objects'
  /\ \A i \in Records!RailIds : railFiles[i] # Nil => railFiles'[i] = railFiles[i]

LEMMA RailIdsAre == \A r \in RailRequests : r.id \in Records!RailIds
BY DEF Records!RailIds

LEMMA RailRequestsOf ==
  ASSUME Records!RailAssumption, RailTypeOK, NEW r \in RailRequests
  PROVE  /\ r.kind \in {"ACQUIRE", "NORMALIZE", "BUILD"}
         /\ r.kind # "ACQUIRE" => r.of \subseteq Records!RailIds
         /\ r.kind = "NORMALIZE" => r.of # {} /\ \A a \in r.of : railFiles[a] # Nil
              => railFiles[a] \in Records!AcquiredRecords
         /\ r.kind = "BUILD" => \A n \in r.of : railFiles[n] # Nil
              => railFiles[n] \in Records!NormalizedRecords
<1>1. \A x \in Records!RailRecords :
        /\ x.request \in RailRequests
        /\ x.request.kind = "ACQUIRE" => x \in Records!AcquiredRecords
        /\ x.request.kind = "NORMALIZE" => x \in Records!NormalizedRecords
  BY DEF Records!RailRecords, Records!AcquiredRecords, Records!NormalizedRecords,
         Records!BuiltRecords, Records!OfKind
<1>2. \A i \in Records!RailIds : railFiles[i] # Nil
        => railFiles[i] \in Records!RailRecords /\ railFiles[i].request.id = i
  BY DEF RailTypeOK
<1>3. \A q \in RailRequests : q.id \in Records!RailIds
  BY RailIdsAre
<1>4. ASSUME r.kind = "NORMALIZE", NEW a \in r.of
      PROVE  a \in Records!RailIds
               /\ (railFiles[a] # Nil => railFiles[a] \in Records!AcquiredRecords)
  <2>1. PICK q \in RailRequests : q.id = a /\ q.kind = "ACQUIRE"
    BY <1>4 DEF Records!RailAssumption, Records!OfKind
  <2>2. a \in Records!RailIds
    BY <1>3, <2>1
  <2>3. railFiles[a] # Nil => railFiles[a].request.kind = "ACQUIRE"
    BY <1>1, <1>2, <2>1, <2>2 DEF Records!RailAssumption
  <2> QED BY <1>1, <1>2, <2>2, <2>3
<1>5. ASSUME r.kind = "BUILD", NEW n \in r.of
      PROVE  n \in Records!RailIds
               /\ (railFiles[n] # Nil => railFiles[n] \in Records!NormalizedRecords)
  <2>1. PICK q \in RailRequests : q.id = n /\ q.kind = "NORMALIZE"
    BY <1>5 DEF Records!RailAssumption, Records!OfKind
  <2>2. n \in Records!RailIds
    BY <1>3, <2>1
  <2>3. railFiles[n] # Nil => railFiles[n].request.kind = "NORMALIZE"
    BY <1>1, <1>2, <2>1, <2>2 DEF Records!RailAssumption
  <2> QED BY <1>1, <1>2, <2>2, <2>3
<1>6. r.kind \in {"ACQUIRE", "NORMALIZE", "BUILD"} /\ (r.kind = "NORMALIZE" => r.of # {})
  BY DEF Records!RailAssumption
<1> QED BY <1>4, <1>5, <1>6

\* What is on the rail passes the same checks later.
LEMMA AcquiredStays ==
  ASSUME RailGrows, NEW a \in Records!RailIds, railFiles[a] \in Records!AcquiredRecords,
         Records!Acquired(a)
  PROVE  Records!Acquired(a)' /\ railFiles'[a] = railFiles[a]
<1>1. railFiles'[a] = railFiles[a]
  BY DEF Records!Acquired, RailGrows
<1>2. railFiles[a].request.kind = "ACQUIRE"
  BY DEF Records!AcquiredRecords, Records!OfKind
<1>3. Records!Recomputes(a)'
  BY <1>1, <1>2 DEF Records!Acquired, Records!Recomputes, Records!Compiles, Records!RecordOf
<1>4. railFiles[a].request.content \in objects'
  BY DEF Records!Acquired, RailGrows
<1> QED BY <1>1, <1>3, <1>4 DEF Records!Acquired, Records!Ingests

LEMMA OfSourcesStays ==
  ASSUME Records!RailAssumption, RailTypeOK, RailGrows, NEW r \in RailRequests,
         r.kind = "NORMALIZE", Records!OfSources(r)
  PROVE  /\ Records!OfSources(r)'
         /\ \A a \in r.of : railFiles[a] # Nil /\ railFiles'[a] = railFiles[a]
<1>1. \A a \in r.of : a \in Records!RailIds /\ railFiles[a] \in Records!AcquiredRecords
        /\ Records!Acquired(a)
  BY RailRequestsOf DEF Records!OfSources, Records!Acquired
<1>2. \A a \in r.of : Records!Acquired(a)' /\ railFiles'[a] = railFiles[a]
  BY <1>1, AcquiredStays
<1> QED BY <1>1, <1>2 DEF Records!OfSources, Records!Acquired

LEMMA RecordOfANormalization ==
  ASSUME NEW r, r.kind = "NORMALIZE", r.of # {}, NEW at,
         \A a \in r.of : railFiles'[a] = railFiles[a]
  PROVE  Records!RecordOf(r, at)' = Records!RecordOf(r, at)
           /\ Records!Compiles(r, at)' = Records!Compiles(r, at)
<1>1. (CHOOSE a \in r.of : TRUE) \in r.of
  OBVIOUS
<1>2. PICK c \in r.of : c = CHOOSE a \in r.of : TRUE
  BY <1>1
<1>3. railFiles'[c] = railFiles[c]
  BY <1>2
<1>4. {railFiles'[i] : i \in r.of} = {railFiles[i] : i \in r.of}
  OBVIOUS
<1>5. Records!RecordOf(r, at) =
        [request |-> r, at |-> at, upstream |-> {railFiles[i] : i \in r.of},
         candidate |-> Identity[railFiles[c].request.content]]
  BY <1>2 DEF Records!RecordOf
<1>6. Records!RecordOf(r, at)' =
        [request |-> r, at |-> at, upstream |-> {railFiles'[i] : i \in r.of},
         candidate |-> Identity[railFiles'[c].request.content]]
  BY <1>2 DEF Records!RecordOf
<1>7. Records!Compiles(r, at)' = Records!Compiles(r, at)
  BY DEF Records!Compiles
<1> QED BY <1>3, <1>4, <1>5, <1>6, <1>7

LEMMA NormalizedStays ==
  ASSUME Records!RailAssumption, RailTypeOK, RailGrows, NEW n \in Records!RailIds,
         railFiles[n] \in Records!NormalizedRecords,
         Records!Normalized(n)
  PROVE  Records!Normalized(n)' /\ railFiles'[n] = railFiles[n]
<1>1. PICK r : r = railFiles[n].request
  OBVIOUS
<1>2. r \in RailRequests /\ r.kind = "NORMALIZE"
  BY <1>1 DEF Records!NormalizedRecords, Records!OfKind
<1>3. railFiles'[n] = railFiles[n]
  BY DEF Records!Normalized, RailGrows
<1>4. Records!OfSources(r)' /\ \A a \in r.of : railFiles'[a] = railFiles[a]
  BY <1>1, <1>2, OfSourcesStays DEF Records!Normalized
<1>5. r.of # {}
  BY <1>2, RailRequestsOf
<1>6. PICK at : at = railFiles[n].at
  OBVIOUS
<1>7. Records!RecordOf(r, at)' = Records!RecordOf(r, at)
        /\ Records!Compiles(r, at)' = Records!Compiles(r, at)
  BY <1>2, <1>4, <1>5, RecordOfANormalization
<1>8. Records!Compiles(r, at) /\ railFiles[n] = Records!RecordOf(r, at)
  BY <1>1, <1>6 DEF Records!Normalized, Records!Recomputes
<1>9. (Records!Compiles(r, at) /\ railFiles[n] = Records!RecordOf(r, at))'
  BY <1>3, <1>7, <1>8
<1>10. railFiles'[n].request = r /\ railFiles'[n].at = at
  BY <1>1, <1>3, <1>6
<1>11. Records!Recomputes(n)'
  BY <1>9, <1>10 DEF Records!Recomputes, Records!Compiles, Records!RecordOf
<1>12. Records!OfSources(railFiles[n].request)'
  BY <1>4, <1>10 DEF Records!OfSources
<1>13. railFiles'[n] # Nil
  BY <1>3 DEF Records!Normalized
<1> QED BY <1>3, <1>11, <1>12, <1>13 DEF Records!Normalized

LEMMA RecordsForStay ==
  ASSUME Records!RailAssumption, RailTypeOK, RailGrows, NEW r \in RailRequests,
         Records!Dependencies(r)
  PROVE  /\ Records!Dependencies(r)'
         /\ \A at : Records!Compiles(r, at)' = Records!Compiles(r, at)
              /\ Records!RecordOf(r, at)' = Records!RecordOf(r, at)
<1>1. CASE r.kind = "ACQUIRE"
  BY <1>1 DEF Records!Dependencies, Records!Ingests, Records!Compiles, Records!RecordOf
<1>2. CASE r.kind = "NORMALIZE"
  <2>1. Records!OfSources(r)' /\ \A a \in r.of : railFiles'[a] = railFiles[a]
    BY <1>2, OfSourcesStays DEF Records!Dependencies
  <2>2. r.of # {}
    BY <1>2, RailRequestsOf
  <2>3. \A at : Records!Compiles(r, at)' = Records!Compiles(r, at)
          /\ Records!RecordOf(r, at)' = Records!RecordOf(r, at)
    BY <1>2, <2>1, <2>2, RecordOfANormalization
  <2> QED BY <1>2, <2>1, <2>3 DEF Records!Dependencies
<1>3. CASE r.kind = "BUILD"
  <2>1. Records!Eligible(r)
    BY <1>3 DEF Records!Dependencies
  <2>2. \A n \in r.of : n \in Records!RailIds /\ railFiles[n] \in Records!NormalizedRecords
          /\ Records!Normalized(n)
    BY <1>3, <2>1, RailRequestsOf DEF Records!Eligible, Records!Normalized
  <2>3. \A n \in r.of : Records!Normalized(n)' /\ railFiles'[n] = railFiles[n]
    BY <2>2, NormalizedStays
  <2>4. {railFiles'[i] : i \in r.of} = {railFiles[i] : i \in r.of}
    BY <2>3
  <2>5. {railFiles'[n].candidate : n \in r.of} = {railFiles[n].candidate : n \in r.of}
    BY <2>3
  <2>6. Records!Eligible(r)'
    BY <2>1, <2>3, <2>5 DEF Records!Eligible
  <2>7. ASSUME NEW at
        PROVE  Records!Compiles(r, at)' = Records!Compiles(r, at)
                 /\ Records!RecordOf(r, at)' = Records!RecordOf(r, at)
    <3>1. Records!Compiles(r, at)' = Records!Compiles(r, at)
      BY <1>3, <2>3 DEF Records!Compiles
    <3>2. Records!RecordOf(r, at) =
            [request |-> r, at |-> at, upstream |-> {railFiles[i] : i \in r.of}, candidate |-> Nil]
      BY <1>3 DEF Records!RecordOf
    <3>3. Records!RecordOf(r, at)' =
            [request |-> r, at |-> at, upstream |-> {railFiles'[i] : i \in r.of},
             candidate |-> Nil]
      BY <1>3 DEF Records!RecordOf
    <3> QED BY <2>4, <3>1, <3>2, <3>3
  <2> QED BY <1>3, <2>6, <2>7 DEF Records!Dependencies
<1>4. r.kind \in {"ACQUIRE", "NORMALIZE", "BUILD"}
  BY RailRequestsOf
<1> QED BY <1>1, <1>2, <1>3, <1>4

LEMMA RecordForStays ==
  ASSUME Records!RailAssumption, RailTypeOK, RailGrows, NEW r \in RailRequests, NEW x,
         RecordFor(r, x)
  PROVE  RecordFor(r, x)'
<1>1. /\ Records!Dependencies(r)'
      /\ Records!Compiles(r, x.at)' = Records!Compiles(r, x.at)
           /\ Records!RecordOf(r, x.at)' = Records!RecordOf(r, x.at)
  BY RecordsForStay DEF RecordFor
<1>2. (Records!Compiles(r, x.at) /\ x = Records!RecordOf(r, x.at))'
  BY <1>1 DEF RecordFor
<1> QED BY <1>1, <1>2 DEF RecordFor

\* What a call makes of a request that may be carried out is its record.
LEMMA RecordOfIsARecord ==
  ASSUME Records!RailAssumption, RailTypeOK, NEW r \in RailRequests, NEW at \in RailTimes,
         Records!Dependencies(r), Records!Compiles(r, at)
  PROVE  RecordFor(r, Records!RecordOf(r, at))
<1>1. Records!RecordOf(r, at).request = r /\ Records!RecordOf(r, at).at = at
  BY DEF Records!RecordOf
<1>2. CASE r.kind = "ACQUIRE"
  <2>1. Records!RecordOf(r, at) \in Records!AcquiredRecords
    BY <1>2 DEF Records!RecordOf, Records!AcquiredRecords, Records!OfKind
  <2> QED BY <1>1, <2>1 DEF RecordFor, Records!RailRecords
<1>3. CASE r.kind = "NORMALIZE"
  <2>1. \A a \in r.of : railFiles[a] \in Records!AcquiredRecords
    BY <1>3, RailRequestsOf DEF Records!Dependencies, Records!OfSources, Records!Acquired
  <2>2. r.of # {}
    BY <1>3, RailRequestsOf
  <2>3. PICK c \in r.of : c = CHOOSE a \in r.of : TRUE
    BY <2>2
  <2>4. Records!RecordOf(r, at) =
          [request |-> r, at |-> at, upstream |-> {railFiles[i] : i \in r.of},
           candidate |-> Identity[railFiles[c].request.content]]
    BY <1>3, <2>3 DEF Records!RecordOf
  <2>5. railFiles[c].request \in Records!OfKind("ACQUIRE")
    BY <2>1 DEF Records!AcquiredRecords
  <2>6. Records!RecordOf(r, at) \in Records!NormalizedRecords
    BY <1>3, <2>1, <2>4, <2>5 DEF Records!NormalizedRecords, Records!OfKind
  <2> QED BY <1>1, <2>6 DEF RecordFor, Records!RailRecords
<1>4. CASE r.kind = "BUILD"
  <2>1. \A n \in r.of : railFiles[n] \in Records!NormalizedRecords
    BY <1>4, RailRequestsOf DEF Records!Dependencies, Records!Eligible, Records!Normalized
  <2>2. Records!RecordOf(r, at) =
          [request |-> r, at |-> at, upstream |-> {railFiles[i] : i \in r.of}, candidate |-> Nil]
    BY <1>4 DEF Records!RecordOf
  <2>3. Records!RecordOf(r, at) \in Records!BuiltRecords
    BY <1>4, <2>1, <2>2 DEF Records!BuiltRecords, Records!OfKind
  <2> QED BY <1>1, <2>3 DEF RecordFor, Records!RailRecords
<1>5. r.kind \in {"ACQUIRE", "NORMALIZE", "BUILD"}
  BY RailRequestsOf
<1> QED BY <1>2, <1>3, <1>4, <1>5

LEMMA RailFiles ==
  ASSUME Records!RailAssumption, RailInv, [Records!Next]_(Records!railVars)
  PROVE  RailTypeOK' /\ RailGrows
<1> USE DEF RailInv
<1>1. CASE UNCHANGED Records!railVars
  BY <1>1 DEF Records!railVars, Records!railLocals, RailTypeOK, RailGrows, Records!At
<1>2. ASSUME NEW t \in RailTasks, UNCHANGED <<railFiles, objects>>, ~ Records!At(t, "idle"),
             \/ Records!Refuse(t)
             \/ \E x : Records!Answer(t, x)
             \/ \E place \in RailPlaces : Records!Proceed(t, place)
      PROVE  RailTypeOK' /\ RailGrows
  BY <1>2
     DEF Records!Refuse, Records!Answer, Records!Proceed, Records!Goto, Records!At, RailTypeOK,
         RailGrows, RailPlaces
<1>3. ASSUME NEW t \in RailTasks, NEW r \in RailRequests, Records!Request(t, r)
      PROVE  RailTypeOK' /\ RailGrows
  BY <1>3 DEF Records!Request, Records!Goto, Records!At, RailTypeOK, RailGrows, RailPlaces
<1>4. ASSUME NEW t \in RailTasks, Records!Depend(t) \/ Records!Lookup(t) \/ Records!Confirm(t)
               \/ Records!Winner(t) \/ Records!Fail(t)
      PROVE  RailTypeOK' /\ RailGrows
  <2>1. UNCHANGED <<railFiles, objects>> /\ ~ Records!At(t, "idle")
    BY <1>4
       DEF Records!Depend, Records!Lookup, Records!Confirm, Records!Winner, Records!Fail, Records!At
  <2>2. \/ Records!Refuse(t)
        \/ \E x : Records!Answer(t, x)
        \/ \E place \in RailPlaces : Records!Proceed(t, place)
    BY <1>4
       DEF Records!Depend, Records!Lookup, Records!Confirm, Records!Winner, Records!Fail, RailPlaces
  <2> QED BY <1>2, <2>1, <2>2
<1>5. ASSUME NEW t \in RailTasks, Records!Compile(t)
      PROVE  RailTypeOK' /\ RailGrows
  <2>1. /\ UNCHANGED <<railFiles, objects>> /\ ~ Records!At(t, "idle") /\ wanted[t] \in RailRequests
        /\ Records!Dependencies(wanted[t])
    BY <1>5 DEF Records!Compile, Records!At, RailTypeOK, DraftInv, Depended
  <2>2. CASE Records!Refuse(t)
    BY <1>2, <2>1, <2>2
  <2>3. ASSUME NEW now \in RailTimes, Records!Compiles(wanted[t], now),
               drafted' = [drafted EXCEPT ![t] = Records!RecordOf(wanted[t], now)],
               Records!Goto(t, IF wanted[t].kind = "ACQUIRE" THEN "store" ELSE "publish"),
               UNCHANGED wanted
        PROVE  RailTypeOK' /\ RailGrows
    <3>1. Records!RecordOf(wanted[t], now) \in Records!RailRecords
      BY <2>1, <2>3, RecordOfIsARecord DEF RecordFor
    <3>2. railPc' \in [RailTasks -> RailPlaces] /\ \A u \in RailTasks \ {t} : railPc'[u] = railPc[u]
      BY <2>3 DEF Records!Goto, RailTypeOK, RailPlaces
    <3> QED BY <2>1, <2>3, <3>1, <3>2 DEF Records!At, RailTypeOK, RailGrows
  <2> QED BY <1>5, <2>2, <2>3 DEF Records!Compile
<1>6. ASSUME NEW t \in RailTasks, Records!StoreBytes(t)
      PROVE  RailTypeOK' /\ RailGrows
  <2>1. /\ UNCHANGED railFiles /\ objects \subseteq objects' /\ ~ Records!At(t, "idle")
        /\ Records!Refuse(t) \/ Records!Proceed(t, "publish")
    BY <1>6 DEF Records!StoreBytes, Records!At
  <2> QED
    BY <2>1
       DEF Records!Refuse, Records!Proceed, Records!Goto, Records!At, RailTypeOK, RailGrows,
           RailPlaces
<1>7. ASSUME NEW t \in RailTasks, Records!Publish(t)
      PROVE  RailTypeOK' /\ RailGrows
  <2>1. PICK i, x : i = wanted[t].id /\ x = drafted[t]
    OBVIOUS
  <2>2. /\ wanted[t] \in RailRequests /\ i \in Records!RailIds /\ x \in Records!RailRecords
             /\ x.request = wanted[t]
        /\ x.request.id = i /\ UNCHANGED objects
    BY <1>7, <2>1, RailIdsAre DEF Records!Publish, Records!At, RailTypeOK, DraftInv, RecordFor
  <2>3. railFiles' = railFiles
          \/ (railFiles[i] \in {Nil, x} /\ railFiles' = [railFiles EXCEPT ![i] = x])
    BY <1>7, <2>1 DEF Records!Publish
  <2>4. /\ railFiles' \in [Records!RailIds -> Records!RailRecords \cup {Nil}]
        /\ \A j \in Records!RailIds : railFiles'[j] # Nil => railFiles'[j].request.id = j
        /\ \A j \in Records!RailIds : railFiles[j] # Nil => railFiles'[j] = railFiles[j]
    BY <2>2, <2>3 DEF RailTypeOK
  <2>5. \/ \E y : Records!Answer(t, y)
        \/ \E place \in RailPlaces : Records!Proceed(t, place)
    BY <1>7 DEF Records!Publish, RailPlaces
  <2>6. ~ Records!At(t, "idle")
    BY <1>7 DEF Records!Publish, Records!At
  <2> QED
    BY <2>2, <2>4, <2>5, <2>6
       DEF Records!Answer, Records!Proceed, Records!Goto, Records!At, RailTypeOK, RailGrows,
           RailPlaces
<1> QED BY <1>1, <1>3, <1>4, <1>5, <1>6, <1>7 DEF Records!Next

LEMMA Drafts ==
  ASSUME Records!RailAssumption, RailInv, RailGrows, rail' = rail,
         [Records!Next]_(Records!railVars), NEW u \in RailTasks
  PROVE  DraftInv(u)'
<1> USE DEF RailInv
<1>1. PICK r, x : r = wanted[u] /\ x = drafted[u]
  OBVIOUS
\* A call that is where it was.
<1>2. CASE railPc'[u] = railPc[u] /\ wanted'[u] = r /\ drafted'[u] = x
  <2>1. CASE Records!At(u, "idle")
    BY <1>2, <2>1 DEF DraftInv, Depended, Records!At
  <2>2. CASE ~ Records!At(u, "idle")
    <3>1. r \in RailRequests
      BY <1>1, <2>2 DEF RailTypeOK
    <3>2. Depended(u)' => Records!Dependencies(r)'
      <4>1. Depended(u)' <=> Depended(u)
        BY <1>1, <1>2 DEF Depended, Records!At, Records!LooksFirst
      <4> QED BY <1>1, <3>1, <4>1, RecordsForStay DEF DraftInv
    <3>3. railPc'[u] \in {"store", "publish", "confirm"} => RecordFor(r, x)'
      BY <1>1, <1>2, <3>1, RecordForStays DEF DraftInv
    <3>4. railPc'[u] = "publish" => BytesStored(r)'
      BY <1>1, <1>2 DEF DraftInv, BytesStored, RailGrows, Records!At
    <3>5. Records!Dependencies(r)' => Records!Dependencies(wanted[u])'
      BY <1>2 DEF Records!Dependencies, Records!Ingests, Records!OfSources, Records!Eligible
    <3>6. RecordFor(r, x)' => RecordFor(wanted[u], drafted[u])'
      BY <1>2, <3>5 DEF RecordFor, Records!Compiles, Records!RecordOf
    <3>7. BytesStored(r)' => BytesStored(wanted[u])'
      BY <1>2 DEF BytesStored
    <3> QED BY <3>2, <3>3, <3>4, <3>5, <3>6, <3>7 DEF DraftInv, Records!At
  <2> QED BY <2>1, <2>2
\* A call that is over, or has checked nothing.
<1>3. CASE /\ railPc'[u] \notin {"store", "publish", "confirm", "compile"}
           /\ railPc'[u] = "lookup" => Records!LooksFirst /\ wanted'[u].kind # "ACQUIRE"
  BY <1>3 DEF DraftInv, Depended, Records!At, Records!LooksFirst
\* A call that has checked what its request depends on.
<1>4. ASSUME r \in RailRequests, wanted'[u] = r, Records!Dependencies(r),
             railPc'[u] \in {"lookup", "compile"}
      PROVE  DraftInv(u)'
  <2>1. Records!Dependencies(wanted[u])'
    <3>1. Records!Dependencies(r)'
      BY <1>4, RecordsForStay
    <3> QED
      BY <1>4, <3>1 DEF Records!Dependencies, Records!Ingests, Records!OfSources, Records!Eligible
  <2> QED BY <1>4, <2>1 DEF DraftInv, Records!At
<1>5. ASSUME NEW t \in RailTasks, t # u,
             \/ \E q \in RailRequests : Records!Request(t, q)
             \/ Records!Depend(t) \/ Records!Lookup(t) \/ Records!Compile(t)
                  \/ Records!StoreBytes(t)
             \/ Records!Publish(t) \/ Records!Confirm(t) \/ Records!Winner(t) \/ Records!Fail(t)
      PROVE  railPc'[u] = railPc[u] /\ wanted'[u] = r /\ drafted'[u] = x
  <2>1. /\ \E place : Records!Goto(t, place)
        /\ wanted' = wanted \/ \E q : wanted' = [wanted EXCEPT ![t] = q]
        /\ drafted' = drafted \/ \E q : drafted' = [drafted EXCEPT ![t] = q]
    BY <1>5
       DEF Records!Request, Records!Depend, Records!Lookup, Records!Compile, Records!StoreBytes,
           Records!Publish, Records!Confirm, Records!Winner, Records!Fail,
                Records!Refuse, Records!Answer, Records!Proceed
  <2> QED BY <1>1, <1>5, <2>1 DEF Records!Goto, RailTypeOK
<1>6. ASSUME \E q \in RailRequests : Records!Request(u, q)
      PROVE  DraftInv(u)'
  <2>1. PICK q \in RailRequests : Records!Request(u, q)
    BY <1>6
  <2>2. wanted'[u] = q /\ railPc'[u] = IF Records!LooksFirst
          /\ q.kind # "ACQUIRE" THEN "lookup" ELSE "depend"
    BY <2>1 DEF Records!Request, Records!Goto, RailTypeOK
  <2> QED BY <1>3, <2>2
<1>7. CASE Records!Depend(u)
  <2>1. CASE Records!Refuse(u)
    BY <1>3, <2>1 DEF Records!Refuse, Records!Goto, RailTypeOK
  <2>2. CASE /\ Records!Dependencies(wanted[u])
             /\ Records!Proceed(u, IF Records!LooksFirst /\ wanted[u].kind # "ACQUIRE" THEN "compile" ELSE "lookup")
    <3>1. /\ wanted' = wanted /\ railPc'[u] \in {"lookup", "compile"}
          /\ wanted[u] \in RailRequests
      BY <1>7, <2>2 DEF Records!Depend, Records!Proceed, Records!Goto, RailTypeOK, Records!At
    <3> QED BY <1>1, <1>4, <2>2, <3>1
  <2> QED BY <1>7, <2>1, <2>2 DEF Records!Depend
<1>8. CASE Records!Lookup(u)
  <2>1. CASE Records!Refuse(u) \/ \E y : Records!Answer(u, y)
    BY <1>3, <2>1 DEF Records!Refuse, Records!Answer, Records!Goto, RailTypeOK
  <2>2. CASE Records!Proceed(u, IF Records!LooksFirst /\ wanted[u].kind # "ACQUIRE" THEN "depend" ELSE "compile")
    <3>1. CASE Records!LooksFirst /\ wanted[u].kind # "ACQUIRE"
      BY <1>3, <2>2, <3>1 DEF Records!Proceed, Records!Goto, RailTypeOK
    <3>2. CASE ~ (Records!LooksFirst /\ wanted[u].kind # "ACQUIRE")
      <4>1. Records!Dependencies(wanted[u])
        BY <1>8, <3>2 DEF Records!Lookup, DraftInv, Depended
      <4>2. /\ wanted' = wanted /\ railPc'[u] = "compile"
            /\ wanted[u] \in RailRequests
        BY <1>8, <2>2, <3>2
           DEF Records!Lookup, Records!Proceed, Records!Goto, RailTypeOK, Records!At
      <4> QED BY <1>1, <1>4, <4>1, <4>2
    <3> QED BY <3>1, <3>2
  <2> QED BY <1>8, <2>1, <2>2 DEF Records!Lookup
<1>9. CASE Records!Compile(u)
  <2>1. /\ UNCHANGED <<railFiles, objects>> /\ wanted[u] \in RailRequests
        /\ Records!Dependencies(wanted[u])
    BY <1>9 DEF Records!Compile, Records!At, RailTypeOK, DraftInv, Depended
  <2>2. CASE Records!Refuse(u)
    BY <1>3, <2>2 DEF Records!Refuse, Records!Goto, RailTypeOK
  <2>3. ASSUME NEW now \in RailTimes, Records!Compiles(wanted[u], now),
               drafted' = [drafted EXCEPT ![u] = Records!RecordOf(wanted[u], now)],
               Records!Goto(u, IF wanted[u].kind = "ACQUIRE" THEN "store" ELSE "publish"),
               UNCHANGED wanted
        PROVE  DraftInv(u)'
    <3>1. PICK y : y = Records!RecordOf(wanted[u], now)
      OBVIOUS
    <3>2. RecordFor(r, y)
      BY <1>1, <2>1, <2>3, <3>1, RecordOfIsARecord
    <3>3. RecordFor(r, y)'
      BY <1>1, <2>1, <3>2, RecordForStays
    <3>4. wanted'[u] = r /\ drafted'[u] = y
          /\ railPc'[u] = IF r.kind = "ACQUIRE" THEN "store" ELSE "publish"
      BY <1>1, <2>3, <3>1 DEF Records!Goto, RailTypeOK
    <3>5. RecordFor(wanted[u], drafted[u])'
      BY <3>3, <3>4
         DEF RecordFor, Records!Dependencies, Records!Ingests, Records!OfSources, Records!Eligible,
             Records!Compiles, Records!RecordOf
    <3> QED BY <3>4, <3>5 DEF DraftInv, Depended, BytesStored, Records!At
  <2> QED BY <1>9, <2>2, <2>3 DEF Records!Compile
<1>10. CASE Records!StoreBytes(u)
  <2>1. CASE Records!Refuse(u)
    BY <1>3, <2>1 DEF Records!Refuse, Records!Goto, RailTypeOK
  <2>2. CASE objects' = objects \cup {wanted[u].content} /\ Records!Proceed(u, "publish")
    <3>1. wanted' = wanted /\ drafted' = drafted /\ railPc'[u] = "publish"
      BY <2>2 DEF Records!Proceed, Records!Goto, RailTypeOK
    <3>2. RecordFor(r, x) /\ r \in RailRequests
      BY <1>1, <1>10 DEF Records!StoreBytes, Records!At, RailTypeOK, DraftInv
    <3>3. RecordFor(r, x)'
      BY <3>2, RecordForStays
    <3>4. RecordFor(wanted[u], drafted[u])'
      BY <1>1, <3>1, <3>3
         DEF RecordFor, Records!Dependencies, Records!Ingests, Records!OfSources, Records!Eligible,
             Records!Compiles, Records!RecordOf
    <3>5. BytesStored(wanted[u])'
      BY <2>2, <3>1 DEF BytesStored
    <3> QED BY <3>1, <3>4, <3>5 DEF DraftInv, Depended, Records!At
  <2> QED BY <1>10, <2>1, <2>2 DEF Records!StoreBytes
<1>11. CASE Records!Publish(u)
  <2>1. CASE (\E y : Records!Answer(u, y)) \/ Records!Proceed(u, "winner")
    BY <1>3, <2>1 DEF Records!Answer, Records!Proceed, Records!Goto, RailTypeOK
  <2>2. CASE Records!Proceed(u, "confirm")
    <3>1. wanted' = wanted /\ drafted' = drafted /\ railPc'[u] = "confirm"
      BY <2>2 DEF Records!Proceed, Records!Goto, RailTypeOK
    <3>2. RecordFor(r, x) /\ r \in RailRequests
      BY <1>1, <1>11 DEF Records!Publish, Records!At, RailTypeOK, DraftInv
    <3>3. RecordFor(r, x)'
      BY <3>2, RecordForStays
    <3>4. RecordFor(wanted[u], drafted[u])'
      BY <1>1, <3>1, <3>3
         DEF RecordFor, Records!Dependencies, Records!Ingests, Records!OfSources, Records!Eligible,
             Records!Compiles, Records!RecordOf
    <3> QED BY <3>1, <3>4 DEF DraftInv, Depended, Records!At
  <2> QED BY <1>11, <2>1, <2>2 DEF Records!Publish
<1>12. CASE Records!Confirm(u) \/ Records!Winner(u) \/ Records!Fail(u)
  <2>1. Records!Refuse(u) \/ (\E y : Records!Answer(u, y)) \/ Records!Proceed(u, "winner")
    BY <1>12 DEF Records!Confirm, Records!Winner, Records!Fail
  <2> QED
    BY <1>3, <2>1 DEF Records!Refuse, Records!Answer, Records!Proceed, Records!Goto, RailTypeOK
<1>13. CASE UNCHANGED Records!railVars
  BY <1>1, <1>2, <1>13 DEF Records!railVars, Records!railLocals
<1> QED BY <1>2, <1>5, <1>6, <1>7, <1>8, <1>9, <1>10, <1>11, <1>12, <1>13 DEF Records!Next

LEMMA PublishedRecords ==
  ASSUME Records!RailAssumption, RailInv, RailGrows, [Records!Next]_(Records!railVars),
         NEW i \in Records!RailIds
  PROVE  FileInv(i)'
<1> USE DEF RailInv
<1>1. ASSUME NEW r \in RailRequests, NEW x, RecordFor(r, x), BytesStored(r), railFiles'[i] = x
      PROVE  FileInv(i)'
  <2>1. RecordFor(r, x)' /\ BytesStored(r)' /\ x.request = r
    BY <1>1, RecordForStays DEF RecordFor, BytesStored, RailGrows
  <2>2. railFiles'[i].request = r
    BY <1>1, <2>1
  <2>3. RecordFor(railFiles[i].request, railFiles[i])'
    BY <1>1, <2>1, <2>2
       DEF RecordFor, Records!Dependencies, Records!Ingests, Records!OfSources, Records!Eligible,
           Records!Compiles, Records!RecordOf
  <2>4. BytesStored(railFiles[i].request)'
    BY <2>1, <2>2 DEF BytesStored
  <2> QED BY <2>3, <2>4 DEF FileInv
<1>2. CASE railFiles'[i] = railFiles[i]
  <2>1. CASE railFiles[i] = Nil
    BY <1>2, <2>1 DEF FileInv
  <2>2. CASE railFiles[i] # Nil
    <3>1. PICK r, x : r = railFiles[i].request /\ x = railFiles[i]
      OBVIOUS
    <3>2. RecordFor(r, x) /\ BytesStored(r)
      BY <2>2, <3>1 DEF FileInv
    <3>3. r \in RailRequests
      BY <3>2
         DEF RecordFor, Records!RailRecords, Records!AcquiredRecords, Records!NormalizedRecords,
             Records!BuiltRecords, Records!OfKind
    <3> QED BY <1>1, <1>2, <3>1, <3>2, <3>3
  <2> QED BY <2>1, <2>2
<1>3. ASSUME NEW t \in RailTasks, Records!Publish(t), railFiles'[i] # railFiles[i]
      PROVE  FileInv(i)'
  <2>1. PICK r, x : r = wanted[t] /\ x = drafted[t]
    OBVIOUS
  <2>2. r \in RailRequests /\ RecordFor(r, x) /\ BytesStored(r)
    BY <1>3, <2>1 DEF Records!Publish, Records!At, RailTypeOK, DraftInv
  <2>3. railFiles' = [railFiles EXCEPT ![r.id] = x]
    BY <1>3, <2>1 DEF Records!Publish
  <2>4. railFiles'[i] = x
    BY <1>3, <2>3 DEF RailTypeOK
  <2> QED BY <1>1, <2>2, <2>4
<1>4. ASSUME ~ \E t \in RailTasks : Records!Publish(t)
      PROVE  railFiles' = railFiles
  BY <1>4
     DEF Records!Next, Records!Request, Records!Depend, Records!Lookup, Records!Compile,
         Records!StoreBytes, Records!Confirm, Records!Winner, Records!Fail, Records!railVars
<1> QED BY <1>2, <1>3, <1>4

LEMMA RailAnswers ==
  ASSUME Records!RailAssumption, RailInv, RailGrows, [Records!Next]_(Records!railVars)
  PROVE  \A said \in railTold' : ToldInv(said)'
<1> USE DEF RailInv
<1>1. \A said \in railTold : ToldInv(said)'
  BY RailIdsAre DEF ToldInv, RailGrows
<1>2. CASE railTold' = railTold
  BY <1>1, <1>2
<1>3. ASSUME NEW t \in RailTasks, NEW x, Records!Answer(t, x), ~ Records!At(t, "idle"),
             x # Nil, x.request = wanted[t], railFiles'[wanted[t].id] = x
      PROVE  \A said \in railTold' : ToldInv(said)'
  <2>1. PICK new : new = <<wanted[t], x>>
    OBVIOUS
  <2>2. railTold' = railTold \cup {new}
    BY <1>3, <2>1 DEF Records!Answer
  <2>3. ToldInv(new)'
    BY <1>3, <2>1 DEF ToldInv, RailTypeOK
  <2> QED BY <1>1, <2>2, <2>3
<1>4. ASSUME NEW t \in RailTasks, Records!Lookup(t) \/ Records!Confirm(t) \/ Records!Winner(t)
      PROVE  \A said \in railTold' : ToldInv(said)'
  <2>1. ~ Records!At(t, "idle") /\ railFiles' = railFiles
    BY <1>4 DEF Records!Lookup, Records!Confirm, Records!Winner, Records!At
  <2>2. Records!At(t, "confirm") => drafted[t] # Nil /\ drafted[t].request = wanted[t]
    BY DEF DraftInv, RecordFor, Records!RailAssumption, Records!At
  <2>3. \/ railTold' = railTold
        \/ /\ Records!Answer(t, railFiles[wanted[t].id])
           /\ railFiles[wanted[t].id] # Nil /\ railFiles[wanted[t].id].request = wanted[t]
    BY <1>4, <2>2
       DEF Records!Lookup, Records!Confirm, Records!Winner, Records!Refuse, Records!Proceed
  <2> QED BY <1>2, <1>3, <2>1, <2>3
<1>5. ASSUME NEW t \in RailTasks, Records!Publish(t)
      PROVE  \A said \in railTold' : ToldInv(said)'
  <2>1. /\ ~ Records!At(t, "idle") /\ drafted[t] # Nil /\ drafted[t].request = wanted[t]
        /\ wanted[t] \in RailRequests /\ wanted[t].id \in Records!RailIds
    BY <1>5, RailIdsAre
       DEF Records!Publish, Records!At, DraftInv, RecordFor, Records!RailAssumption, RailTypeOK
  <2>2. \/ railTold' = railTold
        \/ Records!Answer(t, drafted[t])
             /\ railFiles' = [railFiles EXCEPT ![wanted[t].id] = drafted[t]]
    BY <1>5 DEF Records!Publish, Records!Proceed
  <2>3. CASE Records!Answer(t, drafted[t])
               /\ railFiles' = [railFiles EXCEPT ![wanted[t].id] = drafted[t]]
    <3>1. railFiles'[wanted[t].id] = drafted[t]
      BY <2>1, <2>3 DEF RailTypeOK
    <3> QED BY <1>3, <2>1, <2>3, <3>1
  <2> QED BY <1>2, <2>2, <2>3
<1>6. ASSUME ~ \E t \in RailTasks : Records!Lookup(t) \/ Records!Confirm(t) \/ Records!Winner(t)
               \/ Records!Publish(t)
      PROVE  railTold' = railTold
  BY <1>6
     DEF Records!Next, Records!Request, Records!Depend, Records!Compile, Records!StoreBytes,
         Records!Fail, Records!Refuse, Records!Proceed, Records!railVars
<1> QED BY <1>2, <1>4, <1>5, <1>6

LEMMA RailInvInductive == ASSUME Records!RailAssumption PROVE Records!Spec => []RailInv
<1>1. Records!Init => RailInv
  BY DEF Records!Init, RailInv, RailTypeOK, RailPlaces, DraftInv, Depended, FileInv, Records!At
<1>2. RailInv /\ [Records!Next]_(Records!railVars) => RailInv'
  <2> SUFFICES ASSUME RailInv, [Records!Next]_(Records!railVars) PROVE RailInv'
    OBVIOUS
  <2>1. RailTypeOK' /\ RailGrows
    BY RailFiles
  <2>2. rail' = rail
    BY DEF Records!Next, Records!Request, Records!Depend, Records!Lookup, Records!Compile,
           Records!StoreBytes, Records!Publish, Records!Confirm, Records!Winner, Records!Fail,
       Records!railVars
  <2>3. \A t \in RailTasks : DraftInv(t)'
    BY <2>1, <2>2, Drafts
  <2>4. \A i \in Records!RailIds : FileInv(i)'
    BY <2>1, PublishedRecords
  <2>5. \A said \in railTold' : ToldInv(said)'
    BY <2>1, RailAnswers
  <2> QED BY <2>1, <2>3, <2>4, <2>5 DEF RailInv
<1> QED BY <1>1, <1>2, PTL DEF Records!Spec

\* For any number of calls, any requests and contents, and whatever crash or
\* concurrent call came between: each record that is stored passes its
\* inspection, so do all it was made of, and what callers were told is that
\* record.
THEOREM RecordsAreInspected ==
  ASSUME Records!RailAssumption
  PROVE  Records!Spec => []Records!RecordsInspect
<1>1. RailInv => Records!RecordsInspect
  <2>1. ASSUME RailInv, NEW i \in Records!RailIds, railFiles[i] # Nil
        PROVE  Records!Inspects(i)
    <3>1. /\ Records!Dependencies(railFiles[i].request) /\ BytesStored(railFiles[i].request)
          /\ Records!Recomputes(i)
      BY <2>1 DEF RailInv, FileInv, RecordFor, Records!Recomputes
    <3>2. CASE railFiles[i].request.kind = "ACQUIRE"
      BY <2>1, <3>1, <3>2 DEF Records!Inspects, Records!Acquired, Records!Dependencies, BytesStored
    <3>3. CASE railFiles[i].request.kind # "ACQUIRE"
      BY <3>1, <3>3 DEF Records!Inspects
    <3> QED BY <3>2, <3>3
  <2> QED BY <2>1 DEF RailInv, ToldInv, Records!RecordsInspect
<1> QED BY <1>1, RailInvInductive, PTL

-----------------------------------------------------------------------------
(* ProductionWorkers. The slots that are held.                             *)

\* The cardinality of the instance is that of the library.
LEMMA WorkersCount == \A S : Workers!Cardinality(S) = Cardinality(S)
BY DEF Workers!Cardinality, Cardinality

\* The calls whose slot has not been given back.
SlotHolders == {c \in Calls : ~ exited[c]}

\* The counter counts the calls that hold a slot, and whoever has a child holds
\* one.
WorkersInv ==
  /\ worker \in [Calls -> {"none", "failed", "alive", "ended"}]
  /\ exited \in [Calls -> BOOLEAN]
  /\ IsFiniteSet(SlotHolders)
  /\ active = Cardinality(SlotHolders)
  /\ active <= MaxWorkers
  /\ \A c \in Calls : worker[c] \in {"alive", "ended"} => ~ exited[c]
  /\ \A c \in Calls : worker[c] = "none" => exited[c]

LEMMA SlotTaken ==
  ASSUME WorkersInv, NEW c \in Calls, exited[c],
         exited' = [exited EXCEPT ![c] = FALSE], active' = active + 1
  PROVE  IsFiniteSet(SlotHolders)' /\ active' = Cardinality(SlotHolders)'
<1>1. SlotHolders' = SlotHolders \cup {c} /\ c \notin SlotHolders  BY DEF WorkersInv, SlotHolders
<1> QED  BY <1>1, FS_AddElement DEF WorkersInv

LEMMA SlotGivenBack ==
  ASSUME WorkersInv, NEW c \in Calls, Workers!Release(c)
  PROVE  /\ IsFiniteSet(SlotHolders)' /\ active' = Cardinality(SlotHolders)'
         /\ active' \in Nat /\ active' <= active
<1>0. active \in Nat  BY FS_CardinalityType DEF WorkersInv
<1>1. CASE exited[c]
  <2>1. exited' = exited /\ active' = active  BY <1>1 DEF Workers!Release, WorkersInv
  <2> QED  BY <1>0, <2>1 DEF WorkersInv, SlotHolders
<1>2. CASE ~ exited[c]
  <2>1. SlotHolders' = SlotHolders \ {c} /\ c \in SlotHolders
    BY <1>2 DEF Workers!Release, WorkersInv, SlotHolders
  <2>2. active' = active - 1  BY <1>2 DEF Workers!Release
  <2>3. IsFiniteSet(SlotHolders) /\ active = Cardinality(SlotHolders)  BY DEF WorkersInv
  <2>4. /\ IsFiniteSet(SlotHolders \ {c})
        /\ Cardinality(SlotHolders \ {c}) = Cardinality(SlotHolders) - 1
    BY <2>1, <2>3, FS_RemoveElement
  <2>5. Cardinality(SlotHolders \ {c}) \in Nat  BY <2>4, FS_CardinalityType
  <2> QED  BY <1>0, <2>1, <2>2, <2>3, <2>4, <2>5
<1> QED  BY <1>1, <1>2 DEF WorkersInv

LEMMA SlotsKept ==
  ASSUME WorkersInv, UNCHANGED <<active, exited>>
  PROVE  /\ IsFiniteSet(SlotHolders)' /\ active' = Cardinality(SlotHolders)'
              /\ active' <= MaxWorkers
         /\ exited' \in [Calls -> BOOLEAN]
BY DEF WorkersInv, SlotHolders

LEMMA WorkersInitInv == ASSUME Workers!WorkersAssumption, Workers!Init PROVE WorkersInv
<1>1. SlotHolders = {}  BY DEF Workers!Init, SlotHolders
<1> QED  BY <1>1, FS_EmptySet DEF Workers!Init, WorkersInv, Workers!WorkersAssumption

LEMMA WorkersNextInv ==
  ASSUME Workers!WorkersAssumption, WorkersInv, [Workers!Next]_(Workers!workerVars)
  PROVE  WorkersInv'
<1>0. active \in Nat  BY FS_CardinalityType DEF WorkersInv
<1>1. ASSUME NEW c \in Calls, Workers!Run(c) PROVE WorkersInv'
  <2>0. exited[c]  BY <1>1 DEF WorkersInv, Workers!Run
  <2>1. CASE UNCHANGED <<active, worker, printed, exited>>
    BY <2>1, SlotsKept DEF WorkersInv
  <2>2. CASE active < MaxWorkers /\ active' = active + 1
             /\ (\E ended \in {"alive", "failed"} : worker' = [worker EXCEPT ![c] = ended])
             /\ exited' = [exited EXCEPT ![c] = FALSE]
    <3>1. IsFiniteSet(SlotHolders)' /\ active' = Cardinality(SlotHolders)'
      BY <2>0, <2>2, SlotTaken
    <3>2. active' <= MaxWorkers  BY <1>0, <2>2 DEF Workers!WorkersAssumption
    <3>3. PICK ended \in {"alive", "failed"} : worker' = [worker EXCEPT ![c] = ended]  BY <2>2
    <3> QED  BY <2>2, <3>1, <3>2, <3>3 DEF WorkersInv
  <2> QED  BY <1>1, <2>1, <2>2 DEF Workers!Run
<1>2. ASSUME NEW c \in Calls, Workers!TimeOut(c) \/ Workers!Data(c) PROVE WorkersInv'
  <2>1. UNCHANGED <<active, worker, exited>>  BY <1>2 DEF Workers!TimeOut, Workers!Data
  <2> QED  BY <2>1, SlotsKept DEF WorkersInv
<1>3. ASSUME NEW c \in Calls, Workers!Exit(c) PROVE WorkersInv'
  BY <1>3, SlotsKept DEF WorkersInv, Workers!Exit
<1>4. ASSUME NEW c \in Calls, Workers!Error(c) \/ Workers!Close(c) PROVE WorkersInv'
  <2>1. Workers!Release(c)  BY <1>4 DEF Workers!Error, Workers!Close
  <2>2. /\ IsFiniteSet(SlotHolders)' /\ active' = Cardinality(SlotHolders)'
        /\ active' \in Nat /\ active' <= active
    BY <2>1, SlotGivenBack
  <2>3. active' <= MaxWorkers  BY <1>0, <2>2 DEF WorkersInv, Workers!WorkersAssumption
  <2>4. exited' = [exited EXCEPT ![c] = TRUE]  BY <2>1 DEF Workers!Release
  <2>5. \/ worker' = worker /\ worker[c] = "failed"
        \/ worker' = [worker EXCEPT ![c] = "none"]
    BY <1>4 DEF Workers!Error, Workers!Close
  <2> QED  BY <2>2, <2>3, <2>4, <2>5 DEF WorkersInv
<1>5. CASE UNCHANGED Workers!workerVars
  BY <1>5, SlotsKept DEF WorkersInv, Workers!workerVars
<1> QED  BY <1>1, <1>2, <1>3, <1>4, <1>5 DEF Workers!Next

LEMMA WorkersInvHasSlots == ASSUME WorkersInv PROVE Workers!SlotsAreChildren
<1>1. Workers!Children("alive") \subseteq SlotHolders
  BY DEF Workers!Children, SlotHolders, WorkersInv
<1>2. Cardinality(Workers!Children("alive")) <= active  BY <1>1, FS_Subset DEF WorkersInv
<1>3. ASSUME Workers!Children("none") = Calls PROVE active = 0
  <2>1. SlotHolders = {}  BY <1>3 DEF Workers!Children, SlotHolders, WorkersInv
  <2> QED  BY <2>1, FS_EmptySet DEF WorkersInv
<1> QED  BY WorkersCount, <1>2, <1>3 DEF Workers!SlotsAreChildren, WorkersInv

\* For any number of calls and any limit: the counter of workers counts the
\* children that have not been reaped, and never exceeds the limit, whether a
\* child fails to start, is killed at its timeout, or answers first.
THEOREM SlotsCountChildren ==
  ASSUME Workers!WorkersAssumption PROVE Workers!Spec => []Workers!SlotsAreChildren
<1>1. Workers!Init => WorkersInv  BY WorkersInitInv
<1>2. WorkersInv /\ [Workers!Next]_(Workers!workerVars) => WorkersInv'  BY WorkersNextInv
<1>3. WorkersInv => Workers!SlotsAreChildren  BY WorkersInvHasSlots
<1> QED  BY <1>1, <1>2, <1>3, PTL DEF Workers!Spec

-----------------------------------------------------------------------------
(* SourceContact. The deadline, the lookup, the request and the response of *)
(* a contact.                                                              *)

\* What a contact may fail with.
Failures ==
  {"TIMEOUT", "DNS_FAILED", "DESTINATION_DISALLOWED", "NETWORK_FAILED",
   "TLS_CONFIGURATION_DISALLOWED",
   "INVALID_RESPONSE", "BODY_TOO_LARGE"}

ContactTypeOK ==
  /\ connector \in {"census", "samsara"} /\ verifying \in BOOLEAN
  /\ contactOutcome \in {"pending", "resolved"} \cup Failures
  /\ deadline \in {"armed", "cleared", "fired"} /\ lookup \in BOOLEAN
  /\ outgoing \in {"none", "open", "destroyed"}
  /\ incoming \in Connection!Bodies \cup {Nil}

\* Nothing is opened before the name server has answered, and what is open is
\* of a contact that is pending or has its whole body.
ContactInv ==
  /\ ContactTypeOK
  /\ deadline = "armed" <=> contactOutcome = "pending"
  /\ lookup => outgoing = "none"
  /\ outgoing = "none" => incoming = Nil
  /\ incoming # Nil /\ incoming.complete => incoming.size = incoming.whole
  /\ contactOutcome = "resolved" => incoming # Nil /\ incoming.complete /\ ~ incoming.open
  /\ contactOutcome \notin Failures /\ incoming # Nil => incoming.size <= MaxBytes
  /\ contactOutcome \in Failures => outgoing # "open" /\ (incoming # Nil => ~ incoming.open)
  /\ ~ exposed

LEMMA BodyFields ==
  ASSUME NEW in \in Connection!Bodies
  PROVE  /\ in.open \in BOOLEAN /\ in.streaming \in BOOLEAN /\ in.size \in Connection!Lengths
         /\ in.whole \in Connection!Lengths /\ in.complete \in BOOLEAN
              /\ in.expected \in Connection!Lengths \cup {Nil}
         /\ [in EXCEPT !.open = FALSE] \in Connection!Bodies
         /\ [in EXCEPT !.open = FALSE].complete = in.complete
         /\ [in EXCEPT !.open = FALSE].size = in.size
         /\ [in EXCEPT !.open = FALSE].whole = in.whole
         /\ [in EXCEPT !.open = FALSE].open = FALSE
BY DEF Connection!Bodies

\* A failure settles a contact that is pending and leaves nothing open.
LEMMA ContactFails ==
  ASSUME Connection!ContactAssumption, ContactInv, NEW code \in Failures,
         NEW in \in Connection!Bodies \cup {Nil},
         Connection!Fail(code, in), UNCHANGED <<connector, verifying, exposed>>,
         lookup' = lookup \/ lookup' = FALSE,
         outgoing = "none" => in = Nil,
         in # Nil /\ in.complete => in.size = in.whole,
         contactOutcome # "pending" => in = incoming
  PROVE  ContactInv'
<1>1. CASE contactOutcome # "pending"
  <2>1. UNCHANGED <<contactOutcome, deadline, outgoing, incoming>>
    BY <1>1 DEF Connection!Fail
  <2>2. CASE lookup' = lookup
    BY <2>1, <2>2 DEF ContactInv, ContactTypeOK
  <2>3. CASE lookup' = FALSE
    BY <2>1, <2>3 DEF ContactInv, ContactTypeOK
  <2> QED BY <2>2, <2>3
<1>2. CASE contactOutcome = "pending"
  <2>1. /\ contactOutcome' = code /\ deadline' \in {"fired", "cleared"}
             /\ outgoing' = Connection!Destroyed(outgoing)
        /\ incoming' = Connection!Closed(in)
    BY <1>2 DEF Connection!Fail
  <2>2. /\ incoming' \in Connection!Bodies \cup {Nil}
        /\ incoming' # Nil => ~ incoming'.open
             /\ (incoming'.complete => incoming'.size = incoming'.whole)
        /\ in = Nil => incoming' = Nil
    BY <2>1, BodyFields DEF Connection!Closed, Connection!ContactAssumption
  <2>3. /\ outgoing' \in {"none", "destroyed"} /\ (outgoing' = "none" <=> outgoing = "none")
        /\ lookup' => outgoing' = "none"
    BY <2>1 DEF Connection!Destroyed, ContactInv, ContactTypeOK
  <2>4. contactOutcome' \notin {"pending", "resolved"}
    BY <2>1 DEF Failures
  <2> QED BY <2>1, <2>2, <2>3, <2>4 DEF ContactInv, ContactTypeOK
<1> QED BY <1>1, <1>2

\* A step that settles nothing.
LEMMA ContactGoesOn ==
  ASSUME Connection!ContactAssumption, ContactInv, NEW in \in Connection!Bodies \cup {Nil},
         incoming' = in,
         UNCHANGED <<connector, verifying, contactOutcome, deadline, lookup, outgoing, exposed>>,
         outgoing = "none" => in = Nil,
         in # Nil /\ in.complete => in.size = in.whole,
         contactOutcome # "pending" /\ in # Nil => ~ in.open,
         contactOutcome = "resolved" => in # Nil /\ in.complete,
         contactOutcome \notin Failures /\ in # Nil => in.size <= MaxBytes
  PROVE  ContactInv'
BY DEF ContactInv, ContactTypeOK, Failures

LEMMA ContactStays ==
  ASSUME Connection!ContactAssumption, ContactInv, [Connection!Next]_(Connection!cvars)
  PROVE  ContactInv'
<1> USE DEF ContactInv
<1>1. CASE Connection!Deadline
  BY <1>1, ContactFails DEF Connection!Deadline, ContactTypeOK, Failures
<1>2. CASE Connection!LookedUp
  <2>1. CASE contactOutcome # "pending"
    BY <1>2, <2>1 DEF Connection!LookedUp, ContactTypeOK
  <2>2. ASSUME NEW code \in Failures, Connection!Fail(code, incoming), UNCHANGED exposed
        PROVE  ContactInv'
    BY <1>2, <2>2, ContactFails DEF Connection!LookedUp, ContactTypeOK
  <2>3. CASE /\ contactOutcome = "pending"
             /\ connector = "samsara" => verifying
             /\ outgoing' = "open"
             /\ exposed' = (connector = "samsara" /\ ~verifying)
             /\ UNCHANGED <<contactOutcome, deadline, incoming>>
    <3>1. exposed' = FALSE /\ incoming = Nil /\ lookup' = FALSE
      BY <1>2, <2>3 DEF Connection!LookedUp
    <3> QED BY <1>2, <2>3, <3>1 DEF Connection!LookedUp, ContactTypeOK, Failures
  <2> QED BY <1>2, <2>1, <2>2, <2>3 DEF Connection!LookedUp, Failures
<1>3. CASE Connection!RequestError
  BY <1>3, ContactFails DEF Connection!RequestError, ContactTypeOK, Failures
<1>4. CASE Connection!Response
  <2>1. PICK acceptable \in BOOLEAN, declares \in BOOLEAN, whole \in Connection!Lengths :
          LET in == [ open |-> TRUE, streaming |-> FALSE, size |-> 0, whole |-> whole,
                      complete |-> FALSE, expected |-> IF declares THEN whole ELSE Nil ]
          IN IF contactOutcome # "pending"
             THEN incoming' = Connection!Closed(in) /\ UNCHANGED <<contactOutcome, deadline, outgoing>>
             ELSE IF ~acceptable THEN Connection!Fail("INVALID_RESPONSE", in)
             ELSE IF declares /\ whole > MaxBytes THEN Connection!Fail("BODY_TOO_LARGE", in)
             ELSE /\ incoming' = [in EXCEPT !.streaming = TRUE]
                  /\ UNCHANGED <<contactOutcome, deadline, outgoing>>
    BY <1>4 DEF Connection!Response
  <2>2. PICK in : in = [ open |-> TRUE, streaming |-> FALSE, size |-> 0, whole |-> whole,
                         complete |-> FALSE, expected |-> IF declares THEN whole ELSE Nil ]
    OBVIOUS
  <2>3. in \in Connection!Bodies /\ in # Nil /\ in.complete = FALSE /\ in.size <= MaxBytes
    <3>1. 0 \in Connection!Lengths
      BY DEF Connection!ContactAssumption, Connection!Lengths
    <3>2. (IF declares THEN whole ELSE Nil) \in Connection!Lengths \cup {Nil}
      OBVIOUS
    <3>3. in \in Connection!Bodies
      BY <2>2, <3>1, <3>2 DEF Connection!Bodies
    <3>4. in # Nil
      BY <3>3 DEF Connection!ContactAssumption
    <3>5. in.size <= MaxBytes
      BY <2>2 DEF Connection!ContactAssumption
    <3> QED BY <2>2, <3>3, <3>4, <3>5
  <2>4. /\ outgoing # "none" /\ incoming = Nil
        /\ UNCHANGED <<connector, verifying, lookup, exposed>>
    BY <1>4 DEF Connection!Response
  <2>5. CASE contactOutcome # "pending" /\ incoming' = Connection!Closed(in)
               /\ UNCHANGED <<contactOutcome, deadline, outgoing>>
    <3>1. Connection!Closed(in) \in Connection!Bodies /\ Connection!Closed(in).open = FALSE
            /\ Connection!Closed(in).complete = FALSE
          /\ Connection!Closed(in).size <= MaxBytes
      BY <2>3, BodyFields DEF Connection!Closed
    <3> QED BY <2>4, <2>5, <3>1, ContactGoesOn
  <2>6. ASSUME NEW code \in Failures, Connection!Fail(code, in), contactOutcome = "pending"
        PROVE  ContactInv'
    BY <2>3, <2>4, <2>6, ContactFails
  <2>7. CASE /\ contactOutcome = "pending" /\ incoming' = [in EXCEPT !.streaming = TRUE]
             /\ UNCHANGED <<contactOutcome, deadline, outgoing>>
    <3>1. [in EXCEPT !.streaming = TRUE] \in Connection!Bodies
            /\ [in EXCEPT !.streaming = TRUE].complete = FALSE
          /\ [in EXCEPT !.streaming = TRUE].size <= MaxBytes
      BY <2>3 DEF Connection!Bodies
    <3> QED BY <2>4, <2>7, <3>1, ContactGoesOn
  <2> QED BY <2>1, <2>2, <2>5, <2>6, <2>7 DEF Failures
<1>5. CASE Connection!ResponseLost
  BY <1>5, ContactFails DEF Connection!ResponseLost, ContactTypeOK, Failures
<1>6. ASSUME NEW n \in 1 .. 2, Connection!Data(n)
      PROVE  ContactInv'
  <2>1. /\ incoming \in Connection!Bodies /\ ~ incoming.complete /\ contactOutcome = "pending"
        /\ incoming.size + n <= incoming.whole
        /\ UNCHANGED <<connector, verifying, lookup, exposed>>
        /\ outgoing # "none"
    BY <1>6 DEF Connection!Data, ContactTypeOK
  <2>2. PICK in : in = [incoming EXCEPT !.size = @ + n]
    OBVIOUS
  <2>3. in \in Connection!Bodies /\ in.complete = incoming.complete
    <3>1. incoming.size + n \in Connection!Lengths
      <4>1. incoming.size \in Connection!Lengths /\ incoming.whole \in Connection!Lengths
        BY <2>1, BodyFields
      <4> HIDE DEF ContactInv
      <4> QED BY <2>1, <4>1 DEF Connection!Lengths, Connection!ContactAssumption
    <3> QED BY <2>1, <2>2, <3>1 DEF Connection!Bodies
  <2>4. IF in.size > MaxBytes THEN Connection!Fail("BODY_TOO_LARGE", in)
        ELSE incoming' = in /\ UNCHANGED <<contactOutcome, deadline, outgoing>>
    BY <1>6, <2>2 DEF Connection!Data
  <2>5. CASE in.size > MaxBytes
    BY <2>1, <2>3, <2>4, <2>5, ContactFails DEF Failures
  <2>6. CASE ~ (in.size > MaxBytes)
    <3>1. in.size <= MaxBytes
      <4>1. in.size \in Connection!Lengths
        BY <2>3, BodyFields
      <4> HIDE DEF ContactInv
      <4> QED BY <2>6, <4>1 DEF Connection!Lengths, Connection!ContactAssumption
    <3> QED BY <2>1, <2>3, <2>4, <2>6, <3>1, ContactGoesOn
  <2> QED BY <2>5, <2>6
<1>7. CASE Connection!MessageComplete
  <2>1. /\ incoming \in Connection!Bodies /\ incoming.open /\ incoming.size = incoming.whole
        /\ incoming' = [incoming EXCEPT !.complete = TRUE]
        /\ UNCHANGED <<connector, verifying, contactOutcome, deadline, lookup, outgoing, exposed>>
    BY <1>7 DEF Connection!MessageComplete, ContactTypeOK
  <2>2. PICK in : in = [incoming EXCEPT !.complete = TRUE]
    OBVIOUS
  <2>3. /\ in \in Connection!Bodies /\ in.complete /\ in.size = in.whole /\ in.size = incoming.size
    BY <2>1, <2>2 DEF Connection!Bodies
  <2>4. contactOutcome = "pending"
    BY <2>1 DEF ContactTypeOK, Connection!ContactAssumption
  <2>5. incoming.size <= MaxBytes
    BY <2>1, <2>4 DEF Failures, Connection!ContactAssumption
  <2> QED BY <2>1, <2>2, <2>3, <2>4, <2>5, ContactGoesOn DEF Connection!ContactAssumption
<1>8. CASE Connection!End
  <2>1. /\ incoming \in Connection!Bodies /\ contactOutcome = "pending" /\ outgoing # "none"
        /\ UNCHANGED <<connector, verifying, lookup, exposed>>
        /\ \/ Connection!Fail("INVALID_RESPONSE", incoming)
           \/ /\ incoming.complete /\ contactOutcome' = "resolved" /\ deadline' = "cleared"
              /\ incoming' = [incoming EXCEPT !.open = FALSE] /\ UNCHANGED outgoing
    BY <1>8 DEF Connection!End, ContactTypeOK
  <2>2. CASE Connection!Fail("INVALID_RESPONSE", incoming)
    BY <2>1, <2>2, ContactFails DEF Failures
  <2>3. CASE /\ incoming.complete /\ contactOutcome' = "resolved" /\ deadline' = "cleared"
             /\ incoming' = [incoming EXCEPT !.open = FALSE] /\ UNCHANGED outgoing
    <3>1. /\ incoming' \in Connection!Bodies /\ incoming' # Nil /\ incoming'.complete
               /\ ~ incoming'.open
          /\ incoming'.size = incoming'.whole /\ incoming'.size = incoming.size
      BY <2>1, <2>3, BodyFields DEF Connection!ContactAssumption
    <3>2. incoming.size <= MaxBytes
      BY <2>1 DEF Failures, Connection!ContactAssumption
    <3> QED BY <2>1, <2>3, <3>1, <3>2 DEF ContactTypeOK, Failures
  <2> QED BY <2>1, <2>2, <2>3
<1>9. CASE Connection!ChangeVerification
  BY <1>9 DEF Connection!ChangeVerification, ContactTypeOK
<1>10. CASE UNCHANGED Connection!cvars
  BY <1>10 DEF Connection!cvars, ContactTypeOK
<1> QED BY <1>1, <1>2, <1>3, <1>4, <1>5, <1>6, <1>7, <1>8, <1>9, <1>10 DEF Connection!Next

\* However lookups, requests, responses and the deadline interleave, and for
\* any limit on the bytes: a contact that has ended leaves no timer, no socket
\* and no listener behind, and one that has resolved has received the whole
\* body within the limit.
THEOREM ContactLeavesNothing ==
  ASSUME Connection!ContactAssumption
  PROVE  Connection!Spec => []Connection!ContactsEndClean
<1>1. Connection!Init => ContactInv
  BY DEF Connection!Init, ContactInv, ContactTypeOK, Failures
<1>2. ContactInv /\ [Connection!Next]_(Connection!cvars) => ContactInv'
  BY ContactStays
<1>3. ContactInv => Connection!ContactsEndClean
  <2> SUFFICES ASSUME ContactInv PROVE Connection!ContactsEndClean
    OBVIOUS
  <2>1. contactOutcome \notin {"pending", "resolved"} => contactOutcome \in Failures
    BY DEF ContactInv, ContactTypeOK
  <2>2. contactOutcome = "resolved" => contactOutcome \notin Failures
    BY DEF Failures
  <2> QED BY <2>1, <2>2 DEF ContactInv, Connection!ContactsEndClean
<1> QED BY <1>1, <1>2, <1>3, PTL DEF Connection!Spec

-----------------------------------------------------------------------------
(* Services.  Whichever part runs keeps to its own specification, and the   *)
(* others do nothing: what was proved of each holds of them together.       *)

\* If the part that runs is the inspector, then its specification is satisfied;
\* and so on.
LEMMA PartIsAudits ==
  PartSpec => (part = "audits" /\ Audits!Spec) \/ []~ (part = "audits")
<1>1. PartInit /\ part = "audits" => Audits!Init
  BY DEF PartInit
<1>2. part = "audits" /\ [PartNext]_partVars
        => (part = "audits")' /\ [Audits!Next]_(Audits!gatVars)
  <2>1. UNCHANGED partVars => UNCHANGED part /\ UNCHANGED Audits!gatVars
    BY DEF partVars, auditVars, Audits!gatVars, Audits!gatFiles, Audits!gatLocals, Audits!gatHistory
  <2> QED BY <2>1 DEF PartNext
<1>3. ~ (part = "audits") /\ [PartNext]_partVars => ~ (part = "audits")'
  BY DEF PartNext, partVars
<1> QED BY <1>1, <1>2, <1>3, PTL DEF PartSpec, Audits!Spec

LEMMA PartIsRuns ==
  PartSpec => (part = "runs" /\ Runs!Spec) \/ []~ (part = "runs")
<1>1. PartInit /\ part = "runs" => Runs!Init
  BY DEF PartInit
<1>2. part = "runs" /\ [PartNext]_partVars
        => (part = "runs")' /\ [Runs!Next]_(Runs!runVars)
  <2>1. UNCHANGED partVars => UNCHANGED part /\ UNCHANGED Runs!runVars
    BY DEF partVars, runVars, Runs!runVars, Runs!runLocals
  <2> QED BY <2>1 DEF PartNext
<1>3. ~ (part = "runs") /\ [PartNext]_partVars => ~ (part = "runs")'
  BY DEF PartNext, partVars
<1> QED BY <1>1, <1>2, <1>3, PTL DEF PartSpec, Runs!Spec

LEMMA PartIsAnalyses ==
  PartSpec => (part = "analyses" /\ Analyses!Spec) \/ []~ (part = "analyses")
<1>1. PartInit /\ part = "analyses" => Analyses!Init
  BY DEF PartInit
<1>2. part = "analyses" /\ [PartNext]_partVars
        => (part = "analyses")' /\ [Analyses!Next]_(Analyses!spatialVars)
  <2>1. UNCHANGED partVars => UNCHANGED part /\ UNCHANGED Analyses!spatialVars
    BY DEF partVars, analysisVars, Analyses!spatialVars, Analyses!spatialFiles, Analyses!spatialLocals
  <2> QED BY <2>1 DEF PartNext
<1>3. ~ (part = "analyses") /\ [PartNext]_partVars => ~ (part = "analyses")'
  BY DEF PartNext, partVars
<1> QED BY <1>1, <1>2, <1>3, PTL DEF PartSpec, Analyses!Spec

LEMMA PartIsRecords ==
  PartSpec => (part = "records" /\ Records!Spec) \/ []~ (part = "records")
<1>1. PartInit /\ part = "records" => Records!Init
  BY DEF PartInit
<1>2. part = "records" /\ [PartNext]_partVars
        => (part = "records")' /\ [Records!Next]_(Records!railVars)
  <2>1. UNCHANGED partVars => UNCHANGED part /\ UNCHANGED Records!railVars
    BY DEF partVars, recordVars, Records!railVars, Records!railLocals
  <2> QED BY <2>1 DEF PartNext
<1>3. ~ (part = "records") /\ [PartNext]_partVars => ~ (part = "records")'
  BY DEF PartNext, partVars
<1> QED BY <1>1, <1>2, <1>3, PTL DEF PartSpec, Records!Spec

LEMMA PartIsWorkers ==
  PartSpec => (part = "workers" /\ Workers!Spec) \/ []~ (part = "workers")
<1>1. PartInit /\ part = "workers" => Workers!Init
  BY DEF PartInit
<1>2. part = "workers" /\ [PartNext]_partVars
        => (part = "workers")' /\ [Workers!Next]_(Workers!workerVars)
  <2>1. UNCHANGED partVars => UNCHANGED part /\ UNCHANGED Workers!workerVars
    BY DEF partVars, workerVars, Workers!workerVars
  <2> QED BY <2>1 DEF PartNext
<1>3. ~ (part = "workers") /\ [PartNext]_partVars => ~ (part = "workers")'
  BY DEF PartNext, partVars
<1> QED BY <1>1, <1>2, <1>3, PTL DEF PartSpec, Workers!Spec

LEMMA PartIsContact ==
  PartSpec => (part = "contact" /\ Connection!Spec) \/ []~ (part = "contact")
<1>1. PartInit /\ part = "contact" => Connection!Init
  BY DEF PartInit
<1>2. part = "contact" /\ [PartNext]_partVars
        => (part = "contact")' /\ [Connection!Next]_(Connection!cvars)
  <2>1. UNCHANGED partVars => UNCHANGED part /\ UNCHANGED Connection!cvars
    BY DEF partVars, contactVars, Connection!cvars
  <2> QED BY <2>1 DEF PartNext
<1>3. ~ (part = "contact") /\ [PartNext]_partVars => ~ (part = "contact")'
  BY DEF PartNext, partVars
<1> QED BY <1>1, <1>2, <1>3, PTL DEF PartSpec, Connection!Spec

\* For any number of audits, requests, sources and contents: whoever is killed,
\* and whenever, at most one IFC engine runs at a time, unless the lock of a
\* running audit was removed.
THEOREM OneEngineAtATime == PartSpec => []OneEngine
<1>1. Audits!Spec => []Audits!OneEngine
  BY PartsAssumption, AuditsHaveOneEngine DEF PartsAssumption
<1>2. (part = "audits" => Audits!OneEngine) => OneEngine
  BY DEF OneEngine
<1> QED BY <1>1, <1>2, PartIsAudits, PTL

\* For any calls, requests and contents, and whatever crash or concurrent call
\* came between: each record on the evidence rail passes its inspection, so
\* does all it was made of, and callers were told that record.
THEOREM RailRecordsInspect == PartSpec => []RecordsInspect
<1>1. Records!Spec => []Records!RecordsInspect
  BY PartsAssumption, RecordsAreInspected DEF PartsAssumption
<1>2. (part = "records" => Records!RecordsInspect) => RecordsInspect
  BY DEF RecordsInspect
<1> QED BY <1>1, <1>2, PartIsRecords, PTL

\* For any calls of the four compute stores: callers that are told a run of the
\* same request are told the same run, and never that of another request.
THEOREM RunsAreUnique == PartSpec => []OneRunPerRequest
<1>1. Runs!Spec => []Runs!OneRunPerRequest
  BY PartsAssumption, CallersAreToldOneRun DEF PartsAssumption
<1>2. (part = "runs" => Runs!OneRunPerRequest) => OneRunPerRequest
  BY DEF OneRunPerRequest
<1> QED BY <1>1, <1>2, PartIsRuns, PTL

\* For any number of calls and any limit: the counter of workers counts the
\* children that have not been reaped, and never exceeds the limit.
THEOREM WorkersHaveSlots == PartSpec => []SlotsAreChildren
<1>1. Workers!Spec => []Workers!SlotsAreChildren
  BY PartsAssumption, SlotsCountChildren DEF PartsAssumption
<1>2. (part = "workers" => Workers!SlotsAreChildren) => SlotsAreChildren
  BY DEF SlotsAreChildren
<1> QED BY <1>1, <1>2, PartIsWorkers, PTL

\* However lookups, requests, responses and the deadline interleave, and for
\* any limit on the bytes: a contact that has ended leaves no timer and no
\* socket behind, and one that has resolved has its whole body within the
\* limit.
THEOREM ContactsClose == PartSpec => []ContactsEndClean
<1>1. Connection!Spec => []Connection!ContactsEndClean
  BY PartsAssumption, ContactLeavesNothing DEF PartsAssumption
<1>2. (part = "contact" => Connection!ContactsEndClean) => ContactsEndClean
  BY DEF ContactsEndClean
<1> QED BY <1>1, <1>2, PartIsContact, PTL

\* Whatever is retained, expires or is set back: the receipts of the inspector,
\* the published runs of the compute stores and the receipts of spatial
\* analyses pass the inspections that recompute them.
THEOREM SavedResults == PartSpec => []SavedResultsRecompute
<1>1. Audits!Spec => []Audits!HistoryRecomputes
  BY PartsAssumption, AuditHistoryRecomputes DEF PartsAssumption
<1>2. Runs!Spec => []Runs!RunsRecompute
  BY PartsAssumption, SavedRunsRecompute DEF PartsAssumption
<1>3. Analyses!Spec => []Analyses!ReceiptsInspect
  BY PartsAssumption, AnalysisReceiptsInspect DEF PartsAssumption
<1>4. /\ part = "audits" => Audits!HistoryRecomputes
      /\ part = "runs" => Runs!RunsRecompute
      /\ part = "analyses" => Analyses!ReceiptsInspect
     => SavedResultsRecompute
  BY DEF SavedResultsRecompute
<1> QED BY <1>1, <1>2, <1>3, <1>4, PartIsAudits, PartIsRuns, PartIsAnalyses, PTL

\* The inspector and the spatial analyses, which reserve an identity before
\* they work on it, implement the contract RunsOnce: whoever is killed, an
\* identity is reserved for one request, worked on once and answered by its
\* only receipt.
THEOREM ReservationsRunOnce == PartSpec => ReservedRequestsRunOnce
<1>1. Audits!Spec => Audits!RunsOnceSpec
  BY PartsAssumption, AuditsRunOnce DEF PartsAssumption
<1>2. Analyses!Spec => Analyses!AnalysedOnce
  BY PartsAssumption, AnalysesRunOnce DEF PartsAssumption
<1>3. /\ part = "audits" => [Audits!Contract!Next]_(Audits!Contract!vars)
      /\ part = "analyses" => [Analyses!Contract!Next]_(Analyses!Contract!vars)
     => [ /\ part = "audits" => [Audits!Contract!Next]_(Audits!Contract!vars)
          /\ part = "analyses" => [Analyses!Contract!Next]_(Analyses!Contract!vars) ]_contracts
  OBVIOUS
<1> QED
  BY <1>1, <1>2, <1>3, PartIsAudits, PartIsAnalyses, PTL
     DEF ReservedRequestsRunOnce, Audits!RunsOnceSpec, Analyses!AnalysedOnce,
         Audits!Contract!Spec, Analyses!Contract!Spec

=============================================================================
