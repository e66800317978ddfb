------------------------ MODULE NotationStoreProofs ------------------------
(***************************************************************************)
(* Proofs about the notation store for any number of concurrent saves, any *)
(* batches and any limits.  The first part does not use the lock at all:   *)
(* what makes the log a compare-and-append log is the create-only file,    *)
(* its number and the kernel's replay.  The second part adds the lock.     *)
(***************************************************************************)
EXTENDS NotationStore, SequenceTheorems, TLAPS

-----------------------------------------------------------------------------
(* Sequences.                                                              *)

LEMMA PrefixOfAppend ==
  ASSUME NEW S, NEW h \in Seq(S), NEW r \in S, NEW n \in 0 .. Len(h)
  PROVE  SubSeq(Append(h, r), 1, n) = SubSeq(h, 1, n)
<1>1. Len(h) \in Nat /\ \A i \in 1 .. Len(h) : h[i] \in S
  BY LenProperties, ElementOfSeq
<1>2. \A i \in 1 .. n : h[i] \in S /\ Append(h, r)[i] = h[i]
  <2> TAKE i \in 1 .. n
  <2>1. i \in 1 .. Len(h)
    BY <1>1
  <2> QED BY <1>1, <2>1, AppendProperties
<1>3. /\ SubSeq(h, 1, n) \in Seq(S)
      /\ Len(SubSeq(h, 1, n)) = IF 1 <= n THEN n - 1 + 1 ELSE 0
      /\ \A i \in 1 .. n - 1 + 1 : SubSeq(h, 1, n)[i] = h[1 + i - 1]
  BY <1>1, <1>2, SubSeqProperties
<1>4. /\ SubSeq(Append(h, r), 1, n) \in Seq(S)
      /\ Len(SubSeq(Append(h, r), 1, n)) = IF 1 <= n THEN n - 1 + 1 ELSE 0
      /\ \A i \in 1 .. n - 1 + 1 : SubSeq(Append(h, r), 1, n)[i] = Append(h, r)[1 + i - 1]
  BY <1>1, <1>2, SubSeqProperties
<1> DEFINE p == SubSeq(h, 1, n)
           q == SubSeq(Append(h, r), 1, n)
<1>5. Len(p) = Len(q) /\ \A i \in 1 .. Len(p) : i \in 1 .. n
  BY <1>1, <1>3, <1>4
<1>6. ASSUME NEW i \in 1 .. n
      PROVE  p[i] = q[i]
  <2>1. i \in 1 .. n - 1 + 1 /\ 1 + i - 1 = i
    BY <1>1
  <2> QED BY <1>2, <1>3, <1>4, <2>1
<1>7. p \in Seq(S) /\ q \in Seq(S)
  BY <1>3, <1>4
<1> HIDE DEF p, q
<1>8. p = q
  BY <1>5, <1>6, <1>7, SeqEqual
<1> QED BY <1>8 DEF p, q

-----------------------------------------------------------------------------
(* What every task knows of the log, whoever holds the lock.               *)

\* The first n saved versions.
Prefix(n) == SubSeq(versions, 1, n)

\* What a task knows about the log at each place of save().
Evaluated(t) ==
  /\ request[t] \in Requests
  /\ seen[t] <= Len(versions)
  /\ seen[t] < MaxVersions
  /\ request[t].base = seen[t]
  /\ KernelAccepts(Prefix(seen[t]), request[t].batch)

Published(t) ==
  /\ seen[t] + 1 <= Len(versions)
  /\ versions[seen[t] + 1] = request[t]

Answered(t) ==
  /\ seen[t] \in 1 .. Len(versions)
  /\ versions[seen[t]] = request[t]

Knowledge ==
  \A t \in Tasks :
    /\ pc[t] # "idle" => request[t] \in Requests
    /\ pc[t] = "evaluated" => Evaluated(t)
    /\ pc[t] = "published" => Published(t)
    /\ pc[t] = "releasing" /\ reply[t] = "SAVED" => Answered(t)

SInv == TypeOK /\ HistoryLoads /\ ConfirmedIsSaved /\ Knowledge

-----------------------------------------------------------------------------
(* The log grows.                                                          *)

\* An accepted request keeps the history loadable.
LEMMA AppendLoads ==
  ASSUME NEW h \in Seq(Requests), Loadable(h), NEW r \in Requests,
         r.base = Len(h), Len(h) < MaxVersions, KernelAccepts(h, r.batch)
  PROVE  Loadable(Append(h, r))
<1>1. Len(h) \in Nat /\ Len(Append(h, r)) = Len(h) + 1 /\ MaxVersions \in Nat
  BY LenProperties, AppendProperties, StoreAssumption
<1>2. Len(Append(h, r)) <= MaxVersions
  BY <1>1
<1>3. ASSUME NEW i \in 1 .. Len(h) + 1
      PROVE  /\ Append(h, r)[i].base = i - 1
             /\ KernelAccepts(SubSeq(Append(h, r), 1, i - 1), Append(h, r)[i].batch)
  <2>1. i - 1 \in 0 .. Len(h)
    BY <1>1
  <2>2. SubSeq(Append(h, r), 1, i - 1) = SubSeq(h, 1, i - 1)
    BY <2>1, PrefixOfAppend
  <2>3. CASE i \in 1 .. Len(h)
    <3>1. Append(h, r)[i] = h[i]
      BY <2>3, AppendProperties
    <3> QED BY <2>2, <2>3, <3>1 DEF Loadable
  <2>4. CASE i = Len(h) + 1
    <3>1. Append(h, r)[i] = r /\ i - 1 = Len(h)
      BY <1>1, <2>4, AppendProperties
    <3>2. SubSeq(h, 1, i - 1) = h
      BY <3>1, SubSeqFull
    <3> QED BY <2>2, <3>1, <3>2
  <2> QED BY <1>1, <2>3, <2>4
<1> QED BY <1>1, <1>2, <1>3 DEF Loadable

\* What the two accepting verdicts mean.
LEMMA VerdictMeaning ==
  ASSUME NEW h \in Seq(Requests), NEW r \in Requests
  PROVE  /\ Verdict(h, r) = "SAVED" => Len(h) \in 1 .. Len(h) /\ h[Len(h)] = r
         /\ Verdict(h, r) = "ACCEPTED" => /\ r.base = Len(h)
                                          /\ Len(h) < MaxVersions
                                          /\ KernelAccepts(h, r.batch)
         /\ Verdict(h, r) \in Failures \cup {"SAVED", "ACCEPTED"}
<1>1. Len(h) \in Nat /\ MaxVersions \in Nat /\ (h # << >> => Len(h) \in Nat \ {0})
  BY LenProperties, EmptySeq, StoreAssumption
<1> QED BY <1>1 DEF Verdict, Failures

-----------------------------------------------------------------------------
(* One lemma per step.                                                     *)

\* A step that changes neither the log nor the record of confirmations keeps
\* what every other task knows.
LEMMA QuietStep ==
  ASSUME SInv, TypeOK', NEW t \in Tasks,
         UNCHANGED <<versions, confirmed>>,
         \A u \in Tasks \ {t} : /\ pc'[u] = pc[u] /\ request'[u] = request[u]
                                 /\ seen'[u] = seen[u] /\ reply'[u] = reply[u],
         /\ pc'[t] # "idle" => request'[t] \in Requests
         /\ pc'[t] = "evaluated" => Evaluated(t)'
         /\ pc'[t] = "published" => Published(t)'
         /\ pc'[t] = "releasing" /\ reply'[t] = "SAVED" => Answered(t)'
  PROVE  SInv'
<1>1. HistoryLoads' /\ ConfirmedIsSaved'
  BY DEF SInv, HistoryLoads, ConfirmedIsSaved
<1>2. ASSUME NEW u \in Tasks \ {t}
      PROVE  /\ pc'[u] # "idle" => request'[u] \in Requests
             /\ pc'[u] = "evaluated" => Evaluated(u)'
             /\ pc'[u] = "published" => Published(u)'
             /\ pc'[u] = "releasing" /\ reply'[u] = "SAVED" => Answered(u)'
  BY <1>2 DEF SInv, Knowledge, Evaluated, Published, Answered, Prefix
<1>3. Knowledge'
  BY <1>2 DEF Knowledge
<1> QED BY <1>1, <1>3 DEF SInv

\* The end of a call.
LEMMA AnswerStep ==
  ASSUME SInv, NEW t \in Tasks, NEW s, NEW n \in Nat, Answer(t, s, n),
         intruded' \in BOOLEAN,
         UNCHANGED versions, lock' \in Tasks \cup {Free, Stale},
         pc[t] # "idle",
         s = "SAVED" => n \in 1 .. Len(versions) /\ versions[n] = request[t]
  PROVE  SInv'
<1>1. request[t] \in Requests
  BY DEF SInv, Knowledge
<1>2. /\ pc' = [pc EXCEPT ![t] = "idle"]
      /\ request' = [request EXCEPT ![t] = NoRequest]
      /\ seen' = [seen EXCEPT ![t] = 0]
      /\ reply' = [reply EXCEPT ![t] = "none"]
      /\ confirmed' = IF s = "SAVED" THEN confirmed \cup {<<request[t], n>>} ELSE confirmed
  BY DEF Answer, Rest, Goto
<1>3. TypeOK'
  BY <1>1, <1>2 DEF SInv, TypeOK, Places, Failures
<1>4. HistoryLoads' /\ ConfirmedIsSaved'
  <2>1. HistoryLoads'
    BY DEF SInv, HistoryLoads
  <2>2. ASSUME NEW c \in confirmed'
        PROVE  c[2] \in 1 .. Len(versions) /\ versions[c[2]] = c[1]
    BY <1>2, <2>2 DEF SInv, ConfirmedIsSaved
  <2> QED BY <2>1, <2>2 DEF ConfirmedIsSaved
<1>5. Knowledge'
  <2> SUFFICES ASSUME NEW u \in Tasks
               PROVE  /\ pc'[u] # "idle" => request'[u] \in Requests
                      /\ pc'[u] = "evaluated" => Evaluated(u)'
                      /\ pc'[u] = "published" => Published(u)'
                      /\ pc'[u] = "releasing" /\ reply'[u] = "SAVED" => Answered(u)'
    BY DEF Knowledge
  <2>1. CASE u = t
    BY <1>2, <2>1 DEF SInv, TypeOK
  <2>2. CASE u # t
    <3>1. /\ pc'[u] = pc[u] /\ request'[u] = request[u]
          /\ seen'[u] = seen[u] /\ reply'[u] = reply[u]
      BY <1>2, <2>2 DEF SInv, TypeOK
    <3> QED BY <3>1 DEF SInv, Knowledge, Evaluated, Published, Answered, Prefix
  <2> QED BY <2>1, <2>2
<1> QED BY <1>3, <1>4, <1>5 DEF SInv

LEMMA BeginStep == ASSUME SInv, NEW t \in Tasks, NEW r \in Requests, Begin(t, r) PROVE SInv'
<1>1. TypeOK'
  BY DEF SInv, TypeOK, Begin, At, Goto, Places
<1>2. /\ pc' = [pc EXCEPT ![t] = "begun"] /\ request' = [request EXCEPT ![t] = r]
      /\ UNCHANGED <<versions, lock, seen, reply, confirmed>>
  BY DEF Begin, Goto
<1> QED BY <1>1, <1>2, QuietStep DEF SInv, TypeOK

LEMMA FirstLoadStep == ASSUME SInv, NEW t \in Tasks, intruded' \in BOOLEAN, FirstLoad(t) PROVE SInv'
<1> DEFINE v == Verdict(versions, request[t])
<1>1. /\ pc[t] = "begun" /\ UNCHANGED <<versions, lock>>
      /\ lock \in Tasks \cup {Free, Stale} /\ versions \in Seq(Requests)
      /\ request[t] \in Requests /\ Len(versions) \in Nat
  BY LenProperties DEF FirstLoad, At, SInv, TypeOK, Knowledge
<1>2. v = "SAVED" => Len(versions) \in 1 .. Len(versions) /\ versions[Len(versions)] = request[t]
  BY <1>1, VerdictMeaning
<1>3. CASE v = "ACCEPTED" /\ Goto(t, "checked") /\ UNCHANGED <<request, seen, reply, confirmed>>
  <2>1. TypeOK'
    BY <1>1, <1>3 DEF SInv, TypeOK, Goto, Places
  <2> QED BY <1>1, <1>3, <2>1, QuietStep DEF SInv, TypeOK, Goto
<1>4. CASE v # "ACCEPTED" /\ Answer(t, v, Len(versions))
  BY <1>1, <1>2, <1>4, AnswerStep
<1>5. CASE Answer(t, "KERNEL_UNAVAILABLE", 0)
  BY <1>1, <1>5, AnswerStep
<1> QED BY <1>3, <1>4, <1>5 DEF FirstLoad

LEMMA TakeLockStep == ASSUME SInv, NEW t \in Tasks, intruded' \in BOOLEAN, TakeLock(t) PROVE SInv'
<1>1. pc[t] = "checked" /\ UNCHANGED versions /\ request[t] \in Requests
  BY DEF TakeLock, At, SInv, Knowledge
<1>2. CASE lock' = t /\ Goto(t, "locked") /\ UNCHANGED <<request, seen, reply, confirmed>>
  <2>1. TypeOK'
    BY <1>1, <1>2 DEF SInv, TypeOK, Goto, Places
  <2> QED BY <1>1, <1>2, <2>1, QuietStep DEF SInv, TypeOK, Goto
<1>3. CASE UNCHANGED lock /\ Answer(t, "STATE_BUSY", 0)
  <2>1. lock' \in Tasks \cup {Free, Stale}
    BY <1>3 DEF SInv, TypeOK
  <2> QED BY <1>1, <1>3, <2>1, AnswerStep
<1> QED BY <1>2, <1>3 DEF TakeLock

LEMMA LockedLoadStep == ASSUME SInv, NEW t \in Tasks, intruded' \in BOOLEAN, LockedLoad(t) PROVE SInv'
<1> DEFINE v == Verdict(versions, request[t])
<1>1. /\ pc[t] = "locked" /\ UNCHANGED <<versions, lock, request, confirmed>>
      /\ versions \in Seq(Requests) /\ request[t] \in Requests /\ Len(versions) \in Nat
      /\ seen' = [seen EXCEPT ![t] = Len(versions)] /\ seen'[t] = Len(versions)
  BY LenProperties DEF LockedLoad, At, SInv, TypeOK, Knowledge
<1>2. /\ v = "SAVED" => Len(versions) \in 1 .. Len(versions)
                        /\ versions[Len(versions)] = request[t]
      /\ v = "ACCEPTED" => /\ request[t].base = Len(versions)
                           /\ Len(versions) < MaxVersions
                           /\ KernelAccepts(versions, request[t].batch)
      /\ v \in Failures \cup {"SAVED", "ACCEPTED"}
  BY <1>1, VerdictMeaning
<1> HIDE DEF v
<1>3. CASE v = "ACCEPTED" /\ Goto(t, "evaluated") /\ UNCHANGED reply
  <2>1. TypeOK'
    BY <1>1, <1>3 DEF SInv, TypeOK, Goto, Places
  <2>2. Prefix(Len(versions)) = versions
    BY <1>1, SubSeqFull DEF Prefix
  <2>3. Evaluated(t)'
    <3>1. /\ request'[t] = request[t] /\ versions' = versions /\ seen'[t] = Len(versions)
          /\ SubSeq(versions', 1, seen'[t]) = versions
      BY <1>1, <2>2 DEF Prefix
    <3>2. KernelAccepts(SubSeq(versions', 1, seen'[t]), request'[t].batch)
      BY <1>2, <1>3, <3>1
    <3>3. /\ request'[t] \in Requests /\ seen'[t] <= Len(versions')
          /\ seen'[t] < MaxVersions /\ request'[t].base = seen'[t]
      BY <1>1, <1>2, <1>3, <3>1
    <3> QED BY <3>2, <3>3 DEF Evaluated, Prefix
  <2> QED BY <1>1, <1>3, <2>1, <2>3, QuietStep DEF SInv, TypeOK, Goto
<1>4. CASE v # "ACCEPTED" /\ Finally(t, v)
  <2>1. TypeOK'
    BY <1>1, <1>2, <1>4 DEF SInv, TypeOK, Goto, Places, Finally
  <2>2. reply'[t] = v
    BY <1>4 DEF Finally, SInv, TypeOK
  <2>3. reply'[t] = "SAVED" => Answered(t)'
    BY <1>1, <1>2, <2>2 DEF Answered
  <2> QED BY <1>1, <1>4, <2>1, <2>3, QuietStep DEF SInv, TypeOK, Goto, Finally
<1>5. CASE Finally(t, "KERNEL_UNAVAILABLE")
  <2>1. TypeOK'
    BY <1>1, <1>5 DEF SInv, TypeOK, Goto, Places, Finally, Failures
  <2> QED BY <1>1, <1>5, <2>1, QuietStep DEF SInv, TypeOK, Goto, Finally
<1> QED BY <1>3, <1>4, <1>5 DEF LockedLoad, v

\* The only step that writes.  Whoever published in between, the file number
\* decides: either the log still is the one the request was evaluated on, or
\* the existing file is compared.
LEMMA PublishStep == ASSUME SInv, NEW t \in Tasks, intruded' \in BOOLEAN, Publish(t) PROVE SInv'
<1>1. /\ pc[t] = "evaluated" /\ UNCHANGED <<lock, request, seen, confirmed>>
      /\ versions \in Seq(Requests) /\ Len(versions) \in Nat
      /\ Evaluated(t) /\ seen[t] \in Nat
  BY LenProperties DEF Publish, At, SInv, TypeOK, Knowledge
<1>2. CASE /\ Len(versions) = seen[t]
           /\ versions' = Append(versions, request[t])
           /\ \/ Goto(t, "published") /\ UNCHANGED reply
              \/ Finally(t, "WRITE_FAILED")
  <2>1. /\ versions' \in Seq(Requests) /\ Len(versions') = Len(versions) + 1
        /\ \A i \in 1 .. Len(versions) : versions'[i] = versions[i]
        /\ versions'[Len(versions) + 1] = request[t]
    BY <1>1, <1>2, AppendProperties DEF Evaluated
  <2>2. TypeOK'
    BY <1>1, <1>2, <2>1 DEF SInv, TypeOK, Goto, Finally, Places, Failures
  <2>3. HistoryLoads'
    <3>1. Prefix(seen[t]) = versions
      BY <1>1, <1>2, SubSeqFull DEF Prefix
    <3>2. Loadable(Append(versions, request[t]))
      BY <1>1, <1>2, <3>1, AppendLoads DEF SInv, HistoryLoads, Evaluated
    <3> QED BY <1>2, <3>2 DEF HistoryLoads
  <2>4. ConfirmedIsSaved'
    BY <1>1, <2>1 DEF SInv, ConfirmedIsSaved
  <2>5. \A n \in 0 .. Len(versions) : Prefix(n)' = Prefix(n)
    BY <1>1, <1>2, PrefixOfAppend DEF Prefix, Evaluated
  <2>6. ASSUME NEW u \in Tasks
        PROVE  /\ pc'[u] # "idle" => request'[u] \in Requests
               /\ pc'[u] = "evaluated" => Evaluated(u)'
               /\ pc'[u] = "published" => Published(u)'
               /\ pc'[u] = "releasing" /\ reply'[u] = "SAVED" => Answered(u)'
    <3>1. /\ request'[u] = request[u] /\ seen'[u] = seen[u] /\ seen[u] \in Nat
      BY <1>1, <1>2 DEF SInv, TypeOK
    <3>2. CASE u = t
      <4>1. pc'[u] = "published" \/ (pc'[u] = "releasing" /\ reply'[u] # "SAVED")
        BY <1>2, <3>2 DEF Goto, Finally, SInv, TypeOK
      <4>2. Published(u)'
        BY <1>2, <2>1, <3>1, <3>2 DEF Published
      <4> QED BY <1>1, <3>1, <3>2, <4>1, <4>2 DEF Evaluated
    <3>3. CASE u # t
      <4>1. pc'[u] = pc[u] /\ reply'[u] = reply[u]
        BY <1>2, <3>3 DEF Goto, Finally, SInv, TypeOK
      <4>2. ASSUME pc[u] = "evaluated"
            PROVE  Evaluated(u)'
        <5>1. Evaluated(u) /\ seen[u] \in 0 .. Len(versions)
          BY <1>1, <3>1, <4>2 DEF SInv, Knowledge, Evaluated
        <5>2. SubSeq(versions', 1, seen[u]) = Prefix(seen[u])
          BY <2>5, <5>1 DEF Prefix
        <5>3. KernelAccepts(SubSeq(versions', 1, seen'[u]), request'[u].batch)
          BY <3>1, <5>1, <5>2 DEF Evaluated
        <5> QED BY <1>1, <2>1, <3>1, <5>1, <5>3 DEF Evaluated, Prefix
      <4>3. pc[u] = "published" => Published(u)'
        BY <1>1, <2>1, <3>1 DEF SInv, Knowledge, Published
      <4>4. pc[u] = "releasing" /\ reply[u] = "SAVED" => Answered(u)'
        BY <1>1, <2>1, <3>1, <4>1 DEF SInv, Knowledge, Answered
      <4> QED BY <3>1, <4>1, <4>2, <4>3, <4>4 DEF SInv, Knowledge
    <3> QED BY <3>2, <3>3
  <2>7. Knowledge'
    BY <2>6 DEF Knowledge
  <2> QED BY <2>2, <2>3, <2>4, <2>7 DEF SInv
<1>3. CASE /\ Len(versions) > seen[t]
           /\ versions[seen[t] + 1] = request[t]
           /\ Goto(t, "published")
           /\ UNCHANGED <<versions, reply>>
  <2>1. TypeOK'
    BY <1>1, <1>3 DEF SInv, TypeOK, Goto, Places
  <2>2. Published(t)'
    BY <1>1, <1>3 DEF Published
  <2> QED BY <1>1, <1>3, <2>1, <2>2, QuietStep DEF SInv, TypeOK, Goto, Evaluated
<1>4. CASE (Finally(t, "PUBLISH_CONFLICT") \/ Finally(t, "WRITE_FAILED")) /\ UNCHANGED versions
  <2>1. TypeOK'
    BY <1>1, <1>4 DEF SInv, TypeOK, Goto, Places, Finally, Failures
  <2> QED BY <1>1, <1>4, <2>1, QuietStep DEF SInv, TypeOK, Goto, Finally, Evaluated
<1> QED BY <1>2, <1>3, <1>4 DEF Publish

LEMMA VerifyStep == ASSUME SInv, NEW t \in Tasks, intruded' \in BOOLEAN, Verify(t) PROVE SInv'
<1>1. /\ pc[t] = "published" /\ UNCHANGED <<versions, lock, request, confirmed>>
      /\ versions \in Seq(Requests) /\ Len(versions) \in Nat
      /\ Published(t) /\ seen[t] \in Nat /\ request[t] \in Requests
      /\ seen' = [seen EXCEPT ![t] = Len(versions)] /\ seen'[t] = Len(versions)
  BY LenProperties DEF Verify, At, SInv, TypeOK, Knowledge
<1>2. PICK s \in Failures \cup {"SAVED"} :
        /\ Finally(t, s)
        /\ s = "SAVED" => Len(versions) = seen[t] + 1
  BY DEF Verify, Failures
<1>3. TypeOK'
  BY <1>1, <1>2 DEF SInv, TypeOK, Goto, Places, Finally
<1>4. reply'[t] = "SAVED" => Answered(t)'
  <2>1. reply'[t] = s
    BY <1>2 DEF Finally, SInv, TypeOK
  <2> QED BY <1>1, <1>2, <2>1 DEF Published, Answered
<1> QED BY <1>1, <1>2, <1>3, <1>4, QuietStep DEF SInv, TypeOK, Goto, Finally

LEMMA ReleaseStep == ASSUME SInv, NEW t \in Tasks, intruded' \in BOOLEAN, Release(t) PROVE SInv'
<1>1. /\ pc[t] = "releasing" /\ UNCHANGED versions /\ lock' = Free
      /\ Answer(t, IF lock = Free THEN "LOCK_MISSING" ELSE reply[t], seen[t])
      /\ seen[t] \in Nat
  BY DEF Release, At, SInv, TypeOK
<1>2. reply[t] = "SAVED" => seen[t] \in 1 .. Len(versions) /\ versions[seen[t]] = request[t]
  BY <1>1 DEF SInv, Knowledge, Answered
<1> QED BY <1>1, <1>2, AnswerStep

LEMMA CrashStep == ASSUME SInv, NEW t \in Tasks, intruded' \in BOOLEAN, Crash(t) PROVE SInv'
<1>1. /\ Rest(t) /\ UNCHANGED <<versions, confirmed>>
      /\ lock' = IF lock = t THEN Stale ELSE lock
  BY DEF Crash
<1>2. TypeOK'
  BY <1>1 DEF SInv, TypeOK, Rest, Goto, Places, Failures
<1> QED BY <1>1, <1>2, QuietStep DEF SInv, TypeOK, Rest, Goto

LEMMA SInvInductive == Spec => []SInv
<1>1. Init => SInv
  <2> SUFFICES ASSUME Init PROVE SInv
    OBVIOUS
  <2>1. TypeOK
    BY EmptySeq DEF Init, TypeOK, Places, Failures
  <2>2. HistoryLoads /\ ConfirmedIsSaved
    BY EmptySeq, StoreAssumption DEF Init, HistoryLoads, Loadable, ConfirmedIsSaved
  <2>3. Knowledge
    BY DEF Init, Knowledge
  <2> QED BY <2>1, <2>2, <2>3 DEF SInv
<1>2. SInv /\ [Next]_vars => SInv'
  <2> SUFFICES ASSUME SInv, [Next]_vars PROVE SInv'
    OBVIOUS
  <2>1. ASSUME NEW t \in Tasks, Step(t) PROVE SInv'
    <3>1. intruded' \in BOOLEAN
      BY <2>1 DEF Step, SInv, TypeOK
    <3> QED BY <2>1, <3>1, FirstLoadStep, TakeLockStep, LockedLoadStep, PublishStep, VerifyStep,
       ReleaseStep DEF Step
  <2>2. ASSUME NEW t \in Tasks, Crash(t) PROVE SInv'
    <3>1. intruded' \in BOOLEAN
      BY <2>2 DEF Crash, SInv, TypeOK
    <3> QED BY <2>2, <3>1, CrashStep
  <2>3. CASE RemoveLock \/ UNCHANGED vars
    <3>1. UNCHANGED <<versions, pc, request, seen, reply, confirmed>>
          /\ lock' \in Tasks \cup {Free, Stale} /\ intruded' \in BOOLEAN
      BY <2>3 DEF RemoveLock, vars, SInv, TypeOK
    <3> QED BY <3>1 DEF SInv, TypeOK, HistoryLoads, ConfirmedIsSaved, Knowledge,
                        Evaluated, Published, Answered, Prefix
  <2> QED BY <2>1, <2>3, <2>2, BeginStep DEF Next
<1> QED BY <1>1, <1>2, PTL DEF Spec

\* The types of the store's state.
THEOREM StoreTypeCorrect == Spec => []TypeOK
BY SInvInductive, PTL DEF SInv

\* No crash, retry, lost lock or interleaving of any number of saves writes a
\* history that a later load() refuses.
THEOREM HistoryAlwaysLoads == Spec => []HistoryLoads
BY SInvInductive, PTL DEF SInv

\* A reply "saved as version n" stays true, whether it was given to the writer
\* or to a retry, and whatever happened to the lock meanwhile.
THEOREM ConfirmationsAreKept == Spec => []ConfirmedIsSaved
BY SInvInductive, PTL DEF SInv

-----------------------------------------------------------------------------
(* The store implements the abstract log.                                  *)

\* The end of a call is a Confirm of the log or nothing.
LEMMA AnswerConfirms ==
  ASSUME SInv, NEW t \in Tasks, NEW s, NEW n \in Nat, Answer(t, s, n),
         UNCHANGED versions,
         s = "SAVED" => n \in 1 .. Len(versions) /\ versions[n] = request[t]
  PROVE  Log!Next \/ UNCHANGED <<versions, confirmed>>
<1>1. CASE s = "SAVED"
  <2>1. n \in 1 .. Len(versions) /\ versions[n] = request[t]
    BY <1>1
  <2>2. versions[n].base = n - 1
    BY <2>1 DEF SInv, HistoryLoads, Loadable
  <2>3. n = versions[n].base + 1
    BY <2>2
  <2>4. confirmed' = confirmed \cup {<<versions[n], n>>}
    BY <1>1, <2>1 DEF Answer
  <2>5. Log!Confirm(n)
    BY <2>3, <2>4 DEF Log!Confirm
  <2> QED BY <2>1, <2>5 DEF Log!Next
<1>2. CASE s # "SAVED"
  BY <1>2 DEF Answer
<1> QED BY <1>1, <1>2

\* The create-only link appends a request made for this position.
LEMMA PublishCommits ==
  ASSUME SInv, NEW t \in Tasks, Publish(t)
  PROVE  Log!Next \/ UNCHANGED <<versions, confirmed>>
<1>1. /\ Evaluated(t) /\ UNCHANGED confirmed /\ versions \in Seq(Requests)
  BY DEF Publish, At, SInv, TypeOK, Knowledge
<1>2. CASE Len(versions) = seen[t] /\ versions' = Append(versions, request[t])
  <2>1. Prefix(seen[t]) = versions
    BY <1>1, <1>2, SubSeqFull DEF Prefix
  <2>2. /\ request[t] \in Requests /\ request[t].base = Len(versions)
        /\ KernelAccepts(versions, request[t].batch)
    BY <1>1, <1>2, <2>1 DEF Evaluated
  <2>3. Log!Commit(request[t])
    BY <1>1, <1>2, <2>2 DEF Log!Commit
  <2> QED BY <2>2, <2>3 DEF Log!Next
<1>3. CASE UNCHANGED versions
  BY <1>1, <1>3
<1> QED BY <1>2, <1>3 DEF Publish

\* Concurrent saves, their locks, crashes and retries together behave as one
\* append-only log with compare-and-append and truthful confirmations.
THEOREM StoreImplementsCompareAndAppend == Spec => CompareAndAppendSpec
<1>1. Init => Log!Init
  BY DEF Init, Log!Init
<1>2. SInv /\ [Next]_vars => [Log!Next]_<<versions, confirmed>>
  <2> SUFFICES ASSUME SInv, [Next]_vars
               PROVE  Log!Next \/ UNCHANGED <<versions, confirmed>>
    OBVIOUS
  <2>1. ASSUME NEW t \in Tasks
        PROVE  Step(t) => Log!Next \/ UNCHANGED <<versions, confirmed>>
    <3>1. /\ versions \in Seq(Requests) /\ Len(versions) \in Nat /\ seen[t] \in Nat
          /\ pc[t] # "idle" => request[t] \in Requests
      BY LenProperties DEF SInv, TypeOK, Knowledge
    <3>2. FirstLoad(t) => Log!Next \/ UNCHANGED <<versions, confirmed>>
      <4> SUFFICES ASSUME FirstLoad(t)
                   PROVE  Log!Next \/ UNCHANGED <<versions, confirmed>>
        OBVIOUS
      <4>1. request[t] \in Requests /\ UNCHANGED versions
        BY <3>1 DEF FirstLoad, At
      <4>2. Verdict(versions, request[t]) = "SAVED"
              => Len(versions) \in 1 .. Len(versions) /\ versions[Len(versions)] = request[t]
        BY <3>1, <4>1, VerdictMeaning
      <4>3. \/ UNCHANGED confirmed
            \/ Answer(t, Verdict(versions, request[t]), Len(versions))
            \/ Answer(t, "KERNEL_UNAVAILABLE", 0)
        BY DEF FirstLoad
      <4> QED BY <3>1, <4>1, <4>2, <4>3, AnswerConfirms
    <3>3. TakeLock(t) => Log!Next \/ UNCHANGED <<versions, confirmed>>
      <4>1. ASSUME TakeLock(t)
            PROVE  UNCHANGED versions /\ (UNCHANGED confirmed \/ Answer(t, "STATE_BUSY", 0))
        BY <4>1 DEF TakeLock
      <4> QED BY <4>1, AnswerConfirms
    <3>4. LockedLoad(t) \/ Verify(t) => UNCHANGED <<versions, confirmed>>
      BY DEF LockedLoad, Verify
    <3>5. Release(t) => Log!Next \/ UNCHANGED <<versions, confirmed>>
      <4>1. ASSUME Release(t)
            PROVE  /\ UNCHANGED versions
                   /\ Answer(t, IF lock = Free THEN "LOCK_MISSING" ELSE reply[t], seen[t])
                   /\ reply[t] = "SAVED" => seen[t] \in 1 .. Len(versions)
                                             /\ versions[seen[t]] = request[t]
        BY <4>1 DEF Release, At, SInv, Knowledge, Answered
      <4> QED BY <3>1, <4>1, AnswerConfirms
    <3> QED BY <3>2, <3>3, <3>4, <3>5, PublishCommits DEF Step
  <2>2. ASSUME NEW t \in Tasks
        PROVE  /\ \A r \in Requests : Begin(t, r) => UNCHANGED <<versions, confirmed>>
               /\ Crash(t) => UNCHANGED <<versions, confirmed>>
    BY DEF Begin, Crash
  <2>3. RemoveLock \/ UNCHANGED vars => UNCHANGED <<versions, confirmed>>
    BY DEF RemoveLock, vars
  <2> QED BY <2>1, <2>2, <2>3 DEF Next
<1> QED BY <1>1, <1>2, SInvInductive, PTL
      DEF Spec, CompareAndAppendSpec, Log!Spec, Log!vars

-----------------------------------------------------------------------------
(* The lock.  It is not needed for the log to be right; it is needed for a *)
(* client to learn what became of its save.                                *)

Critical == {"locked", "evaluated", "published", "releasing"}
Uncertain == {"PUBLISH_CONFLICT", "SAVE_UNCONFIRMED"}

\* What a task relies on: it is the holder of the lock whenever it writes, and
\* has seen the latest version.
Held(t) ==
  /\ pc[t] \in Critical => lock = t
  /\ reply[t] \notin Uncertain
  /\ pc[t] = "releasing" => lock # Free
  /\ pc[t] = "evaluated" => seen[t] = Len(versions)
  /\ pc[t] = "published" => seen[t] + 1 = Len(versions)

LInv == \A t \in Tasks : Held(t)

\* A step of t that leaves the lock alone, or takes it when it is free, or
\* gives up t's own, disturbs no other task; and only the holder writes.
LEMMA LockStep ==
  ASSUME TypeOK, LInv, NEW t \in Tasks,
         \/ lock' = lock /\ versions' = versions
         \/ lock' = t /\ lock = Free /\ versions' = versions
         \/ lock = t,
         \A u \in Tasks \ {t} : /\ pc'[u] = pc[u] /\ seen'[u] = seen[u]
                                 /\ reply'[u] = reply[u],
         Held(t)'
  PROVE  LInv'
<1>1. \A u \in Tasks : Held(u)
  BY DEF LInv
<1>2. ASSUME NEW u \in Tasks \ {t}
      PROVE  Held(u)'
  <2>1. /\ pc'[u] = pc[u] /\ seen'[u] = seen[u] /\ reply'[u] = reply[u]
        /\ u # t /\ u # Free /\ Held(u)
    BY <1>1, TasksAreNotLockStates
  <2>2. pc[u] \in Critical => lock' = lock /\ versions' = versions
    BY <2>1 DEF Held
  <2> QED BY <2>1, <2>2 DEF Held, Critical
<1>3. \A u \in Tasks : Held(u)'
  BY <1>2
<1> QED BY <1>3 DEF LInv

\* No verdict of a load is one of the uncertain replies.
LEMMA VerdictsAreCertain ==
  ASSUME NEW h, NEW r PROVE Verdict(h, r) \notin Uncertain
BY DEF Verdict, Uncertain

LEMMA LInvStep ==
  ASSUME ~ intruded', SInv, LInv, [Next]_vars
  PROVE  LInv'
<1>1. TypeOK /\ (\A t \in Tasks : Held(t)) /\ Len(versions) \in Nat
  BY LenProperties DEF SInv, TypeOK, LInv
<1>2. ASSUME NEW t \in Tasks
      PROVE  /\ \A x : Goto(t, x) => pc'[t] = x /\ \A u \in Tasks \ {t} : pc'[u] = pc[u]
             /\ \A s : Finally(t, s) => reply'[t] = s
                                        /\ \A u \in Tasks \ {t} : reply'[u] = reply[u]
             /\ Rest(t) => /\ pc'[t] = "idle" /\ reply'[t] = "none"
                           /\ \A u \in Tasks \ {t} : /\ pc'[u] = pc[u] /\ seen'[u] = seen[u]
                                                     /\ reply'[u] = reply[u]
  BY <1>1 DEF TypeOK, Goto, Finally, Rest
<1>3. ASSUME NEW t \in Tasks, NEW s, NEW n, Answer(t, s, n), UNCHANGED versions,
             lock' = lock \/ lock = t
      PROVE  LInv'
  <2>1. Held(t)'
    BY <1>2, <1>3 DEF Answer, Held, Critical, Uncertain
  <2> QED BY <1>1, <1>2, <1>3, <2>1, LockStep DEF Answer
<1>4. ASSUME NEW t \in Tasks, NEW r \in Requests, Begin(t, r)
      PROVE  LInv'
  <2>1. Held(t)'
    BY <1>1, <1>2, <1>4 DEF Begin, Held, Critical
  <2> QED BY <1>1, <1>2, <1>4, <2>1, LockStep DEF Begin
<1>5. ASSUME NEW t \in Tasks, FirstLoad(t)
      PROVE  LInv'
  <2>1. CASE Goto(t, "checked") /\ UNCHANGED <<seen, reply>>
    <3>1. Held(t)'
      BY <1>1, <1>2, <1>5, <2>1 DEF Held, Critical
    <3> QED BY <1>1, <1>2, <1>5, <2>1, <3>1, LockStep DEF FirstLoad
  <2> QED BY <1>3, <1>5, <2>1 DEF FirstLoad
<1>6. ASSUME NEW t \in Tasks, TakeLock(t)
      PROVE  LInv'
  <2>1. CASE lock = Free /\ lock' = t /\ Goto(t, "locked") /\ UNCHANGED <<seen, reply>>
    <3>1. Held(t)'
      BY <1>1, <1>2, <2>1 DEF Held, Critical
    <3> QED BY <1>1, <1>2, <1>6, <2>1, <3>1, LockStep DEF TakeLock
  <2> QED BY <1>3, <1>6, <2>1 DEF TakeLock
<1>7. ASSUME NEW t \in Tasks, LockedLoad(t)
      PROVE  LInv'
  <2>1. /\ pc[t] = "locked" /\ lock = t /\ lock' = t /\ UNCHANGED versions
        /\ seen'[t] = Len(versions) /\ t # Free
        /\ \A u \in Tasks \ {t} : seen'[u] = seen[u]
    BY <1>1, <1>7, TasksAreNotLockStates DEF LockedLoad, At, Held, Critical, TypeOK
  <2>2. CASE Goto(t, "evaluated") /\ UNCHANGED reply
    <3>1. Held(t)'
      BY <1>1, <1>2, <2>1, <2>2 DEF Held
    <3> QED BY <1>1, <1>2, <2>1, <2>2, <3>1, LockStep
  <2>3. ASSUME NEW s, Finally(t, s), s \notin Uncertain
        PROVE  LInv'
    <3>1. pc'[t] = "releasing" /\ reply'[t] = s
      BY <1>2, <2>3 DEF Finally
    <3>2. Held(t)'
      BY <2>1, <2>3, <3>1 DEF Held
    <3> QED BY <1>1, <1>2, <2>1, <2>3, <3>2, LockStep DEF Finally
  <2>4. "KERNEL_UNAVAILABLE" \notin Uncertain
    BY DEF Uncertain
  <2> QED BY <1>7, <2>2, <2>3, <2>4, VerdictsAreCertain DEF LockedLoad
<1>8. ASSUME NEW t \in Tasks, Publish(t)
      PROVE  LInv'
  <2>1. /\ lock = t /\ lock' = t /\ seen[t] = Len(versions) /\ UNCHANGED seen
        /\ versions \in Seq(Requests) /\ request[t] \in Requests
    BY <1>1, <1>8 DEF Publish, At, Held, Critical, SInv, TypeOK, Knowledge
  <2>2. CASE /\ versions' = Append(versions, request[t]) /\ Goto(t, "published")
             /\ UNCHANGED reply
    <3>1. Len(versions') = Len(versions) + 1
      BY <2>1, <2>2, AppendProperties
    <3>2. Held(t)'
      BY <1>1, <1>2, <2>1, <2>2, <3>1 DEF Held
    <3> QED BY <1>1, <1>2, <2>1, <2>2, <3>2, LockStep
  <2>3. CASE Finally(t, "WRITE_FAILED")
    <3>1. pc'[t] = "releasing" /\ reply'[t] = "WRITE_FAILED" /\ t # Free
      BY <1>2, <2>3, TasksAreNotLockStates DEF Finally
    <3>2. Held(t)'
      BY <2>1, <3>1 DEF Held, Uncertain
    <3> QED BY <1>1, <1>2, <2>1, <2>3, <3>2, LockStep DEF Finally
  <2> QED BY <1>1, <1>8, <2>1, <2>2, <2>3 DEF Publish
<1>9. ASSUME NEW t \in Tasks, Verify(t)
      PROVE  LInv'
  <2>1. /\ pc[t] = "published" /\ lock = t /\ lock' = t /\ UNCHANGED versions
        /\ Len(versions) = seen[t] + 1 /\ t # Free
        /\ \A u \in Tasks \ {t} : seen'[u] = seen[u]
    BY <1>1, <1>9, TasksAreNotLockStates DEF Verify, At, Held, Critical, TypeOK
  <2>2. PICK s : Finally(t, s) /\ s \notin Uncertain
    BY <1>9, <2>1 DEF Verify, Uncertain
  <2>3. pc'[t] = "releasing" /\ reply'[t] = s
    BY <1>2, <2>2 DEF Finally
  <2>4. Held(t)'
    BY <2>1, <2>2, <2>3 DEF Held
  <2> QED BY <1>1, <1>2, <2>1, <2>2, <2>4, LockStep DEF Finally
<1>10. ASSUME NEW t \in Tasks, Release(t)
       PROVE  LInv'
  <2>1. lock = t
    BY <1>1, <1>10 DEF Release, At, Held, Critical
  <2> QED BY <1>3, <1>10, <2>1 DEF Release
<1>11. ASSUME NEW t \in Tasks, Crash(t)
       PROVE  LInv'
  <2>1. Held(t)'
    BY <1>2, <1>11 DEF Crash, Held, Critical, Uncertain
  <2> QED BY <1>1, <1>2, <1>11, <2>1, LockStep DEF Crash
<1>12. ASSUME RemoveLock
       PROVE  LInv'
  <2>1. lock = Stale /\ UNCHANGED <<versions, pc, seen, reply>>
    BY <1>12 DEF RemoveLock, SInv, TypeOK
  <2>2. \A t \in Tasks : Held(t)'
    BY <1>1, <2>1, TasksAreNotLockStates DEF Held, Critical
  <2> QED BY <2>2 DEF LInv
<1>13. CASE UNCHANGED vars
  BY <1>13 DEF vars, LInv, Held
<1> QED BY <1>4, <1>5, <1>6, <1>7, <1>8, <1>9, <1>10, <1>11, <1>12, <1>13
        DEF Next, Step

\* What holds until a live lock is removed is inductive, since nothing but that
\* removal sets intruded, and nothing resets it.
LEMMA LInvInductive == Spec => [](intruded \/ LInv)
<1>1. Init => LInv
  BY DEF Init, LInv, Held, Critical, Uncertain
<1>2. SInv /\ (intruded \/ LInv) /\ [Next]_vars => (intruded \/ LInv)'
  <2> SUFFICES ASSUME SInv, intruded \/ LInv, [Next]_vars, ~ intruded'
               PROVE  LInv'
    OBVIOUS
  <2>1. intruded' = intruded \/ intruded' = TRUE
    BY DEF Next, Begin, Step, Crash, RemoveLock, vars
  <2>2. ~ intruded
    BY <2>1
  <2> QED BY <2>2, LInvStep
<1> QED BY <1>1, <1>2, SInvInductive, PTL DEF Spec

\* Until the lock of a running save is removed, one save at a time is between
\* its lock and its release, however many processes there are.
THEOREM LockAdmitsOneWriter == Spec => []OneWriter
<1>1. intruded \/ LInv => OneWriter
  BY DEF LInv, Held, Critical, OneWriter
<1> QED BY <1>1, LInvInductive, PTL

\* Under the same condition no save ends in PUBLISH_CONFLICT or
\* SAVE_UNCONFIRMED, and none finds its lock gone.
THEOREM NoSaveIsUncertain == Spec => []NoUncertainSave
<1>1. intruded \/ LInv => NoUncertainSave
  BY DEF LInv, Held, Uncertain, NoUncertainSave
<1> QED BY <1>1, LInvInductive, PTL

=============================================================================
