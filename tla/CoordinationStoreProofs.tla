---------------------- MODULE CoordinationStoreProofs ----------------------
(***************************************************************************)
(* Proofs about the coordination store for any number of concurrent        *)
(* writers, any commands and any limits.                                   *)
(***************************************************************************)
EXTENDS CoordinationStore, CoordinationLedgerProofs

-----------------------------------------------------------------------------
(* A replay of a log is defined, and one more entry is one more command.   *)

\* Function after gives the board after each entry of a replay of log.
Replays(after, log) ==
  after = [n \in 0 .. Len(log) |->
             IF n = 0 THEN Seed ELSE Applied(after[n - 1], log[n])]

LEMMA ReplayIsUnique ==
  ASSUME NEW log, Len(log) \in Nat, NEW f, Replays(f, log), NEW g, Replays(g, log)
  PROVE  f = g
<1> DEFINE Same == {k \in 0 .. Len(log) : f[k] = g[k]}
           last == Len(log)
<1>1. /\ f[0] = Seed
      /\ g[0] = Seed
      /\ \A n \in 0 .. Len(log) - 1 : /\ f[n + 1] = Applied(f[n], log[n + 1])
                                    /\ g[n + 1] = Applied(g[n], log[n + 1])
  BY DEF Replays
<1>2. 0 \in Same /\ \A k \in 0 .. last - 1 : k \in Same => k + 1 \in Same
  BY <1>1
<1>3. \A k \in 0 .. last : k \in Same
  <2>1. last \in Nat
    OBVIOUS
  <2> HIDE DEF Same, last
  <2> QED BY <1>2, <2>1, CountingUp
<1>4. \A k \in 0 .. Len(log) : f[k] = g[k]
  BY <1>3
<1>5. /\ f = [k \in 0 .. Len(log) |-> f[k]]
      /\ g = [k \in 0 .. Len(log) |-> g[k]]
  BY DEF Replays
<1> QED BY <1>4, <1>5

LEMMA ReplayExists ==
  ASSUME NEW log, Len(log) \in Nat
  PROVE  \E f : Replays(f, log)
<1> DEFINE ReplaysUpTo(f, k) ==
             f = [n \in 0 .. k |-> IF n = 0 THEN Seed ELSE Applied(f[n - 1], log[n])]
           Defined == {k \in 0 .. Len(log) : \E f : ReplaysUpTo(f, k)}
<1>1. 0 \in Defined
  <2>1. ReplaysUpTo([n \in 0 .. 0 |-> Seed], 0)
    OBVIOUS
  <2> HIDE DEF ReplaysUpTo
  <2>2. 0 \in 0 .. Len(log) /\ \E f : ReplaysUpTo(f, 0)
    BY <2>1
  <2> QED BY <2>2
<1>2. ASSUME NEW k \in 0 .. Len(log) - 1, k \in Defined
      PROVE  k + 1 \in Defined
  <2>1. PICK f : ReplaysUpTo(f, k)
    BY <1>2
  <2> DEFINE g == [n \in 0 .. k + 1 |-> IF n <= k THEN f[n] ELSE Applied(f[k], log[k + 1])]
  <2>2. ASSUME NEW n \in 0 .. k + 1
        PROVE  g[n] = IF n = 0 THEN Seed ELSE Applied(g[n - 1], log[n])
    <3>1. CASE n = 0
      BY <2>1, <3>1
    <3>2. CASE n \in 1 .. k
      <4>1. f[n] = Applied(f[n - 1], log[n])
        BY <2>1, <3>2
      <4>2. g[n] = f[n] /\ g[n - 1] = f[n - 1]
        BY <3>2
      <4> QED BY <3>2, <4>1, <4>2
    <3>3. CASE n = k + 1
      <4>1. g[n] = Applied(f[k], log[k + 1]) /\ g[n - 1] = f[k]
        BY <3>3
      <4> QED BY <3>3, <4>1
    <3> QED BY <3>1, <3>2, <3>3
  <2>3. ReplaysUpTo(g, k + 1)
    BY <2>2
  <2> HIDE DEF g, ReplaysUpTo
  <2>4. k + 1 \in 0 .. Len(log) /\ \E h : ReplaysUpTo(h, k + 1)
    BY <2>3
  <2> QED BY <2>4
<1>3. Len(log) \in Defined
  <2> DEFINE n == Len(log)
  <2>1. n \in Nat /\ \A k \in 0 .. n - 1 : k \in Defined => k + 1 \in Defined
    BY <1>2
  <2> HIDE DEF Defined, n
  <2>2. \A k \in 0 .. n : k \in Defined
    BY <1>1, <2>1, CountingUp
  <2> QED BY <2>1, <2>2 DEF n
<1> QED BY <1>3 DEF Replays

LEMMA BoardIsLast ==
  ASSUME NEW log, Len(log) \in Nat, NEW after, Replays(after, log)
  PROVE  Board(log) = after[Len(log)]
<1>1. \A f : Replays(f, log) => f = after
  BY ReplayIsUnique
<1> QED BY <1>1 DEF Board, Replays

LEMMA BoardOfEmpty == Board(<< >>) = Seed
<1>1. Len(<< >>) = 0
  OBVIOUS
<1>2. PICK f : Replays(f, << >>)
  BY <1>1, ReplayExists
<1>3. f[0] = Seed
  BY <1>1, <1>2 DEF Replays
<1> QED BY <1>1, <1>2, <1>3, BoardIsLast

LEMMA BoardOfAppend ==
  ASSUME NEW log \in Seq(ClientCommands), NEW c \in ClientCommands
  PROVE  Board(Append(log, c)) = Applied(Board(log), c)
<1> DEFINE longer == Append(log, c)
<1>1. /\ Len(log) \in Nat
      /\ Len(longer) = Len(log) + 1
      /\ \A i \in 1 .. Len(log) : longer[i] = log[i]
      /\ longer[Len(log) + 1] = c
  BY LenProperties, AppendProperties
<1> HIDE DEF longer
<1>2. PICK g : Replays(g, longer)
  BY <1>1, ReplayExists
<1> DEFINE f == [n \in 0 .. Len(log) |-> g[n]]
<1>3. /\ g[0] = Seed
      /\ \A n \in 1 .. Len(log) + 1 : g[n] = Applied(g[n - 1], longer[n])
  BY <1>1, <1>2 DEF Replays
<1>4. ASSUME NEW n \in 0 .. Len(log)
      PROVE  f[n] = IF n = 0 THEN Seed ELSE Applied(f[n - 1], log[n])
  BY <1>1, <1>3
<1>5. Replays(f, log)
  BY <1>4 DEF Replays
<1>6. Board(log) = g[Len(log)]
  <2>1. f[Len(log)] = g[Len(log)]
    BY <1>1
  <2> HIDE DEF f
  <2> QED BY <1>1, <1>5, <2>1, BoardIsLast
<1>7. Board(longer) = g[Len(log) + 1]
  BY <1>1, <1>2, BoardIsLast
<1>8. g[Len(log) + 1] = Applied(g[Len(log)], c)
  BY <1>1, <1>3
<1> QED BY <1>6, <1>7, <1>8 DEF longer

-----------------------------------------------------------------------------
(* The log can be replayed and its board is coherent, whoever holds the    *)
(* lock: a task replaces the file by a log it found good and one command   *)
(* that this log accepts.                                                  *)

Good(log) ==
  /\ log \in Seq(ClientCommands)
  /\ Replayable(log)
  /\ Board(log) \in Boards
  /\ Coherent(Board(log))

\* Command c changes the board of log, and there is room for it.
Fits(log, c) == Good(log) /\ Changes(log, c) /\ Len(log) < MaxLog

LEMMA EmptyIsGood == Good(<< >>)
<1>1. << >> \in Seq(ClientCommands) /\ Len(<< >>) = 0 /\ DOMAIN << >> = {}
  OBVIOUS
<1>2. Replayable(<< >>)
  BY <1>1, StoreAssumption DEF Replayable
<1> QED BY <1>1, <1>2, BoardOfEmpty, SeedAssumption DEF Good

LEMMA AppendReplays ==
  ASSUME NEW log \in Seq(ClientCommands), Replayable(log), NEW c \in ClientCommands,
         Len(log) < MaxLog, ~ Refused(Board(log), c)
  PROVE  Replayable(Append(log, c))
<1> DEFINE longer == Append(log, c)
<1>1. /\ Len(log) \in Nat
      /\ Len(longer) = Len(log) + 1
      /\ DOMAIN longer = 1 .. Len(log) + 1
      /\ DOMAIN log = 1 .. Len(log)
      /\ \A i \in 1 .. Len(log) : longer[i] = log[i]
      /\ longer[Len(log) + 1] = c
      /\ MaxLog \in Nat
  BY LenProperties, AppendProperties, StoreAssumption
<1>2. \A n \in 0 .. Len(log) : SubSeq(longer, 1, n) = SubSeq(log, 1, n)
  BY PrefixOfAppend
<1>3. SubSeq(log, 1, Len(log)) = log
  BY SubSeqFull
<1> HIDE DEF longer
<1>4. ASSUME NEW i \in DOMAIN longer
      PROVE  ~ Refused(Board(SubSeq(longer, 1, i - 1)), longer[i])
  <2>1. i - 1 \in 0 .. Len(log)
    BY <1>1
  <2>2. SubSeq(longer, 1, i - 1) = SubSeq(log, 1, i - 1)
    BY <1>2, <2>1
  <2>3. CASE i \in DOMAIN log
    <3>1. longer[i] = log[i]
      BY <1>1, <2>3
    <3> QED BY <2>2, <2>3, <3>1 DEF Replayable
  <2>4. CASE i = Len(log) + 1
    <3>1. longer[i] = c /\ i - 1 = Len(log)
      BY <1>1, <2>4
    <3>2. SubSeq(longer, 1, i - 1) = log
      BY <1>3, <2>2, <3>1
    <3> QED BY <3>1, <3>2
  <2> QED BY <1>1, <2>3, <2>4
<1>5. Len(longer) <= MaxLog
  BY <1>1
<1>6. Replayable(longer)
  BY <1>4, <1>5 DEF Replayable
<1> QED BY <1>6 DEF longer

LEMMA AppendIsGood ==
  ASSUME NEW log, NEW c \in ClientCommands, Fits(log, c)
  PROVE  Good(Append(log, c))
<1>1. log \in Seq(ClientCommands) /\ Board(log) \in Boards /\ c \in Commands
  BY StoreAssumption DEF Fits, Good
<1>2. ~ Refused(Board(log), c)
  BY DEF Fits, Changes
<1>3. Board(Append(log, c)) = Applied(Board(log), c)
  BY <1>1, BoardOfAppend
<1>4. Board(Append(log, c)) \in Boards
  BY <1>1, <1>2, <1>3, BoardGrows
<1>5. Coherent(Board(Append(log, c)))
  BY <1>1, <1>2, <1>3, CommandsKeepCoherence DEF Fits, Good
<1>6. Replayable(Append(log, c))
  BY <1>1, <1>2, AppendReplays DEF Fits, Good
<1>7. Append(log, c) \in Seq(ClientCommands)
  BY <1>1, AppendProperties
<1> QED BY <1>4, <1>5, <1>6, <1>7 DEF Good

\* What execute() may conclude from each outcome.
LEMMA OutcomeMeaning ==
  ASSUME NEW log, NEW c
  PROVE  /\ Outcome(log, c) = "OK" => InEffect(Board(log), c)
         /\ Outcome(log, c) = "CHANGED" => Changes(log, c) /\ ~ (Len(log) >= MaxLog)
         /\ Outcome(log, c) \in (Replies \ {"none"}) \cup {"CHANGED"}
BY DEF Outcome, InEffect, Changes, Replies

Knows(t) ==
  /\ pc[t] # "idle" => command[t] \in ClientCommands
  /\ pc[t] = "applied" => Fits(loaded[t], command[t])

SInv == TypeOK /\ Good(file) /\ \A t \in Tasks : Knows(t)

\* Only task t moves: what the others know is untouched.
LEMMA TaskStep ==
  ASSUME SInv, NEW t \in Tasks, TypeOK', Good(file'), Knows(t)',
         \A u \in Tasks \ {t} :
           pc'[u] = pc[u] /\ command'[u] = command[u] /\ loaded'[u] = loaded[u]
  PROVE  SInv'
<1>1. ASSUME NEW u \in Tasks
      PROVE  Knows(u)'
  <2>1. CASE u = t
    BY <2>1
  <2>2. CASE u # t
    BY <2>2 DEF SInv, Knows
  <2> QED BY <2>1, <2>2
<1>2. Good(file)'
  BY DEF Good
<1> QED BY <1>1, <1>2 DEF SInv

LEMMA AnswerStep ==
  ASSUME SInv, NEW t \in Tasks, NEW s, Answer(t, s), UNCHANGED file,
         command[t] \in ClientCommands, lock' \in Tasks \cup {Free, Stale},
         intruded' \in BOOLEAN
  PROVE  SInv'
<1>1. /\ pc' = [pc EXCEPT ![t] = "idle"]
      /\ command' = [command EXCEPT ![t] = NoCommand]
      /\ loaded' = [loaded EXCEPT ![t] = << >>]
      /\ reply' = [reply EXCEPT ![t] = "none"]
      /\ confirmed' \in {confirmed, confirmed \cup {command[t]}}
  BY DEF Answer, Rest, Goto
<1>2. TypeOK'
  BY <1>1 DEF SInv, TypeOK, Replies
<1>3. Knows(t)'
  BY <1>1 DEF SInv, TypeOK, Knows
<1>4. \A u \in Tasks \ {t} :
        pc'[u] = pc[u] /\ command'[u] = command[u] /\ loaded'[u] = loaded[u]
  BY <1>1 DEF SInv, TypeOK
<1> QED BY <1>2, <1>3, <1>4, TaskStep DEF SInv

LEMMA FinallyStep ==
  ASSUME SInv, NEW t \in Tasks, NEW s \in Replies, Finally(t, s), pc[t] # "idle",
         intruded' \in BOOLEAN,
         Good(file'), UNCHANGED <<lock, command, confirmed>>,
         \/ loaded' = loaded
         \/ loaded' = [loaded EXCEPT ![t] = file]
  PROVE  SInv'
<1>1. /\ pc' = [pc EXCEPT ![t] = "releasing"]
      /\ reply' = [reply EXCEPT ![t] = s]
      /\ file \in Seq(ClientCommands) /\ file' \in Seq(ClientCommands)
  BY DEF Finally, Goto, SInv, Good
<1>2. TypeOK'
  BY <1>1 DEF SInv, TypeOK
<1>3. Knows(t)'
  BY <1>1 DEF SInv, TypeOK, Knows
<1>4. \A u \in Tasks \ {t} :
        pc'[u] = pc[u] /\ command'[u] = command[u] /\ loaded'[u] = loaded[u]
  BY <1>1 DEF SInv, TypeOK
<1> QED BY <1>2, <1>3, <1>4, TaskStep

LEMMA SInvStep == SInv /\ [Next]_vars => SInv'
<1> SUFFICES ASSUME SInv, [Next]_vars, intruded' \in BOOLEAN PROVE SInv'
  BY DEF Next, Begin, Step, Crash, RemoveLock, vars, SInv, TypeOK
<1>0. /\ TypeOK /\ Good(file)
      /\ \A t \in Tasks : Knows(t)
      /\ UNCHANGED file => Good(file')
  BY DEF SInv
<1>1. ASSUME NEW t \in Tasks, NEW c \in ClientCommands, Begin(t, c)
      PROVE  SInv'
  <2>1. /\ pc' = [pc EXCEPT ![t] = "begun"]
        /\ command' = [command EXCEPT ![t] = c]
        /\ UNCHANGED <<file, lock, loaded, reply, confirmed>>
    BY <1>1 DEF Begin, Goto
  <2>2. TypeOK' /\ Knows(t)'
    BY <1>0, <2>1 DEF TypeOK, Knows
  <2>3. \A u \in Tasks \ {t} :
          pc'[u] = pc[u] /\ command'[u] = command[u] /\ loaded'[u] = loaded[u]
    BY <1>0, <2>1 DEF TypeOK
  <2> QED BY <1>0, <2>1, <2>2, <2>3, TaskStep
<1>2. ASSUME NEW t \in Tasks, TakeLock(t)
      PROVE  SInv'
  <2>1. pc[t] = "begun" /\ command[t] \in ClientCommands /\ UNCHANGED file
    BY <1>0, <1>2 DEF TakeLock, At, Knows
  <2>2. CASE lock' = t /\ Goto(t, "locked") /\ UNCHANGED <<command, loaded, reply, confirmed>>
    <3>1. TypeOK' /\ Knows(t)'
      BY <1>0, <2>1, <2>2 DEF TypeOK, Knows, Goto
    <3>2. \A u \in Tasks \ {t} :
            pc'[u] = pc[u] /\ command'[u] = command[u] /\ loaded'[u] = loaded[u]
      BY <1>0, <2>2 DEF TypeOK, Goto
    <3> QED BY <1>0, <2>1, <3>1, <3>2, TaskStep
  <2>3. CASE UNCHANGED lock /\ Answer(t, "BOARD_BUSY")
    <3>1. lock' \in Tasks \cup {Free, Stale}
      BY <1>0, <2>3 DEF TypeOK
    <3> QED BY <2>1, <2>3, <3>1, AnswerStep
  <2> QED BY <1>2, <2>2, <2>3 DEF TakeLock
<1>3. ASSUME NEW t \in Tasks, Load(t)
      PROVE  SInv'
  <2> DEFINE outcome == Outcome(file, command[t])
  <2>1. /\ pc[t] = "locked" /\ command[t] \in ClientCommands
        /\ loaded' = [loaded EXCEPT ![t] = file]
        /\ UNCHANGED <<file, lock, command, confirmed>>
    BY <1>0, <1>3 DEF Load, At, Knows
  <2>2. CASE outcome = "CHANGED" /\ Goto(t, "applied") /\ UNCHANGED reply
    <3>1. Fits(file, command[t])
      <4>1. Len(file) \in Nat /\ MaxLog \in Nat
        BY <1>0, LenProperties, StoreAssumption DEF TypeOK
      <4> QED BY <1>0, <2>2, <4>1, OutcomeMeaning DEF Fits
    <3>2. /\ pc' = [pc EXCEPT ![t] = "applied"]
          /\ loaded'[t] = file /\ command'[t] = command[t]
      BY <1>0, <2>1, <2>2 DEF TypeOK, Goto
    <3>3. Fits(loaded'[t], command'[t])
      BY <3>1, <3>2
    <3>4. Knows(t)'
      BY <2>1, <3>2, <3>3 DEF Knows, Fits, Good
    <3>5. TypeOK'
      BY <1>0, <2>1, <2>2, <3>2 DEF TypeOK
    <3>6. \A u \in Tasks \ {t} :
            pc'[u] = pc[u] /\ command'[u] = command[u] /\ loaded'[u] = loaded[u]
      BY <1>0, <2>1, <3>2 DEF TypeOK
    <3> QED BY <1>0, <2>1, <3>4, <3>5, <3>6, TaskStep
  <2>3. CASE outcome # "CHANGED" /\ Finally(t, outcome)
    <3>1. outcome \in Replies
      BY <2>3, OutcomeMeaning
    <3> HIDE DEF outcome
    <3> QED BY <1>0, <2>1, <2>3, <3>1, FinallyStep
  <2> QED BY <1>3, <2>2, <2>3 DEF Load
<1>4. ASSUME NEW t \in Tasks, Replace(t)
      PROVE  SInv'
  <2>1. /\ pc[t] = "applied" /\ command[t] \in ClientCommands
        /\ Fits(loaded[t], command[t])
        /\ UNCHANGED <<lock, command, loaded, confirmed>>
        /\ "OK" \in Replies /\ "LOCAL_STORE_UNAVAILABLE" \in Replies
    BY <1>0, <1>4 DEF Replace, At, Knows, Replies
  <2>2. CASE file' = Append(loaded[t], command[t]) /\ Finally(t, "OK")
    <3>1. Good(file')
      BY <2>1, <2>2, AppendIsGood
    <3> QED BY <2>1, <2>2, <3>1, FinallyStep
  <2>3. CASE UNCHANGED file /\ Finally(t, "LOCAL_STORE_UNAVAILABLE")
    BY <1>0, <2>1, <2>3, FinallyStep
  <2> QED BY <1>4, <2>2, <2>3 DEF Replace
<1>5. ASSUME NEW t \in Tasks, Release(t)
      PROVE  SInv'
  <2>1. /\ command[t] \in ClientCommands /\ UNCHANGED file
        /\ lock' \in Tasks \cup {Free, Stale}
    BY <1>0, <1>5 DEF Release, At, Knows
  <2>2. PICK s : Answer(t, s)
    BY <1>5 DEF Release
  <2> QED BY <2>1, <2>2, AnswerStep
<1>6. ASSUME NEW t \in Tasks, Crash(t)
      PROVE  SInv'
  <2>1. /\ pc' = [pc EXCEPT ![t] = "idle"]
        /\ command' = [command EXCEPT ![t] = NoCommand]
        /\ loaded' = [loaded EXCEPT ![t] = << >>]
        /\ reply' = [reply EXCEPT ![t] = "none"]
        /\ lock' \in {lock, Stale}
        /\ UNCHANGED <<file, confirmed>>
    BY <1>6 DEF Crash, Rest, Goto
  <2>2. TypeOK' /\ Knows(t)'
    BY <1>0, <2>1 DEF TypeOK, Knows, Replies
  <2>3. \A u \in Tasks \ {t} :
          pc'[u] = pc[u] /\ command'[u] = command[u] /\ loaded'[u] = loaded[u]
    BY <1>0, <2>1 DEF TypeOK
  <2> QED BY <1>0, <2>1, <2>2, <2>3, TaskStep
<1>7. CASE RemoveLock \/ UNCHANGED vars
  <2>1. UNCHANGED <<file, pc, command, loaded, reply, confirmed>>
        /\ lock' \in Tasks \cup {Free, Stale} /\ Good(file) /\ \A t \in Tasks : Knows(t)
    BY <1>0, <1>7 DEF RemoveLock, vars, TypeOK
  <2>2. TypeOK'
    BY <1>0, <2>1 DEF TypeOK
  <2>3. Good(file)' /\ \A t \in Tasks : Knows(t)'
    BY <2>1 DEF Knows, Good
  <2> QED BY <2>2, <2>3 DEF SInv
<1> QED BY <1>1, <1>2, <1>3, <1>4, <1>5, <1>6, <1>7 DEF Next, Step

LEMMA SInvInductive == Spec => []SInv
<1>1. Init => SInv
  <2> SUFFICES ASSUME Init PROVE SInv
    OBVIOUS
  <2>1. TypeOK
    BY EmptyIsGood DEF Init, TypeOK, Replies, Good
  <2> QED BY <2>1, EmptyIsGood DEF Init, SInv, Knows
<1> QED BY <1>1, SInvStep, PTL DEF Spec

\* The types of the store's state.
THEOREM BoardStoreTypeCorrect == Spec => []TypeOK
BY SInvInductive, PTL DEF SInv

\* No crash, retry, removed lock or interleaving of any number of writers makes
\* a log that a later load() refuses.
THEOREM LogAlwaysReplays == Spec => []LogReplays
<1>1. SInv => LogReplays
  BY DEF SInv, Good, LogReplays
<1> QED BY <1>1, SInvInductive, PTL

\* Nor one whose board has a request applied twice, a participant with two
\* definitions, a reply outside its thread or a receipt of someone not
\* addressed.
THEOREM BoardStaysCoherent == Spec => []BoardIsCoherent
<1>1. SInv => BoardIsCoherent
  BY DEF SInv, Good, BoardIsCoherent
<1> QED BY <1>1, SInvInductive, PTL

-----------------------------------------------------------------------------
(* What holds if the operator removes no lock of a running process: a task *)
(* that passed TakeLock holds the lock, so the log it loaded is the log it *)
(* replaces, and no effect is lost.                                        *)

Holds(t) ==
  /\ pc[t] \in {"locked", "applied", "releasing"} => lock = t
  /\ pc[t] = "applied" => loaded[t] = file
  /\ pc[t] = "releasing" /\ reply[t] = "OK" => InEffect(Board(file), command[t])

Kept == \A c \in confirmed : InEffect(Board(file), c)

LInv == Kept /\ \A t \in Tasks : Holds(t)

\* Only task t moves, and only the holder of the lock changes the file.
LEMMA HolderStep ==
  ASSUME LInv, NEW t \in Tasks, Holds(t)', Kept',
         \/ lock' = lock /\ file' = file
         \/ lock \in {Free, t},
         \A u \in Tasks \ {t} :
           /\ pc'[u] = pc[u] /\ command'[u] = command[u]
           /\ loaded'[u] = loaded[u] /\ reply'[u] = reply[u],
         lock = Free => file' = file
  PROVE  LInv'
<1>1. ASSUME NEW u \in Tasks \ {t}
      PROVE  Holds(u)'
  <2>1. Holds(u)
    BY DEF LInv
  <2>2. CASE pc[u] \in {"locked", "applied", "releasing"}
    <3>1. lock = u /\ u # Free
      BY <2>1, <2>2, TasksAreNotLockStates DEF Holds
    <3>2. lock' = lock /\ file' = file
      BY <3>1
    <3> QED BY <2>1, <3>2 DEF Holds
  <2>3. CASE pc[u] \notin {"locked", "applied", "releasing"}
    BY <2>3 DEF Holds
  <2> QED BY <2>2, <2>3
<1> QED BY <1>1 DEF LInv

LEMMA LInvStep ==
  ASSUME SInv, LInv, [Next]_vars, ~ intruded'
  PROVE  LInv'
<1>0. /\ TypeOK /\ Good(file) /\ Kept
      /\ \A t \in Tasks : Knows(t) /\ Holds(t)
      /\ UNCHANGED <<file, confirmed>> => Kept'
  BY DEF SInv, LInv, Kept
<1>1. ASSUME NEW t \in Tasks, NEW c \in ClientCommands, Begin(t, c)
      PROVE  LInv'
  <2>1. /\ pc' = [pc EXCEPT ![t] = "begun"]
        /\ command' = [command EXCEPT ![t] = c]
        /\ UNCHANGED <<file, lock, loaded, reply, confirmed>>
    BY <1>1 DEF Begin, Goto
  <2>2. Holds(t)'
    BY <1>0, <2>1 DEF TypeOK, Holds
  <2>3. \A u \in Tasks \ {t} : pc'[u] = pc[u] /\ command'[u] = command[u]
    BY <1>0, <2>1 DEF TypeOK
  <2> QED BY <1>0, <2>1, <2>2, <2>3, HolderStep
<1>2. ASSUME NEW t \in Tasks, TakeLock(t)
      PROVE  LInv'
  <2>1. UNCHANGED file
    BY <1>2 DEF TakeLock
  <2>2. CASE /\ lock = Free /\ lock' = t /\ Goto(t, "locked")
             /\ UNCHANGED <<command, loaded, reply, confirmed>>
    <3>1. pc' = [pc EXCEPT ![t] = "locked"]
      BY <2>2 DEF Goto
    <3>2. Holds(t)' /\ \A u \in Tasks \ {t} : pc'[u] = pc[u]
      BY <1>0, <2>2, <3>1 DEF TypeOK, Holds
    <3> QED BY <1>0, <2>1, <2>2, <3>2, HolderStep
  <2>3. CASE UNCHANGED lock /\ Answer(t, "BOARD_BUSY")
    <3>1. /\ pc' = [pc EXCEPT ![t] = "idle"]
          /\ command' = [command EXCEPT ![t] = NoCommand]
          /\ loaded' = [loaded EXCEPT ![t] = << >>]
          /\ reply' = [reply EXCEPT ![t] = "none"]
          /\ UNCHANGED confirmed
      BY <2>3 DEF Answer, Rest, Goto
    <3>2. Holds(t)'
      BY <1>0, <3>1 DEF TypeOK, Holds
    <3>3. \A u \in Tasks \ {t} :
           /\ pc'[u] = pc[u] /\ command'[u] = command[u]
           /\ loaded'[u] = loaded[u] /\ reply'[u] = reply[u]
      BY <1>0, <3>1 DEF TypeOK
    <3> QED BY <1>0, <2>1, <2>3, <3>1, <3>2, <3>3, HolderStep
  <2> QED BY <1>2, <2>2, <2>3 DEF TakeLock
<1>3. ASSUME NEW t \in Tasks, Load(t)
      PROVE  LInv'
  <2> DEFINE outcome == Outcome(file, command[t])
  <2>1. /\ pc[t] = "locked" /\ lock = t
        /\ loaded' = [loaded EXCEPT ![t] = file]
        /\ UNCHANGED <<file, lock, command, confirmed>>
    BY <1>0, <1>3 DEF Load, At, Holds
  <2>2. outcome = "OK" => InEffect(Board(file), command[t])
    BY OutcomeMeaning
  <2>3. \/ outcome = "CHANGED" /\ Goto(t, "applied") /\ UNCHANGED reply
        \/ outcome # "CHANGED" /\ Finally(t, outcome)
    BY <1>3 DEF Load
  <2> HIDE DEF outcome
  <2>4. /\ loaded'[t] = file
        /\ \/ pc'[t] = "applied"
           \/ pc'[t] = "releasing" /\ reply'[t] = outcome
    BY <1>0, <2>1, <2>3 DEF TypeOK, Goto, Finally
  <2>5. Holds(t)'
    BY <2>1, <2>2, <2>4 DEF Holds
  <2>6. \A u \in Tasks \ {t} :
           /\ pc'[u] = pc[u] /\ command'[u] = command[u]
           /\ loaded'[u] = loaded[u] /\ reply'[u] = reply[u]
    BY <1>0, <2>1, <2>3 DEF TypeOK, Goto, Finally
  <2> QED BY <1>0, <2>1, <2>5, <2>6, HolderStep
<1>4. ASSUME NEW t \in Tasks, Replace(t)
      PROVE  LInv'
  <2>1. /\ pc[t] = "applied" /\ lock = t /\ loaded[t] = file
        /\ Fits(file, command[t]) /\ command[t] \in ClientCommands
        /\ UNCHANGED <<lock, command, loaded, confirmed>>
        /\ t # Free
    BY <1>0, <1>4, TasksAreNotLockStates DEF Replace, At, Holds, Knows
  <2>2. ASSUME NEW s, Finally(t, s)
        PROVE  /\ pc'[t] = "releasing" /\ reply'[t] = s
               /\ \A u \in Tasks \ {t} : pc'[u] = pc[u] /\ reply'[u] = reply[u]
    BY <1>0, <2>2 DEF TypeOK, Finally, Goto
  <2>3. CASE file' = Append(loaded[t], command[t]) /\ Finally(t, "OK")
    <3>1. /\ Board(file) \in Boards /\ command[t] \in Commands
          /\ ~ Refused(Board(file), command[t])
          /\ Board(file') = Applied(Board(file), command[t])
      BY <2>1, <2>3, BoardOfAppend, StoreAssumption DEF Fits, Good, Changes
    <3>2. Holds(t)'
      BY <2>1, <2>2, <2>3, <3>1, CommandTakesEffect DEF Holds
    <3>3. ASSUME NEW c \in confirmed'
          PROVE  InEffect(Board(file'), c)
      <4>1. c \in Commands /\ InEffect(Board(file), c)
        BY <1>0, <2>1, <3>3, StoreAssumption DEF TypeOK, Kept
      <4> QED BY <3>1, <4>1, EffectsLast
    <3>4. Kept'
      BY <3>3 DEF Kept
    <3> QED BY <1>0, <2>1, <2>2, <2>3, <3>2, <3>4, HolderStep
  <2>4. CASE UNCHANGED file /\ Finally(t, "LOCAL_STORE_UNAVAILABLE")
    <3>1. Holds(t)'
      BY <2>1, <2>2, <2>4 DEF Holds
    <3> QED BY <1>0, <2>1, <2>2, <2>4, <3>1, HolderStep
  <2> QED BY <1>4, <2>3, <2>4 DEF Replace
<1>5. ASSUME NEW t \in Tasks, Release(t)
      PROVE  LInv'
  <2>1. /\ pc[t] = "releasing" /\ lock = t /\ t # Free /\ UNCHANGED file
        /\ Answer(t, reply[t])
    BY <1>0, <1>5, TasksAreNotLockStates DEF Release, At, Holds
  <2>2. /\ pc' = [pc EXCEPT ![t] = "idle"]
        /\ command' = [command EXCEPT ![t] = NoCommand]
        /\ loaded' = [loaded EXCEPT ![t] = << >>]
        /\ reply' = [reply EXCEPT ![t] = "none"]
        /\ confirmed' = IF reply[t] = "OK" THEN confirmed \cup {command[t]} ELSE confirmed
    BY <2>1 DEF Answer, Rest, Goto
  <2>3. Kept'
    BY <1>0, <2>1, <2>2 DEF Kept, Holds
  <2>4. Holds(t)'
    BY <1>0, <2>2 DEF TypeOK, Holds
  <2>5. \A u \in Tasks \ {t} :
           /\ pc'[u] = pc[u] /\ command'[u] = command[u]
           /\ loaded'[u] = loaded[u] /\ reply'[u] = reply[u]
    BY <1>0, <2>2 DEF TypeOK
  <2> QED BY <1>0, <2>1, <2>3, <2>4, <2>5, HolderStep
<1>6. ASSUME NEW t \in Tasks, Crash(t)
      PROVE  LInv'
  <2>1. /\ pc' = [pc EXCEPT ![t] = "idle"]
        /\ command' = [command EXCEPT ![t] = NoCommand]
        /\ loaded' = [loaded EXCEPT ![t] = << >>]
        /\ reply' = [reply EXCEPT ![t] = "none"]
        /\ lock' = lock \/ lock = t
        /\ UNCHANGED <<file, confirmed>>
    BY <1>6 DEF Crash, Rest, Goto
  <2>2. Holds(t)'
    BY <1>0, <2>1 DEF TypeOK, Holds
  <2>3. \A u \in Tasks \ {t} :
           /\ pc'[u] = pc[u] /\ command'[u] = command[u]
           /\ loaded'[u] = loaded[u] /\ reply'[u] = reply[u]
    BY <1>0, <2>1 DEF TypeOK
  <2> QED BY <1>0, <2>1, <2>2, <2>3, HolderStep
<1>7. CASE RemoveLock
  <2>1. lock = Stale /\ UNCHANGED <<file, pc, command, loaded, reply, confirmed>>
    BY <1>7 DEF RemoveLock
  <2>2. \A t \in Tasks : Holds(t)'
    BY <1>0, <2>1, TasksAreNotLockStates DEF Holds
  <2> QED BY <1>0, <2>1, <2>2 DEF LInv
<1>8. CASE UNCHANGED vars
  BY <1>8 DEF vars, LInv, Holds, Kept
<1> QED BY <1>1, <1>2, <1>3, <1>4, <1>5, <1>6, <1>7, <1>8 DEF Next, Step

\* Nothing but the removal of a live lock sets intruded, and nothing resets it.
LEMMA IntrusionIsRemoval ==
  ASSUME SInv, [Next]_vars, ~ intruded'
  PROVE  ~ intruded
<1>1. intruded' = intruded \/ intruded' = TRUE
  BY DEF Next, Begin, Step, Crash, RemoveLock, vars
<1> QED BY <1>1

LEMMA LInvInductive == Spec => [](intruded \/ LInv)
<1>1. Init => LInv
  BY DEF Init, LInv, Holds, Kept
<1>2. SInv /\ (intruded \/ LInv) /\ [Next]_vars => (intruded \/ LInv)'
  BY LInvStep, IntrusionIsRemoval
<1> QED BY <1>1, <1>2, SInvInductive, PTL DEF Spec

\* Until the lock of a running call is removed, a command that a client was told
\* has succeeded stays in effect: sent again, it is found.
THEOREM ConfirmationsStayInEffect == Spec => []ConfirmedStaysInEffect
<1>1. intruded \/ LInv => ConfirmedStaysInEffect
  BY DEF LInv, Kept, ConfirmedStaysInEffect
<1> QED BY <1>1, LInvInductive, PTL

-----------------------------------------------------------------------------
(* Under the same condition the store implements the append-only board.    *)

LEMMA StoreStepRefines ==
  ASSUME SInv, LInv, [Next]_vars
  PROVE  [Promise!Next]_(Promise!vars)
<1>0. /\ TypeOK
      /\ \A t \in Tasks : Knows(t) /\ Holds(t)
  BY DEF SInv, LInv
<1>1. ASSUME NEW t \in Tasks, Replace(t)
      PROVE  [Promise!Next]_(Promise!vars)
  <2>1. /\ Changes(file, command[t]) /\ command[t] \in ClientCommands
        /\ loaded[t] = file /\ UNCHANGED confirmed
        /\ file' \in {file, Append(loaded[t], command[t])}
    BY <1>0, <1>1 DEF Replace, At, Holds, Knows, Fits
  <2> QED BY <2>1 DEF Promise!Next, Promise!Execute, Promise!vars
<1>2. ASSUME NEW t \in Tasks, Release(t)
      PROVE  [Promise!Next]_(Promise!vars)
  <2>1. /\ lock = t /\ t # Free /\ UNCHANGED file /\ command[t] \in ClientCommands
        /\ Answer(t, reply[t])
        /\ reply[t] = "OK" => Shows(file, command[t])
    BY <1>0, <1>2, TasksAreNotLockStates DEF Release, At, Holds, Knows, Shows
  <2>2. confirmed' = IF reply[t] = "OK" THEN confirmed \cup {command[t]} ELSE confirmed
    BY <2>1 DEF Answer
  <2> QED BY <2>1, <2>2 DEF Promise!Next, Promise!Confirm, Promise!vars
<1>3. CASE ~ \E t \in Tasks : Replace(t) \/ Release(t)
  <2>1. UNCHANGED <<file, confirmed>>
    BY <1>3 DEF Next, Step, Begin, TakeLock, Answer, Load, Crash, RemoveLock, vars
  <2> QED BY <2>1 DEF Promise!vars
<1> QED BY <1>1, <1>2, <1>3

\* However many writers there are and whatever crashes, the board as clients
\* see it is one log to which accepted commands that change it are appended and
\* from which none is removed, and success is only ever claimed of a command
\* the board shows.
THEOREM StoreImplementsAppendOnlyBoard == Spec => AppendOnlyBoardSpec
<1>1. Init => Promise!Init
  BY DEF Init, Promise!Init
<1>2. SInv /\ (intruded \/ LInv) /\ [Next]_vars
        => [intruded' \/ Promise!Next]_<<file, confirmed>>
  BY StoreStepRefines, IntrusionIsRemoval DEF Promise!vars
<1> QED BY <1>1, <1>2, SInvInductive, LInvInductive, PTL DEF Spec, AppendOnlyBoardSpec
=============================================================================
