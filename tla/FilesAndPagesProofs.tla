------------------------ MODULE FilesAndPagesProofs -------------------------
(***************************************************************************)
(* Proofs about the create-only files of data-os/local-files.ts, for any   *)
(* number of calls, names and contents, any number of parts of a file and  *)
(* any supply of inodes; and about six pages, for any data they show: the  *)
(* notation draft, the spatial inquiry, the composer of messages, the      *)
(* production page, the earth twin and the report of a replay. Each is     *)
(* proved of its own specification; the last section concludes what the    *)
(* runs of FilesAndPages check.                                            *)
(***************************************************************************)
EXTENDS FilesAndPages, FiniteSetTheorems, SequenceTheorems, TLAPS

-----------------------------------------------------------------------------
(* ImmutableFiles. The inductive invariant.                                *)

\* A name leads to a file that is complete.
NameInv(n) ==
  /\ entry[n] # Absent =>
       parts[entry[n]] = Size /\ bytes[entry[n]] \in Contents
  /\ entry[n] = Absent => created[n] = 0
  /\ created[n] <= 1

\* What a call that owns a temporary file knows of it.  The file has no name
\* of the folder while it is written.
Owner(t) ==
  /\ temp[t] \in temporaries
  /\ content[t] \in Contents
  /\ pc[t] \in {"open", "read", "write", "cleanup"}
  /\ bytes[temp[t]] = content[t]
  /\ At(t, "write") => \A n \in Names : entry[n] # temp[t]

\* What a call knows at each of its places: a reader has open the file the
\* name still leads to, and whoever is to answer CREATED linked his own.
CallInv(t) ==
  /\ temp[t] # Absent => Owner(t)
  /\ pc[t] \in {"write", "cleanup"} => temp[t] # Absent
  /\ At(t, "make") => content[t] \in Contents
  /\ opened[t] # Absent => At(t, "read")
  /\ At(t, "read") => opened[t] # Absent /\ entry[name[t]] = opened[t]
  /\ At(t, "cleanup") => outcome[t] # "none"
  /\ At(t, "cleanup") /\ outcome[t] = "EXISTING" => Published[name[t]] = content[t]
  /\ At(t, "cleanup") /\ outcome[t] = "CREATED" =>
       entry[name[t]] = temp[t] /\ parts[temp[t]] = Size /\ created[name[t]] = 0

\* No two calls own the same temporary file.
TemporariesApart ==
  \A t, u \in Tasks : temp[t] # Absent /\ temp[t] = temp[u] => t = u

FilesInv ==
  /\ TypeOK
  /\ TemporariesApart
  /\ \A n \in Names : NameInv(n)
  /\ \A t \in Tasks : CallInv(t)

-----------------------------------------------------------------------------
(* Types.                                                                  *)

LEMMA RestTypes ==
  ASSUME TypeOK, NEW t \in Tasks, Rest(t)
  PROVE  /\ pc' \in [Tasks -> Places] /\ name' \in [Tasks -> Names]
         /\ content' \in [Tasks -> Contents \cup {Absent}]
         /\ temp' \in [Tasks -> Inodes \cup {Absent}]
         /\ opened' \in [Tasks -> Inodes \cup {Absent}]
         /\ length' \in [Tasks -> 0 .. Size]
         /\ outcome' \in [Tasks -> {"none", "failed", "EXISTING", "CREATED"}]
<1>1. 0 \in 0 .. Size
  BY FilesAssumption
<1> QED BY <1>1 DEF TypeOK, Rest, Goto, Places

LEMMA FinallyTypes ==
  ASSUME TypeOK, NEW t \in Tasks, NEW o \in {"failed", "EXISTING", "CREATED"}, Finally(t, o)
  PROVE  /\ pc' \in [Tasks -> Places] /\ name' \in [Tasks -> Names]
         /\ content' \in [Tasks -> Contents \cup {Absent}]
         /\ temp' \in [Tasks -> Inodes \cup {Absent}]
         /\ opened' \in [Tasks -> Inodes \cup {Absent}]
         /\ length' \in [Tasks -> 0 .. Size]
         /\ outcome' \in [Tasks -> {"none", "failed", "EXISTING", "CREATED"}]
BY DEF TypeOK, Finally, Goto, Places

LEMMA ThrowTypes ==
  ASSUME TypeOK, NEW t \in Tasks, Throw(t)
  PROVE  /\ pc' \in [Tasks -> Places] /\ name' \in [Tasks -> Names]
         /\ content' \in [Tasks -> Contents \cup {Absent}]
         /\ temp' \in [Tasks -> Inodes \cup {Absent}]
         /\ opened' \in [Tasks -> Inodes \cup {Absent}]
         /\ length' \in [Tasks -> 0 .. Size]
         /\ outcome' \in [Tasks -> {"none", "failed", "EXISTING", "CREATED"}]
<1>1. Rest(t) \/ Finally(t, "failed")
  BY DEF Throw
<1> QED BY <1>1, RestTypes, FinallyTypes

LEMMA TypeStep == FilesInv /\ [Next]_vars => TypeOK'
<1> SUFFICES ASSUME FilesInv, [Next]_vars PROVE TypeOK'
  OBVIOUS
<1>1. TypeOK
  BY DEF FilesInv
<1>2. CASE UNCHANGED vars
  BY <1>1, <1>2 DEF TypeOK, vars, files, calls, history
<1>3. ASSUME NEW t \in Tasks, NEW n \in Names, NEW c \in Contents \cup {Absent}, Begin(t, n, c)
      PROVE  TypeOK'
  BY <1>1, <1>3 DEF TypeOK, Begin, Goto, Places, files, history
<1>4. ASSUME NEW t \in Tasks, Crash(t)
      PROVE  TypeOK'
  BY <1>1, <1>4, RestTypes DEF TypeOK, Crash, files, history
<1>5. ASSUME NEW t \in Tasks, Open(t)
      PROVE  TypeOK'
  <2>1. CASE Throw(t)
    BY <1>1, <1>5, <2>1, ThrowTypes DEF TypeOK, Open, files, history
  <2>2. CASE ~ Throw(t)
    <3> PICK i : i = entry[name[t]]
      OBVIOUS
    <3>1. i \in Inodes \cup {Absent} /\ (i # Absent => i \in Inodes /\ parts[i] \in 0 .. Size)
      BY <1>1 DEF TypeOK
    <3> QED BY <1>1, <1>5, <2>2, <3>1 DEF TypeOK, Open, Goto, Places, files, history
  <2> QED BY <2>1, <2>2
<1>6. ASSUME NEW t \in Tasks, ReadBytes(t)
      PROVE  TypeOK'
  <2>1. Rest(t) \/ Finally(t, "EXISTING") \/ Throw(t)
    BY <1>6 DEF ReadBytes
  <2>2. told' \subseteq Names \X (Contents \cup {Torn})
    <3>1. opened[t] \in Inodes /\ name[t] \in Names /\ entry[name[t]] = opened[t]
          /\ entry[name[t]] # Absent
      BY <1>1, <1>6 DEF ReadBytes, FilesInv, CallInv, TypeOK, At
    <3>2. bytes[opened[t]] \in Contents
      BY <3>1 DEF FilesInv, NameInv
    <3>3. Read(opened[t]) \in Contents \cup {Torn}
      BY <3>2 DEF Read
    <3>4. UNCHANGED told \/ Tell(t, Read(opened[t]))
      BY <1>6 DEF ReadBytes
    <3> QED BY <1>1, <3>1, <3>3, <3>4 DEF TypeOK, Tell
  <2> QED BY <1>1, <1>6, <2>1, <2>2, RestTypes, FinallyTypes, ThrowTypes
          DEF TypeOK, ReadBytes, files
<1>7. ASSUME NEW t \in Tasks, MakeTemporary(t)
      PROVE  TypeOK'
  <2>1. CASE Rest(t) /\ UNCHANGED <<temporaries, bytes, parts>>
    BY <1>1, <1>7, <2>1, RestTypes DEF TypeOK, MakeTemporary, history
  <2>2. ASSUME NEW i \in Inodes,
               /\ temporaries' = temporaries \cup {i}
               /\ bytes' = [bytes EXCEPT ![i] = content[t]]
               /\ parts' = [parts EXCEPT ![i] = 0]
               /\ temp' = [temp EXCEPT ![t] = i]
               /\ Goto(t, "write")
               /\ UNCHANGED <<name, content, opened, length, outcome>>
        PROVE  TypeOK'
    <3>1. 0 \in 0 .. Size
      BY FilesAssumption
    <3> QED BY <1>1, <1>7, <2>2, <3>1 DEF TypeOK, MakeTemporary, Goto, Places, history
  <2> QED BY <1>7, <2>1, <2>2 DEF MakeTemporary
<1>8. ASSUME NEW t \in Tasks, WritePart(t)
      PROVE  TypeOK'
  <2>1. CASE UNCHANGED parts /\ Throw(t)
    BY <1>1, <1>8, <2>1, ThrowTypes DEF TypeOK, WritePart, history
  <2>2. CASE parts' = [parts EXCEPT ![temp[t]] = @ + 1] /\ UNCHANGED calls
    <3>1. temp[t] \in Inodes
      BY <1>1, <1>8 DEF WritePart, FilesInv, CallInv, TypeOK, At
    <3>2. parts[temp[t]] + 1 \in 0 .. Size
      BY <1>1, <1>8, <3>1, FilesAssumption DEF WritePart, TypeOK
    <3> QED BY <1>1, <1>8, <2>2, <3>1, <3>2 DEF TypeOK, WritePart, calls, history
  <2> QED BY <1>8, <2>1, <2>2 DEF WritePart
<1>9. ASSUME NEW t \in Tasks, Link(t)
      PROVE  TypeOK'
  <2>1. CASE UNCHANGED entry /\ Throw(t)
    BY <1>1, <1>9, <2>1, ThrowTypes DEF TypeOK, Link, history
  <2>2. CASE entry' = [entry EXCEPT ![name[t]] = temp[t]] /\ Finally(t, "CREATED")
    BY <1>1, <1>9, <2>2, FinallyTypes DEF TypeOK, Link, history
  <2>3. CASE Goto(t, "open") /\ UNCHANGED <<entry, name, content, temp, opened, length, outcome>>
    BY <1>1, <1>9, <2>3 DEF TypeOK, Link, Goto, Places, history
  <2> QED BY <1>9, <2>1, <2>2, <2>3 DEF Link
<1>10. ASSUME NEW t \in Tasks, Cleanup(t)
       PROVE  TypeOK'
  <2>1. name[t] \in Names /\ content[t] \in Contents /\ created[name[t]] + 1 \in Nat
    BY <1>1, <1>10 DEF Cleanup, FilesInv, CallInv, Owner, TypeOK, At
  <2>2. told' \subseteq Names \X (Contents \cup {Torn})
    BY <1>1, <1>10, <2>1 DEF TypeOK, Cleanup, history
  <2>3. created' \in [Names -> Nat]
    BY <1>1, <1>10, <2>1 DEF TypeOK, Cleanup, history
  <2> QED BY <1>1, <1>10, <2>2, <2>3, RestTypes DEF TypeOK, Cleanup
<1> QED BY <1>2, <1>3, <1>4, <1>5, <1>6, <1>7, <1>8, <1>9, <1>10 DEF Next, Step

-----------------------------------------------------------------------------
(* What one call does to the folder, as the others see it.                 *)

OthersWait(t) ==
  \A u \in Tasks \ {t} :
    /\ pc'[u] = pc[u] /\ name'[u] = name[u] /\ content'[u] = content[u] /\ temp'[u] = temp[u]
    /\ opened'[u] = opened[u] /\ outcome'[u] = outcome[u]

\* Links stay, files that have a name or another owner stay as they are, and
\* CREATED is answered by the call that is to do so.
FolderKeeps(t) ==
  /\ \A n \in Names : entry[n] # Absent => entry'[n] = entry[n]
  /\ \A n \in Names : entry'[n] # entry[n] => entry'[n] = temp[t]
  /\ \A n \in Names : entry[n] # Absent =>
       bytes'[entry[n]] = bytes[entry[n]] /\ parts'[entry[n]] = parts[entry[n]]
  /\ \A u \in Tasks \ {t} : temp[u] # Absent =>
       /\ temp[u] \in temporaries => temp[u] \in temporaries'
       /\ bytes'[temp[u]] = bytes[temp[u]] /\ parts'[temp[u]] = parts[temp[u]]
  /\ temp'[t] \in {temp[t], Absent} \/ temp'[t] \notin temporaries
  /\ \A n \in Names :
       \/ created'[n] = created[n]
       \/ At(t, "cleanup") /\ outcome[t] = "CREATED" /\ name[t] = n

LEMMA FolderKept ==
  ASSUME FilesInv, TypeOK', NEW t \in Tasks, OthersWait(t), FolderKeeps(t),
         CallInv(t)', \A n \in Names : NameInv(n)'
  PROVE  FilesInv'
<1>1. ASSUME NEW u \in Tasks \ {t}
      PROVE  CallInv(u)'
  <2>1. /\ CallInv(u)
        /\ pc'[u] = pc[u] /\ name'[u] = name[u] /\ content'[u] = content[u] /\ temp'[u] = temp[u]
        /\ opened'[u] = opened[u] /\ outcome'[u] = outcome[u] /\ name[u] \in Names
    BY DEF FilesInv, OthersWait, TypeOK
  <2> PICK n : n = name[u]
    OBVIOUS
  <2>2. temp[u] # Absent => Owner(u)'
    <3> SUFFICES ASSUME temp[u] # Absent PROVE Owner(u)'
      OBVIOUS
    <3>1. Owner(u)
      BY <2>1 DEF CallInv
    <3>2. temp[u] \in temporaries' /\ bytes'[temp[u]] = bytes[temp[u]]
      BY <3>1 DEF Owner, FolderKeeps
    <3>3. At(u, "write") => \A m \in Names : entry'[m] # temp[u]
      BY <3>1 DEF Owner, FolderKeeps, FilesInv, TemporariesApart
    <3> QED BY <2>1, <3>1, <3>2, <3>3 DEF Owner, At
  <2>3. At(u, "read") => opened[u] # Absent /\ entry'[n] = opened[u]
    BY <2>1 DEF CallInv, FolderKeeps
  <2>4. At(u, "cleanup") /\ outcome[u] = "EXISTING" => Published'[n] = content[u]
    <3> SUFFICES ASSUME At(u, "cleanup"), outcome[u] = "EXISTING"
                 PROVE  Published'[n] = content[u]
      OBVIOUS
    <3>1. content[u] # Absent /\ Published[n] = content[u]
      BY <2>1, FilesAssumption DEF CallInv, Owner, At
    <3>2. entry[n] # Absent
      BY <2>1, <3>1 DEF Published
    <3>3. entry'[n] = entry[n] /\ bytes'[entry[n]] = bytes[entry[n]] /\ parts'[entry[n]] = parts[entry[n]]
      BY <2>1, <3>2 DEF FolderKeeps
    <3> QED BY <2>1, <3>1, <3>2, <3>3 DEF Published, Read
  <2>5. At(u, "cleanup") /\ outcome[u] = "CREATED" =>
          entry'[n] = temp[u] /\ parts'[temp[u]] = Size /\ created'[n] = 0
    <3> SUFFICES ASSUME At(u, "cleanup"), outcome[u] = "CREATED"
                 PROVE  entry'[n] = temp[u] /\ parts'[temp[u]] = Size /\ created'[n] = 0
      OBVIOUS
    <3>1. temp[u] # Absent /\ entry[n] = temp[u] /\ parts[temp[u]] = Size /\ created[n] = 0
      BY <2>1 DEF CallInv, At
    <3>2. entry'[n] = temp[u] /\ parts'[temp[u]] = Size
      BY <2>1, <3>1 DEF FolderKeeps
    <3>3. ~ (At(t, "cleanup") /\ outcome[t] = "CREATED" /\ name[t] = n)
      BY <3>1 DEF FilesInv, CallInv, TemporariesApart
    <3> QED BY <2>1, <3>1, <3>2, <3>3 DEF FolderKeeps
  <2> QED BY <2>1, <2>2, <2>3, <2>4, <2>5 DEF CallInv, At
<1>2. TemporariesApart'
  <2> SUFFICES ASSUME NEW u \in Tasks, NEW v \in Tasks, temp'[u] # Absent, temp'[u] = temp'[v]
               PROVE  u = v
    BY DEF TemporariesApart
  <2>1. \A w \in Tasks \ {t} : temp'[w] = temp[w] /\ (temp[w] # Absent => temp[w] \in temporaries)
    BY DEF OthersWait, FilesInv, CallInv, Owner
  <2> QED BY <2>1 DEF FolderKeeps, FilesInv, TemporariesApart
<1> QED BY <1>1, <1>2 DEF FilesInv

\* A call that changes nothing but its own variables.
LEMMA QuietKeeps ==
  ASSUME FilesInv, TypeOK', NEW t \in Tasks, OthersWait(t), CallInv(t)',
         temp'[t] \in {temp[t], Absent}, UNCHANGED <<files, created>>
  PROVE  FilesInv'
<1>1. FolderKeeps(t)
  BY DEF FolderKeeps, files
<1>2. \A n \in Names : NameInv(n)'
  BY DEF FilesInv, NameInv, files
<1> QED BY <1>1, <1>2, FolderKept

LEMMA RestIsIdle ==
  ASSUME FilesInv, NEW t \in Tasks, Rest(t)
  PROVE  CallInv(t)' /\ OthersWait(t) /\ temp'[t] = Absent
<1>1. /\ pc' = [pc EXCEPT ![t] = "idle"] /\ temp' = [temp EXCEPT ![t] = Absent]
      /\ opened' = [opened EXCEPT ![t] = Absent]
      /\ TypeOK
  BY DEF Rest, Goto, FilesInv
<1>2. OthersWait(t)
  BY DEF Rest, Goto, FilesInv, TypeOK, OthersWait
<1> QED BY <1>1, <1>2 DEF TypeOK, CallInv, At

\* The finally block is entered by a call that owns a temporary file.
LEMMA FinallyCleansUp ==
  ASSUME FilesInv, NEW t \in Tasks, NEW o \in {"failed", "EXISTING", "CREATED"}, Finally(t, o),
         temp[t] # Absent, UNCHANGED <<temporaries, bytes>>,
         o = "EXISTING" => Published'[name[t]] = content[t],
         o = "CREATED" => entry'[name[t]] = temp[t] /\ parts'[temp[t]] = Size
                          /\ created'[name[t]] = 0
  PROVE  CallInv(t)' /\ OthersWait(t) /\ UNCHANGED temp
<1>1. /\ pc' = [pc EXCEPT ![t] = "cleanup"] /\ outcome' = [outcome EXCEPT ![t] = o]
      /\ opened' = [opened EXCEPT ![t] = Absent] /\ UNCHANGED <<name, content, temp>>
      /\ TypeOK /\ CallInv(t)
  BY DEF Finally, Goto, FilesInv
<1>2. OthersWait(t)
  BY <1>1 DEF TypeOK, OthersWait
<1>3. Owner(t)'
  BY <1>1 DEF TypeOK, CallInv, Owner, At
<1> QED BY <1>1, <1>2, <1>3 DEF TypeOK, CallInv, At

LEMMA ThrowKeeps ==
  ASSUME FilesInv, TypeOK', NEW t \in Tasks, Throw(t), UNCHANGED <<files, created>>
  PROVE  FilesInv'
<1>1. CASE Rest(t)
  BY <1>1, RestIsIdle, QuietKeeps
<1>2. CASE temp[t] # Absent /\ Finally(t, "failed")
  BY <1>2, FinallyCleansUp, QuietKeeps DEF files
<1> QED BY <1>1, <1>2 DEF Throw

-----------------------------------------------------------------------------
(* The steps.                                                              *)

LEMMA BeginKeeps ==
  ASSUME FilesInv, TypeOK', NEW t \in Tasks, NEW n \in Names, NEW c \in Contents \cup {Absent},
         Begin(t, n, c)
  PROVE  FilesInv'
<1>1. TypeOK /\ CallInv(t) /\ At(t, "idle")
  BY DEF FilesInv, Begin
<1>2. /\ pc' = [pc EXCEPT ![t] = "open"] /\ name' = [name EXCEPT ![t] = n]
      /\ content' = [content EXCEPT ![t] = c] /\ UNCHANGED <<temp, opened, outcome, files, created>>
  BY DEF Begin, Goto, history
<1>3. OthersWait(t)
  BY <1>1, <1>2 DEF TypeOK, OthersWait
<1>4. temp[t] = Absent /\ opened[t] = Absent
  BY <1>1 DEF CallInv, Owner, At
<1>5. CallInv(t)'
  BY <1>1, <1>2, <1>4 DEF TypeOK, CallInv, At
<1> QED BY <1>2, <1>3, <1>5, QuietKeeps

LEMMA OpenKeeps ==
  ASSUME FilesInv, TypeOK', NEW t \in Tasks, Open(t)
  PROVE  FilesInv'
<1>1. TypeOK /\ CallInv(t) /\ At(t, "open") /\ UNCHANGED <<files, history>>
  BY DEF FilesInv, Open
<1>2. opened[t] = Absent
  BY <1>1 DEF CallInv, At
<1> PICK i : i = entry[name[t]]
  OBVIOUS
<1>3. CASE Throw(t)
  BY <1>1, <1>3, ThrowKeeps DEF history
<1>4. CASE /\ i # Absent /\ Goto(t, "read") /\ opened' = [opened EXCEPT ![t] = i]
           /\ UNCHANGED <<name, content, temp, outcome>>
  <2>1. OthersWait(t)
    BY <1>1, <1>4 DEF TypeOK, OthersWait, Goto
  <2>2. pc'[t] = "read" /\ opened'[t] = i
    BY <1>1, <1>4 DEF TypeOK, Goto
  <2>3. temp[t] # Absent => Owner(t)'
    BY <1>1, <1>4, <2>2 DEF CallInv, Owner, At, files
  <2>4. CallInv(t)'
    BY <1>1, <1>4, <2>2, <2>3 DEF CallInv, At, files
  <2> QED BY <1>1, <1>4, <2>1, <2>4, QuietKeeps DEF history
<1>5. CASE /\ content[t] # Absent /\ temp[t] = Absent /\ Goto(t, "make")
           /\ UNCHANGED <<name, content, temp, opened, length, outcome>>
  <2>1. OthersWait(t)
    BY <1>1, <1>5 DEF TypeOK, OthersWait, Goto
  <2>2. pc'[t] = "make" /\ content[t] \in Contents
    BY <1>1, <1>5 DEF TypeOK, Goto
  <2>3. CallInv(t)'
    BY <1>1, <1>2, <1>5, <2>2 DEF CallInv, At
  <2> QED BY <1>1, <1>5, <2>1, <2>3, QuietKeeps DEF history
<1> QED BY <1>3, <1>4, <1>5 DEF Open

\* What a reader gets: the content that the name has.
LEMMA WhatIsRead ==
  ASSUME FilesInv, NEW t \in Tasks, At(t, "read")
  PROVE  /\ name[t] \in Names
         /\ Read(opened[t]) \in Contents /\ Published[name[t]] = Read(opened[t])
<1>1. name[t] \in Names /\ opened[t] # Absent /\ entry[name[t]] = opened[t]
  BY DEF FilesInv, TypeOK, CallInv
<1>2. parts[opened[t]] = Size /\ bytes[opened[t]] \in Contents
  BY <1>1 DEF FilesInv, NameInv
<1> QED BY <1>1, <1>2 DEF Published, Read

LEMMA ReadBytesKeeps ==
  ASSUME FilesInv, TypeOK', NEW t \in Tasks, ReadBytes(t)
  PROVE  FilesInv'
<1>1. At(t, "read") /\ UNCHANGED <<files, created>>
  BY DEF ReadBytes
<1>2. CASE Throw(t)
  BY <1>1, <1>2, ThrowKeeps
<1>3. CASE Rest(t)
  BY <1>1, <1>3, RestIsIdle, QuietKeeps
<1>4. CASE Finally(t, "EXISTING") /\ Read(opened[t]) = content[t] /\ temp[t] # Absent
  <2>1. Published' = Published
    BY <1>1 DEF Published, Read, files
  <2>2. Published'[name[t]] = content[t]
    BY <1>1, <1>4, <2>1, WhatIsRead
  <2> QED BY <1>1, <1>4, <2>2, FinallyCleansUp, QuietKeeps DEF files
<1> QED BY <1>2, <1>3, <1>4 DEF ReadBytes

LEMMA MakeTemporaryKeeps ==
  ASSUME FilesInv, TypeOK', NEW t \in Tasks, MakeTemporary(t)
  PROVE  FilesInv'
<1>1. TypeOK /\ CallInv(t) /\ At(t, "make") /\ UNCHANGED <<entry, told, created>>
  BY DEF FilesInv, MakeTemporary, history
<1>2. temp[t] = Absent /\ opened[t] = Absent /\ content[t] \in Contents
  BY <1>1 DEF CallInv, Owner, At
<1>3. CASE Rest(t) /\ UNCHANGED <<temporaries, bytes, parts>>
  BY <1>1, <1>3, RestIsIdle, QuietKeeps DEF files
<1>4. ASSUME NEW i \in Inodes, Unused(i),
             temporaries' = temporaries \cup {i},
             bytes' = [bytes EXCEPT ![i] = content[t]],
             parts' = [parts EXCEPT ![i] = 0],
             temp' = [temp EXCEPT ![t] = i],
             Goto(t, "write"),
             UNCHANGED <<name, content, opened, length, outcome>>
      PROVE  FilesInv'
  <2>1. OthersWait(t)
    BY <1>1, <1>4 DEF TypeOK, OthersWait, Goto
  <2>2. pc'[t] = "write" /\ temp'[t] = i /\ i # Absent /\ bytes'[i] = content[t]
    BY <1>1, <1>4, FilesAssumption DEF TypeOK, Goto
  <2>3. CallInv(t)'
    BY <1>1, <1>2, <1>4, <2>2 DEF CallInv, Owner, At, Unused
  <2>4. \A j \in Inodes \ {i} : bytes'[j] = bytes[j] /\ parts'[j] = parts[j]
    BY <1>1, <1>4 DEF TypeOK
  <2>5. \A n \in Names : entry[n] # Absent => entry[n] \in Inodes \ {i}
    BY <1>1, <1>4 DEF TypeOK, Unused
  <2>6. \A u \in Tasks : temp[u] # Absent => temp[u] \in Inodes \ {i}
    BY <1>1, <1>4 DEF TypeOK, Unused, FilesInv, CallInv, Owner
  <2>7. FolderKeeps(t)
    BY <1>1, <1>4, <2>2, <2>4, <2>5, <2>6 DEF FolderKeeps, Unused
  <2>8. \A n \in Names : NameInv(n)'
    BY <1>1, <2>4, <2>5 DEF FilesInv, NameInv
  <2> QED BY <2>1, <2>3, <2>7, <2>8, FolderKept
<1> QED BY <1>3, <1>4 DEF MakeTemporary

\* Only its owner writes a file, and it has no name yet.
LEMMA WritePartKeeps ==
  ASSUME FilesInv, TypeOK', NEW t \in Tasks, WritePart(t)
  PROVE  FilesInv'
<1>1. TypeOK /\ CallInv(t) /\ At(t, "write")
      /\ UNCHANGED <<entry, temporaries, bytes, told, created>>
  BY DEF FilesInv, WritePart, history
<1>2. temp[t] # Absent /\ Owner(t) /\ temp[t] \in Inodes
  BY <1>1 DEF CallInv, At, TypeOK
<1>3. CASE UNCHANGED parts /\ Throw(t)
  BY <1>1, <1>3, ThrowKeeps DEF files
<1>4. CASE parts' = [parts EXCEPT ![temp[t]] = @ + 1] /\ UNCHANGED calls
  <2>1. OthersWait(t) /\ UNCHANGED <<pc, name, content, temp, opened, outcome>>
    BY <1>4 DEF calls, OthersWait
  <2>2. \A j \in Inodes \ {temp[t]} : parts'[j] = parts[j]
    BY <1>1, <1>2, <1>4 DEF TypeOK
  <2>3. \A n \in Names : entry[n] # Absent => entry[n] \in Inodes \ {temp[t]}
    BY <1>1, <1>2 DEF TypeOK, Owner, At
  <2>4. \A u \in Tasks \ {t} : temp[u] # Absent => temp[u] \in Inodes \ {temp[t]}
    BY <1>1, <1>2 DEF TypeOK, FilesInv, TemporariesApart
  <2>5. CallInv(t)'
    BY <1>1, <1>2, <2>1 DEF CallInv, Owner, At
  <2>6. FolderKeeps(t)
    BY <1>1, <2>1, <2>2, <2>3, <2>4 DEF FolderKeeps
  <2>7. \A n \in Names : NameInv(n)'
    BY <1>1, <2>2, <2>3 DEF FilesInv, NameInv
  <2> QED BY <2>1, <2>5, <2>6, <2>7, FolderKept
<1> QED BY <1>3, <1>4 DEF WritePart

LEMMA LinkKeeps ==
  ASSUME FilesInv, TypeOK', NEW t \in Tasks, Link(t)
  PROVE  FilesInv'
<1>1. TypeOK /\ CallInv(t) /\ At(t, "write") /\ parts[temp[t]] = Size
      /\ UNCHANGED <<temporaries, bytes, parts, told, created>>
  BY DEF FilesInv, Link, history
<1>2. temp[t] # Absent /\ Owner(t) /\ temp[t] \in Inodes /\ name[t] \in Names
  BY <1>1 DEF CallInv, At, TypeOK
<1>3. CASE UNCHANGED entry /\ Throw(t)
  BY <1>1, <1>3, ThrowKeeps DEF files
<1>4. CASE /\ entry[name[t]] = Absent /\ entry' = [entry EXCEPT ![name[t]] = temp[t]]
           /\ Finally(t, "CREATED")
  <2>1. /\ entry'[name[t]] = temp[t]
        /\ \A n \in Names \ {name[t]} : entry'[n] = entry[n]
    BY <1>1, <1>2, <1>4 DEF TypeOK
  <2>2. created'[name[t]] = 0
    BY <1>1, <1>2, <1>4 DEF FilesInv, NameInv
  <2>3. CallInv(t)' /\ OthersWait(t) /\ UNCHANGED temp
    BY <1>1, <1>2, <1>4, <2>1, <2>2, FinallyCleansUp
  <2>4. FolderKeeps(t)
    BY <1>1, <1>4, <2>1, <2>3 DEF FolderKeeps
  <2>5. \A n \in Names : NameInv(n)'
    BY <1>1, <1>2, <2>1 DEF FilesInv, NameInv, Owner
  <2> QED BY <2>3, <2>4, <2>5, FolderKept
<1>5. CASE Goto(t, "open") /\ UNCHANGED <<entry, name, content, temp, opened, length, outcome>>
  <2>1. OthersWait(t) /\ pc'[t] = "open"
    BY <1>1, <1>5 DEF TypeOK, OthersWait, Goto
  <2>2. Owner(t)' /\ opened[t] = Absent
    BY <1>1, <1>2, <1>5, <2>1 DEF CallInv, Owner, At
  <2>3. CallInv(t)'
    BY <1>1, <1>5, <2>1, <2>2 DEF CallInv, At
  <2> QED BY <1>1, <1>5, <2>1, <2>3, QuietKeeps DEF files
<1> QED BY <1>3, <1>4, <1>5 DEF Link

LEMMA CleanupKeeps ==
  ASSUME FilesInv, TypeOK', NEW t \in Tasks, Cleanup(t)
  PROVE  FilesInv'
<1>1. TypeOK /\ CallInv(t) /\ At(t, "cleanup") /\ UNCHANGED <<entry, bytes, parts>> /\ name[t] \in Names
  BY DEF FilesInv, Cleanup, TypeOK
<1>2. CallInv(t)' /\ OthersWait(t) /\ temp'[t] = Absent
  BY RestIsIdle DEF Cleanup
<1>3. temporaries' \in {temporaries, temporaries \ {temp[t]}} /\ temp[t] # Absent
  BY <1>1 DEF Cleanup, history, CallInv, At
<1>4. \/ created' = created
      \/ outcome[t] = "CREATED" /\ created' = [created EXCEPT ![name[t]] = @ + 1]
  BY DEF Cleanup, history
<1>5. \A n \in Names : created'[n] # created[n] =>
        n = name[t] /\ outcome[t] = "CREATED" /\ created[n] = 0 /\ created'[n] = 1
  BY <1>1, <1>4 DEF TypeOK, CallInv, At
<1>6. FolderKeeps(t)
  BY <1>1, <1>2, <1>3, <1>5 DEF FolderKeeps, FilesInv, TemporariesApart
<1>7. \A n \in Names : NameInv(n)'
  BY <1>1, <1>3, <1>5 DEF FilesInv, NameInv, CallInv, At
<1> QED BY <1>2, <1>6, <1>7, FolderKept

LEMMA CrashKeeps ==
  ASSUME FilesInv, TypeOK', NEW t \in Tasks, Crash(t)
  PROVE  FilesInv'
BY RestIsIdle, QuietKeeps DEF Crash, history

LEMMA InitKeeps == Init => FilesInv
<1> SUFFICES ASSUME Init PROVE FilesInv
  OBVIOUS
<1>1. 0 \in 0 .. Size
  BY FilesAssumption
<1>2. TypeOK
  BY <1>1 DEF Init, TypeOK, Places
<1> QED BY <1>2 DEF Init, FilesInv, TemporariesApart, NameInv, CallInv, At

LEMMA StepKeeps == FilesInv /\ [Next]_vars => FilesInv'
<1> SUFFICES ASSUME FilesInv, [Next]_vars, TypeOK' PROVE FilesInv'
  BY TypeStep
<1>1. CASE UNCHANGED vars
  <2>1. UNCHANGED <<entry, temporaries, bytes, parts, pc, name, content, temp, opened, outcome, created>>
    BY <1>1 DEF vars, files, calls, history
  <2>2. Published' = Published
    BY <2>1 DEF Published, Read
  <2>3. \A t \in Tasks : CallInv(t)'
    BY <2>1, <2>2 DEF FilesInv, CallInv, Owner, At
  <2> QED BY <2>1, <2>3 DEF FilesInv, TemporariesApart, NameInv
<1>2. ASSUME NEW t \in Tasks, Step(t)
      PROVE  FilesInv'
  BY <1>2, OpenKeeps, ReadBytesKeeps, MakeTemporaryKeeps, WritePartKeeps, LinkKeeps, CleanupKeeps
     DEF Step
<1>3. ASSUME NEW t \in Tasks, NEW n \in Names, NEW c \in Contents \cup {Absent}, Begin(t, n, c)
      PROVE  FilesInv'
  BY <1>3, BeginKeeps
<1>4. ASSUME NEW t \in Tasks, Crash(t)
      PROVE  FilesInv'
  BY <1>4, CrashKeeps
<1> QED BY <1>1, <1>2, <1>3, <1>4 DEF Next

LEMMA FilesInvInductive == Spec => []FilesInv
BY InitKeeps, StepKeeps, PTL DEF Spec

\* Entries of the folder lead to files of the file system, and readImmutableFile
\* and publishImmutableFile keep of a call what Init and the steps put there.
THEOREM FilesTypeCorrect == Spec => []TypeOK
BY FilesInvInductive, PTL DEF FilesInv

-----------------------------------------------------------------------------
(* The folder is a map that is written once.                               *)

\* A step that changes nothing that a name leads to.
LEMMA PublishedStays ==
  ASSUME UNCHANGED entry,
         \A n \in Names : entry[n] # Absent =>
           bytes'[entry[n]] = bytes[entry[n]] /\ parts'[entry[n]] = parts[entry[n]]
  PROVE  UNCHANGED Published
BY DEF Published, Read

LEMMA LinkWrites ==
  ASSUME FilesInv, NEW t \in Tasks, Link(t)
  PROVE  [Promise!Next]_(Promise!vars)
<1>1. TypeOK /\ CallInv(t) /\ At(t, "write") /\ parts[temp[t]] = Size
      /\ UNCHANGED <<temporaries, bytes, parts, told, created>>
  BY DEF FilesInv, Link, history
<1>2. temp[t] # Absent /\ Owner(t) /\ name[t] \in Names
  BY <1>1 DEF CallInv, At, TypeOK
<1>3. CASE UNCHANGED entry
  BY <1>1, <1>3, PublishedStays DEF Promise!vars
<1>4. CASE entry[name[t]] = Absent /\ entry' = [entry EXCEPT ![name[t]] = temp[t]]
  <2> PICK n, c : n = name[t] /\ c = content[t]
    OBVIOUS
  <2>1. n \in Names /\ c \in Contents /\ bytes[temp[t]] = c
    BY <1>2 DEF Owner
  <2>2. Published[n] = Absent
    BY <1>4, <2>1 DEF Published
  <2>3. entry'[n] = temp[t] /\ \A m \in Names \ {n} : entry'[m] = entry[m]
    BY <1>1, <1>4, <2>1 DEF TypeOK
  <2>4. Published'[n] = c /\ \A m \in Names \ {n} : Published'[m] = Published[m]
    BY <1>1, <1>2, <2>1, <2>3 DEF Published, Read
  <2>5. Published' = [Published EXCEPT ![n] = c]
    BY <2>4 DEF Published
  <2>6. Promise!Write(n, c)
    BY <1>1, <2>2, <2>5 DEF Promise!Write
  <2> QED BY <2>1, <2>6 DEF Promise!Next
<1> QED BY <1>3, <1>4 DEF Link, Finally

LEMMA ReadBytesTells ==
  ASSUME FilesInv, NEW t \in Tasks, ReadBytes(t)
  PROVE  [Promise!Next]_(Promise!vars)
<1>1. At(t, "read") /\ UNCHANGED <<entry, bytes, parts, created>> /\ UNCHANGED Published
  BY DEF ReadBytes, files, Published, Read
<1> PICK n, c : n = name[t] /\ c = Read(opened[t])
  OBVIOUS
<1>2. n \in Names /\ c \in Contents /\ Published[n] = c
  BY <1>1, WhatIsRead
<1>3. told' = told \/ told' = told \cup {<<n, c>>}
  BY DEF ReadBytes, Tell
<1>4. UNCHANGED told => UNCHANGED Promise!vars
  BY <1>1 DEF Promise!vars
<1>5. told' = told \cup {<<n, c>>} => Promise!Tell(n, c)
  BY <1>1, <1>2 DEF Promise!Tell
<1> QED BY <1>2, <1>3, <1>4, <1>5 DEF Promise!Next

LEMMA CleanupTells ==
  ASSUME FilesInv, NEW t \in Tasks, Cleanup(t)
  PROVE  [Promise!Next]_(Promise!vars)
<1>1. At(t, "cleanup") /\ UNCHANGED Published /\ CallInv(t) /\ TypeOK
  BY DEF Cleanup, Published, Read, FilesInv
<1> PICK n, c : n = name[t] /\ c = content[t]
  OBVIOUS
<1>2. n \in Names /\ c \in Contents /\ Owner(t)
  BY <1>1 DEF TypeOK, CallInv, Owner, At
<1>3. CASE UNCHANGED <<told, created>>
  BY <1>1, <1>3 DEF Promise!vars
<1>4. CASE /\ outcome[t] = "EXISTING" /\ told' = told \cup {<<n, c>>} /\ UNCHANGED created
  <2>1. Promise!Tell(n, c)
    BY <1>1, <1>4 DEF Promise!Tell, CallInv
  <2> QED BY <1>2, <2>1 DEF Promise!Next
<1>5. CASE /\ outcome[t] = "CREATED" /\ told' = told \cup {<<n, c>>}
           /\ created' = [created EXCEPT ![n] = @ + 1]
  <2>1. entry[n] = temp[t] /\ temp[t] # Absent /\ parts[temp[t]] = Size /\ created[n] = 0
    BY <1>1, <1>5 DEF CallInv, At
  <2>2. Published[n] = c
    BY <1>2, <2>1 DEF Published, Read, Owner
  <2>3. created' = [created EXCEPT ![n] = 1]
    BY <1>5, <2>1
  <2>4. Promise!TellCreator(n, c)
    BY <1>1, <1>5, <2>1, <2>2, <2>3 DEF Promise!TellCreator
  <2> QED BY <1>2, <2>4 DEF Promise!Next
<1>6. outcome[t] \in {"none", "failed", "EXISTING", "CREATED"}
  BY <1>1 DEF TypeOK
<1>7. outcome[t] # "none"
  BY <1>1 DEF CallInv, At
<1> QED BY <1>3, <1>4, <1>5, <1>6, <1>7 DEF Cleanup, history

\* publishImmutableFile and readImmutableFile keep the promise of WriteOnceMap:
\* a name gets a content once, in one step although the file is written in
\* parts, and keeps it; every content answered, of a read or with EXISTING or
\* CREATED, is the one the name has; and CREATED is answered once at most.
THEOREM FilesAreWrittenOnce == Spec => WriteOnceMapSpec
<1>1. Init => Promise!Init
  BY DEF Init, Promise!Init, Published
<1>2. FilesInv /\ [Next]_vars => [Promise!Next]_(Promise!vars)
  <2> SUFFICES ASSUME FilesInv, [Next]_vars PROVE [Promise!Next]_(Promise!vars)
    OBVIOUS
  <2>1. UNCHANGED <<entry, bytes, parts, told, created>> => [Promise!Next]_(Promise!vars)
    BY PublishedStays DEF Promise!vars
  <2>2. ASSUME NEW t \in Tasks, MakeTemporary(t)
        PROVE  [Promise!Next]_(Promise!vars)
    <3>1. TypeOK /\ UNCHANGED <<entry, told, created>>
      BY <2>2 DEF FilesInv, MakeTemporary, history
    <3>2. CASE UNCHANGED <<bytes, parts>>
      BY <2>1, <3>1, <3>2
    <3>3. ASSUME NEW i \in Inodes, Unused(i), bytes' = [bytes EXCEPT ![i] = content[t]],
                 parts' = [parts EXCEPT ![i] = 0]
          PROVE  UNCHANGED Published
      BY <3>1, <3>3, PublishedStays DEF TypeOK, Unused
    <3>4. UNCHANGED Published => [Promise!Next]_(Promise!vars)
      BY <3>1 DEF Promise!vars
    <3> QED BY <2>2, <3>2, <3>3, <3>4 DEF MakeTemporary
  <2>3. ASSUME NEW t \in Tasks, WritePart(t)
        PROVE  [Promise!Next]_(Promise!vars)
    <3>1. TypeOK /\ UNCHANGED <<entry, bytes, told, created>> /\ Owner(t) /\ At(t, "write")
      BY <2>3 DEF FilesInv, CallInv, At, WritePart, history
    <3>2. parts' = parts \/ parts' = [parts EXCEPT ![temp[t]] = @ + 1]
      BY <2>3 DEF WritePart
    <3>3. UNCHANGED Published
      BY <3>1, <3>2, PublishedStays DEF TypeOK, Owner
    <3> QED BY <3>1, <3>3 DEF Promise!vars
  <2>4. ASSUME NEW t \in Tasks, Crash(t) \/ Open(t)
                 \/ \E n \in Names, c \in Contents \cup {Absent} : Begin(t, n, c)
        PROVE  UNCHANGED <<entry, bytes, parts, told, created>>
    BY <2>4 DEF Begin, Crash, Open, files, history
  <2>5. UNCHANGED vars => UNCHANGED <<entry, bytes, parts, told, created>>
    BY DEF vars, files, history
  <2>6. \/ UNCHANGED <<entry, bytes, parts, told, created>>
        \/ \E t \in Tasks : ReadBytes(t) \/ MakeTemporary(t) \/ WritePart(t) \/ Link(t) \/ Cleanup(t)
    BY <2>4, <2>5 DEF Next, Step
  <2> QED BY <2>1, <2>2, <2>3, <2>6, LinkWrites, ReadBytesTells, CleanupTells
<1> QED BY <1>1, <1>2, FilesInvInductive, PTL DEF Spec, WriteOnceMapSpec, Promise!Spec

-----------------------------------------------------------------------------
(* NotationDraft. Where the work of a draft is, while the page is loaded,  *)
(* asks, is answered and is loaded again.                                  *)

DraftTypes ==
  /\ saved \in Seq(SUBSET DraftCommands)
  /\ snapshot \in Nat \cup {None} /\ pending \in SUBSET DraftCommands /\ typed \in BOOLEAN
  /\ running \in Draft!Requests \cup {None} /\ conflict \in Draft!Conflicts \cup {None}
  /\ confirmReload \in BOOLEAN /\ hydrated \in BOOLEAN /\ stored \in Draft!Copies \cup {None}

\* The commands of the copy, and those of the saved versions.
CopiedWork == IF stored = None THEN {} ELSE stored.pending
\* The commands of all saved versions.
SavedWork == UNION {saved[v] : v \in 1 .. Draft!Version}

\* Until the first load is over there is no draft; without a version there is
\* none either, nor text in the forms.
PhaseInv ==
  /\ ~ hydrated => pending = {} /\ conflict = None /\ ~ confirmReload
  /\ ~ hydrated => snapshot = None \/ (Draft!busy /\ running.kind = "restore")
  /\ snapshot = None => pending = {} /\ typed = FALSE /\ conflict = None

\* While no conflict is shown, the copy has the commands of the draft.
CopyInv == hydrated /\ snapshot # None /\ conflict = None => CopiedWork = pending

\* What is known of the request in flight.
RequestInv ==
  Draft!busy =>
    /\ running.kind \in {"load", "restore"} <=> ~ hydrated
    /\ running.kind = "load" => running.drafts = stored /\ snapshot = None
    /\ running.kind = "restore" =>
         /\ running.drafts = stored /\ stored # None
         /\ running.commands = stored.pending /\ running.base = snapshot /\ snapshot # None
    /\ running.kind \in {"preview", "save"} => snapshot # None
    /\ running.kind = "preview" => pending \subseteq running.commands
    /\ running.kind = "preview" /\ running.reply = "ok" => running.version = running.base
    /\ running.kind = "save" => running.commands = pending
    /\ running.kind = "save" /\ running.reply = "ok" => running.commands \subseteq SavedWork

\* Where a command that was accepted may be, apart from a conflict.
WorkInv ==
  accepted \subseteq pending \cup CopiedWork \cup SavedWork \cup discarded \cup setAside
    \cup unasked

DraftInv == DraftTypes /\ PhaseInv /\ CopyInv /\ RequestInv /\ WorkInv /\ Draft!DraftKeepsItsBase

LEMMA PersistKeepsCopy ==
  ASSUME Draft!DraftAssumption, stored \in Draft!Copies \cup {None}, Draft!Persist,
         snapshot' \in Nat \cup {None}, pending' \in SUBSET DraftCommands, typed' \in BOOLEAN
  PROVE  /\ stored' \in Draft!Copies \cup {None}
         /\ CopyInv'
         /\ stored' = stored \/ (hydrated' /\ snapshot' # None /\ conflict' = None)
         /\ ~ hydrated' \/ snapshot' = None \/ conflict' # None => stored' = stored
<1>1. [base |-> snapshot', pending |-> pending', typed |-> typed'] \in Draft!Copies
  BY DEF Draft!Copies
<1>2. CASE ~ hydrated' \/ snapshot' = None \/ conflict' # None
  BY <1>2 DEF Draft!Persist, CopyInv
<1>3. CASE hydrated' /\ snapshot' # None /\ conflict' = None /\ ~ Draft!unsaved'
  <2>1. stored' = None /\ pending' = {}  BY <1>3 DEF Draft!Persist, Draft!unsaved
  <2> QED  BY <1>3, <2>1 DEF CopyInv, CopiedWork
<1>4. CASE hydrated' /\ snapshot' # None /\ conflict' = None /\ Draft!unsaved'
  <2>1. stored' = [base |-> snapshot', pending |-> pending', typed |-> typed']
    BY <1>4 DEF Draft!Persist
  <2>2. stored' # None /\ stored'.pending = pending'  BY <1>1, <2>1 DEF Draft!DraftAssumption
  <2> QED  BY <1>1, <1>4, <2>1, <2>2 DEF CopyInv, CopiedWork
<1> QED  BY <1>2, <1>3, <1>4

\* Saving another version keeps what was saved.
LEMMA VersionSaved ==
  ASSUME DraftTypes, NEW commands \in SUBSET DraftCommands, saved' = Append(saved, commands)
  PROVE  /\ saved' \in Seq(SUBSET DraftCommands)
         /\ SavedWork \cup commands \subseteq SavedWork'
<1>1. saved \in Seq(SUBSET DraftCommands)  BY DEF DraftTypes
<1>2. /\ saved' \in Seq(SUBSET DraftCommands) /\ Len(saved') = Len(saved) + 1
      /\ \A v \in 1 .. Len(saved) : saved'[v] = saved[v]
      /\ saved'[Len(saved) + 1] = commands
  BY <1>1, AppendProperties
<1>3. Len(saved) \in Nat  BY <1>1
<1> QED  BY <1>2, <1>3 DEF SavedWork, Draft!Version

LEMMA DraftInitInv == ASSUME Draft!DraftAssumption, Draft!Init PROVE DraftInv
<1>1. DraftTypes
  <2>1. <<>> \in Seq(SUBSET DraftCommands)  OBVIOUS
  <2> QED  BY <2>1 DEF Draft!Init, DraftTypes
<1>2. PhaseInv /\ CopyInv /\ RequestInv /\ WorkInv /\ Draft!DraftKeepsItsBase
  BY DEF Draft!Init, PhaseInv, CopyInv, RequestInv, WorkInv, Draft!DraftKeepsItsBase, Draft!busy
<1> QED  BY <1>1, <1>2 DEF DraftInv

\* A request leaves.
LEMMA RequestSent ==
  ASSUME DraftTypes, NEW kind \in {"load", "preview", "save", "reload"},
         NEW commands \in SUBSET DraftCommands, NEW drafts \in Draft!Copies \cup {None},
         Draft!Send(kind, commands, drafts)
  PROVE  /\ ~ Draft!busy /\ running' \in Draft!Requests
         /\ running'.kind = kind /\ running'.commands = commands /\ running'.drafts = drafts
         /\ running'.reply = "none"
BY DEF Draft!Send, Draft!Requests, DraftTypes

\* What changes only the request in flight and the dialog.
LEMMA SentInv ==
  ASSUME Draft!DraftAssumption, DraftInv, NEW kind \in {"load", "preview", "save", "reload"},
         NEW commands \in SUBSET DraftCommands, NEW drafts \in Draft!Copies \cup {None},
         Draft!Send(kind, commands, drafts), confirmReload' = confirmReload,
         UNCHANGED <<saved, snapshot, pending, typed, conflict, hydrated, stored,
                     Draft!draftHistory>>,
         kind = "load" <=> ~ hydrated,
         kind = "load" => drafts = stored,
         kind \in {"preview", "save"} => snapshot # None,
         kind = "preview" => pending \subseteq commands,
         kind = "save" => commands = pending
  PROVE  DraftInv'
<1>1. /\ ~ Draft!busy /\ running' \in Draft!Requests
      /\ running'.kind = kind /\ running'.commands = commands /\ running'.drafts = drafts
      /\ running'.reply = "none"
  BY RequestSent DEF DraftInv
<1>2. DraftTypes'  BY <1>1 DEF DraftInv, DraftTypes
<1>3. PhaseInv'  BY <1>1 DEF DraftInv, PhaseInv
<1>4. CopyInv' /\ WorkInv' /\ Draft!DraftKeepsItsBase'
  BY DEF DraftInv, CopyInv, WorkInv, Draft!DraftKeepsItsBase, CopiedWork, SavedWork, Draft!Version,
         Draft!draftHistory
<1>5. RequestInv'  BY <1>1 DEF RequestInv, DraftInv, PhaseInv
<1> QED  BY <1>2, <1>3, <1>4, <1>5 DEF DraftInv

\* The store answers, or nothing does.
LEMMA ServeInv == ASSUME Draft!DraftAssumption, DraftInv, Draft!Serve \/ Draft!Lose PROVE DraftInv'
<1>1. Draft!busy /\ running \in Draft!Requests
  BY DEF Draft!Serve, Draft!Lose, DraftInv, DraftTypes, Draft!busy
<1>2. UNCHANGED <<snapshot, pending, typed, conflict, confirmReload, hydrated, stored,
                  Draft!draftHistory>>
  BY DEF Draft!Serve, Draft!Lose
<1>3. Draft!Version \in Nat  BY DEF DraftInv, DraftTypes, Draft!Version
<1>4. PICK reply \in {"ok", "failed", "VERSION_CONFLICT", "CAPACITY"}, version \in Nat :
        /\ Draft!Answered(reply, version)
        /\ saved' = saved \/ saved' = Append(saved, running.commands)
        /\ running.kind = "preview" /\ reply = "ok" => version = running.base
        /\ running.kind = "save" /\ reply = "ok" =>
             saved' = Append(saved, running.commands)
               \/ (Draft!Version > 0 /\ saved[Draft!Version] = running.commands)
  <2>1. CASE Draft!Lose  BY <2>1 DEF Draft!Lose
  <2>2. CASE Draft!Serve /\ running.kind \in {"load", "reload"}
    BY <1>3, <2>2 DEF Draft!Serve
  <2>3. CASE Draft!Serve /\ running.kind \in {"preview", "restore"}
    <3>1. saved' = saved  BY <2>3 DEF Draft!Serve
    <3>2. \/ running.base = Draft!Version /\ Draft!Answered("ok", Draft!Version)
          \/ \E reply \in {"VERSION_CONFLICT", "CAPACITY"} : Draft!Answered(reply, 0)
      BY <2>3 DEF Draft!Serve
    <3> QED  BY <1>3, <2>3, <3>1, <3>2
  <2>4. CASE Draft!Serve /\ running.kind = "save"
    <3>1. \/ Draft!Version > 0 /\ saved[Draft!Version] = running.commands
               /\ Draft!Answered("ok", Draft!Version) /\ saved' = saved
          \/ saved' = Append(saved, running.commands) /\ Draft!Answered("ok", Draft!Version + 1)
          \/ saved' = saved /\ \E reply \in {"VERSION_CONFLICT", "CAPACITY"} :
               Draft!Answered(reply, 0)
      BY <2>4 DEF Draft!Serve
    <3> QED  BY <1>3, <2>4, <3>1
  <2> QED  BY <2>1, <2>2, <2>3, <2>4 DEF Draft!Serve
<1>5. running' = [running EXCEPT !.reply = reply, !.version = version]  BY <1>4 DEF Draft!Answered
<1>6. /\ running' \in Draft!Requests
      /\ running'.kind = running.kind /\ running'.base = running.base
      /\ running'.commands = running.commands /\ running'.drafts = running.drafts
      /\ running'.reply = reply /\ running'.version = version
  BY <1>1, <1>5 DEF Draft!Requests
<1>7. running.commands \in SUBSET DraftCommands  BY <1>1 DEF Draft!Requests
<1>8. saved' \in Seq(SUBSET DraftCommands) /\ SavedWork \subseteq SavedWork'
      /\ (running.kind = "save" /\ reply = "ok" => running.commands \subseteq SavedWork')
  <2>1. CASE saved' = saved
    <3>1. SavedWork' = SavedWork  BY <2>1 DEF SavedWork, Draft!Version
    <3>2. CASE saved' = Append(saved, running.commands)
      BY <1>7, <3>2, VersionSaved DEF DraftInv
    <3>3. CASE Draft!Version > 0 /\ saved[Draft!Version] = running.commands
      BY <1>3, <2>1, <3>1, <3>3 DEF SavedWork, Draft!Version, DraftInv, DraftTypes
    <3> QED  BY <1>4, <2>1, <3>1, <3>2, <3>3 DEF DraftInv, DraftTypes
  <2>2. CASE saved' = Append(saved, running.commands)
    BY <1>7, <2>2, VersionSaved DEF DraftInv
  <2> QED  BY <1>4, <2>1, <2>2
<1>9. DraftTypes'  BY <1>2, <1>6, <1>8 DEF DraftInv, DraftTypes
<1>10. PhaseInv'  BY <1>1, <1>2, <1>6 DEF DraftInv, PhaseInv, Draft!busy, Draft!DraftAssumption
<1>11. CopyInv' /\ WorkInv' /\ Draft!DraftKeepsItsBase'
  BY <1>2, <1>8
     DEF DraftInv, CopyInv, WorkInv, Draft!DraftKeepsItsBase, CopiedWork, Draft!draftHistory
<1>12. RequestInv'
  BY <1>1, <1>2, <1>4, <1>6, <1>8 DEF DraftInv, RequestInv
<1> QED  BY <1>9, <1>10, <1>11, <1>12 DEF DraftInv

LEMMA OthersSaveInv == ASSUME Draft!DraftAssumption, DraftInv, Draft!OthersSave PROVE DraftInv'
<1>1. UNCHANGED <<snapshot, pending, typed, running, conflict, confirmReload, hydrated, stored,
                  Draft!draftHistory>>
  BY DEF Draft!OthersSave, Draft!memory
<1>2. saved' \in Seq(SUBSET DraftCommands) /\ SavedWork \subseteq SavedWork'
  <2>1. saved' = Append(saved, {}) /\ {} \in SUBSET DraftCommands  BY DEF Draft!OthersSave
  <2> QED  BY <2>1, VersionSaved DEF DraftInv
<1>3. DraftTypes'  BY <1>1, <1>2 DEF DraftInv, DraftTypes
<1>4. PhaseInv' /\ CopyInv' /\ WorkInv' /\ Draft!DraftKeepsItsBase'
  BY <1>1, <1>2
     DEF DraftInv, PhaseInv, CopyInv, WorkInv, Draft!DraftKeepsItsBase, CopiedWork, Draft!busy,
         Draft!draftHistory
<1>5. RequestInv'  BY <1>1, <1>2 DEF DraftInv, RequestInv, Draft!busy
<1> QED  BY <1>3, <1>4, <1>5 DEF DraftInv

(* The first load. *)

LEMMA LoadInv == ASSUME Draft!DraftAssumption, DraftInv, Draft!Load PROVE DraftInv'
<1>1. stored \in Draft!Copies \cup {None} /\ {} \in SUBSET DraftCommands
  BY DEF DraftInv, DraftTypes
<1>2. ~ hydrated /\ Draft!Send("load", {}, stored)
      /\ UNCHANGED <<saved, snapshot, pending, typed, conflict, confirmReload, hydrated, stored,
                     Draft!draftHistory>>
  BY DEF Draft!Load
<1> QED  BY <1>1, <1>2, SentInv

\* A step after which no request is in flight, and that leaves the history of the
\* draft but adds to what was set aside.
LEMMA AnsweredInv ==
  ASSUME Draft!DraftAssumption, DraftInv, running' = None, saved' = saved,
         confirmReload' = confirmReload,
         snapshot' \in Nat \cup {None}, pending' \in SUBSET DraftCommands, typed' \in BOOLEAN,
         conflict' \in Draft!Conflicts \cup {None}, hydrated' = TRUE, Draft!Persist,
         snapshot' = None => pending' = {} /\ typed' = FALSE /\ conflict' = None,
         accepted' \subseteq pending' \cup CopiedWork' \cup SavedWork \cup discarded'
           \cup setAside' \cup unasked',
         pending' # {} => snapshot' = validatedAt'
  PROVE  DraftInv'
<1>1. stored' \in Draft!Copies \cup {None} /\ CopyInv'  BY PersistKeepsCopy DEF DraftInv, DraftTypes
<1>2. DraftTypes'  BY <1>1 DEF DraftInv, DraftTypes
<1>3. PhaseInv' /\ RequestInv' /\ Draft!DraftKeepsItsBase'
  BY DEF PhaseInv, RequestInv, Draft!DraftKeepsItsBase, Draft!busy
<1>4. SavedWork' = SavedWork  BY DEF SavedWork, Draft!Version
<1>5. WorkInv'  BY <1>4 DEF WorkInv
<1> QED  BY <1>1, <1>2, <1>3, <1>5 DEF DraftInv

LEMMA CopyIsConflict ==
  ASSUME NEW copy \in Draft!Copies
  PROVE  [reason |-> "STALE_DRAFTS", base |-> copy.base, pending |-> copy.pending,
          typed |-> copy.typed]
           \in Draft!Conflicts
BY DEF Draft!Copies, Draft!Conflicts

LEMMA LoadedInv == ASSUME Draft!DraftAssumption, DraftInv, Draft!Loaded PROVE DraftInv'
<1> DEFINE copy == running.drafts
<1>1. /\ Draft!busy /\ running \in Draft!Requests /\ running.kind = "load"
      /\ ~ hydrated /\ copy = stored /\ snapshot = None
      /\ pending = {} /\ conflict = None /\ ~ confirmReload /\ typed = FALSE
  BY DEF Draft!Loaded, Draft!Arrived, DraftInv, DraftTypes, RequestInv, PhaseInv, Draft!busy
<1>2. snapshot' = running.version /\ running.version \in Nat /\ snapshot' # None
  BY <1>1 DEF Draft!Loaded, Draft!Requests, Draft!DraftAssumption
<1>3. UNCHANGED <<saved, pending, confirmReload, Draft!draftHistory>> /\ Draft!Persist
  BY DEF Draft!Loaded
<1>4. typed' \in BOOLEAN /\ stored \in Draft!Copies \cup {None}
  BY <1>1 DEF Draft!Loaded, DraftInv, DraftTypes, Draft!Copies
<1>5. pending' = {} /\ pending' \in SUBSET DraftCommands  BY <1>1, <1>3
<1>6. CASE copy = None
  <2>1. running' = None /\ hydrated' = TRUE /\ typed' = typed /\ conflict' = conflict
    BY <1>6 DEF Draft!Loaded
  <2>2. CopiedWork = {}  BY <1>1, <1>6 DEF CopiedWork
  <2>3. accepted' \subseteq pending' \cup CopiedWork' \cup SavedWork \cup discarded' \cup setAside'
          \cup unasked'
    BY <1>1, <1>3, <2>2 DEF DraftInv, WorkInv, Draft!draftHistory
  <2> QED  BY <1>1, <1>2, <1>3, <1>4, <1>5, <2>1, <2>3, AnsweredInv
<1>7. CASE copy # None /\ copy.base # running.version
  <2>1. /\ running' = None /\ hydrated' = TRUE /\ typed' = typed
        /\ conflict' = [reason |-> "STALE_DRAFTS", base |-> copy.base,
                        pending |-> copy.pending, typed |-> copy.typed]
    BY <1>7 DEF Draft!Loaded
  <2>2. conflict' \in Draft!Conflicts /\ conflict' # None
    BY <1>1, <1>4, <1>7, <2>1, CopyIsConflict DEF Draft!DraftAssumption
  <2>3. CopiedWork' = CopiedWork
    BY <1>2, <1>3, <1>4, <1>5, <2>2, PersistKeepsCopy DEF CopiedWork
  <2>4. accepted' \subseteq pending' \cup CopiedWork' \cup SavedWork \cup discarded' \cup setAside'
          \cup unasked'
    BY <1>1, <1>3, <2>3 DEF DraftInv, WorkInv, Draft!draftHistory
  <2> QED  BY <1>1, <1>2, <1>3, <1>4, <1>5, <2>1, <2>2, <2>4, AnsweredInv
<1>8. CASE copy # None /\ copy.base = running.version /\ copy.pending = {}
  <2>1. running' = None /\ hydrated' = TRUE /\ conflict' = conflict
    BY <1>8 DEF Draft!Loaded
  <2>2. CopiedWork = {}  BY <1>1, <1>8 DEF CopiedWork
  <2>3. accepted' \subseteq pending' \cup CopiedWork' \cup SavedWork \cup discarded' \cup setAside'
          \cup unasked'
    BY <1>1, <1>3, <2>2 DEF DraftInv, WorkInv, Draft!draftHistory
  <2> QED  BY <1>1, <1>2, <1>3, <1>4, <1>5, <2>1, <2>3, AnsweredInv
<1>9. CASE copy # None /\ copy.base = running.version /\ copy.pending # {}
  <2>1. /\ running' = [running EXCEPT !.kind = "restore", !.base = running.version,
                                        !.commands = copy.pending, !.reply = "none", !.version = 0]
        /\ hydrated' = hydrated /\ conflict' = conflict /\ typed' = copy.typed
    BY <1>9 DEF Draft!Loaded
  <2>2. copy.pending \in SUBSET DraftCommands  BY <1>1, <1>4, <1>9 DEF Draft!Copies
  <2>3. /\ running' \in Draft!Requests /\ running' # None
        /\ running'.kind = "restore" /\ running'.base = snapshot' /\ running'.drafts = stored
        /\ running'.commands = stored.pending
    <3>1. /\ running' \in Draft!Requests
          /\ running'.kind = "restore" /\ running'.base = running.version
          /\ running'.drafts = running.drafts /\ running'.commands = copy.pending
      BY <1>1, <1>2, <2>1, <2>2 DEF Draft!Requests
    <3> QED  BY <1>1, <1>2, <3>1 DEF Draft!DraftAssumption
  <2>4. stored' = stored /\ stored # None
    BY <1>1, <1>2, <1>3, <1>4, <1>5, <1>9, <2>1, PersistKeepsCopy
  <2>5. DraftTypes'  BY <1>2, <1>3, <1>4, <1>5, <2>1, <2>3, <2>4 DEF DraftInv, DraftTypes
  <2>6. PhaseInv' /\ CopyInv' /\ RequestInv' /\ Draft!DraftKeepsItsBase'
    BY <1>1, <1>2, <1>3, <2>1, <2>3, <2>4
       DEF PhaseInv, CopyInv, RequestInv, Draft!DraftKeepsItsBase, Draft!busy
  <2>7. WorkInv'
    BY <1>3, <2>4 DEF DraftInv, WorkInv, CopiedWork, SavedWork, Draft!Version, Draft!draftHistory
  <2> QED  BY <2>5, <2>6, <2>7 DEF DraftInv
<1> QED  BY <1>6, <1>7, <1>8, <1>9

LEMMA LoadFailedInv == ASSUME Draft!DraftAssumption, DraftInv, Draft!LoadFailed PROVE DraftInv'
<1>1. /\ Draft!busy /\ ~ hydrated /\ snapshot = None /\ pending = {} /\ conflict = None
           /\ typed = FALSE
  BY DEF Draft!LoadFailed, Draft!Failed, DraftInv, RequestInv, PhaseInv
<1>2. /\ running' = None /\ hydrated' = TRUE /\ Draft!Persist
      /\ UNCHANGED <<saved, snapshot, pending, typed, conflict, confirmReload, Draft!draftHistory>>
  BY DEF Draft!LoadFailed
<1>3. stored' = stored  BY <1>1, <1>2 DEF Draft!Persist
<1>4. accepted' \subseteq pending' \cup CopiedWork' \cup SavedWork \cup discarded' \cup setAside'
        \cup unasked'
  BY <1>2, <1>3 DEF DraftInv, WorkInv, CopiedWork, Draft!draftHistory
<1>5. /\ snapshot' \in Nat \cup {None} /\ pending' \in SUBSET DraftCommands /\ typed' \in BOOLEAN
      /\ conflict' \in Draft!Conflicts \cup {None}
  BY <1>2 DEF DraftInv, DraftTypes
<1> QED  BY <1>1, <1>2, <1>4, <1>5, AnsweredInv

LEMMA RestoredInv == ASSUME Draft!DraftAssumption, DraftInv, Draft!Restored PROVE DraftInv'
<1>1. /\ Draft!busy /\ running \in Draft!Requests /\ running.base = snapshot /\ snapshot # None
      /\ stored # None /\ running.commands = stored.pending /\ conflict = None /\ pending = {}
  BY DEF Draft!Restored, Draft!Arrived, DraftInv, DraftTypes, RequestInv, PhaseInv, Draft!busy
<1>2. /\ pending' = running.commands /\ validatedAt' = running.base
      /\ running' = None /\ hydrated' = TRUE /\ Draft!Persist
      /\ UNCHANGED <<saved, snapshot, typed, conflict, confirmReload, accepted, discarded, setAside,
                     unasked>>
  BY DEF Draft!Restored
<1>3. running.commands = CopiedWork  BY <1>1 DEF CopiedWork
<1>4. accepted' \subseteq pending' \cup CopiedWork' \cup SavedWork \cup discarded' \cup setAside'
        \cup unasked'
  BY <1>1, <1>2, <1>3 DEF DraftInv, WorkInv
<1>5. /\ snapshot' \in Nat \cup {None} /\ pending' \in SUBSET DraftCommands /\ typed' \in BOOLEAN
      /\ conflict' \in Draft!Conflicts \cup {None}
  BY <1>1, <1>2 DEF DraftInv, DraftTypes, Draft!Requests
<1> QED  BY <1>1, <1>2, <1>4, <1>5, AnsweredInv

LEMMA RestoreFailedInv ==
  ASSUME Draft!DraftAssumption, DraftInv, Draft!RestoreFailed
  PROVE  DraftInv'
<1> DEFINE copy == running.drafts
<1>1. /\ Draft!busy /\ snapshot # None /\ copy = stored /\ stored # None /\ conflict = None
           /\ pending = {}
      /\ stored \in Draft!Copies \cup {None}
  BY DEF Draft!RestoreFailed, Draft!Failed, DraftInv, DraftTypes, RequestInv, PhaseInv
<1>2. /\ conflict' = [reason |-> "STALE_DRAFTS", base |-> copy.base, pending |-> copy.pending,
                       typed |-> copy.typed]
      /\ running' = None /\ hydrated' = TRUE /\ Draft!Persist
      /\ UNCHANGED <<saved, snapshot, pending, typed, confirmReload, Draft!draftHistory>>
  BY DEF Draft!RestoreFailed
<1>3. conflict' \in Draft!Conflicts /\ conflict' # None
  BY <1>1, <1>2, CopyIsConflict DEF Draft!DraftAssumption
<1>4. stored' = stored  BY <1>2, <1>3 DEF Draft!Persist
<1>5. accepted' \subseteq pending' \cup CopiedWork' \cup SavedWork \cup discarded' \cup setAside'
        \cup unasked'
  BY <1>2, <1>4 DEF DraftInv, WorkInv, CopiedWork, Draft!draftHistory
<1>6. /\ snapshot' \in Nat \cup {None} /\ pending' \in SUBSET DraftCommands /\ typed' \in BOOLEAN
  BY <1>2 DEF DraftInv, DraftTypes
<1> QED  BY <1>1, <1>2, <1>3, <1>5, <1>6, AnsweredInv

-----------------------------------------------------------------------------
(* The controls. *)

\* A step of the controls needs a version and no request in flight, so that the
\* first load is over.
LEMMA UnlockedIsHydrated ==
  ASSUME DraftInv, ~ Draft!locked
  PROVE  hydrated /\ ~ Draft!busy /\ snapshot # None
BY DEF DraftInv, PhaseInv, Draft!locked

LEMMA TypeInv == ASSUME Draft!DraftAssumption, DraftInv, Draft!Type PROVE DraftInv'
<1>1. hydrated /\ ~ Draft!busy /\ snapshot # None
  BY UnlockedIsHydrated DEF Draft!Type, Draft!previewLocked
<1>2. /\ typed' = ~ typed /\ Draft!Persist
      /\ UNCHANGED <<saved, snapshot, pending, running, conflict, confirmReload, hydrated,
                     Draft!draftHistory>>
  BY DEF Draft!Type
<1>3. CopiedWork' = CopiedWork
  <2>1. CopyInv' /\ (stored' = stored \/ (hydrated' /\ snapshot' # None /\ conflict' = None))
    BY <1>2, PersistKeepsCopy DEF DraftInv, DraftTypes
  <2>2. CASE stored' = stored  BY <2>2 DEF CopiedWork
  <2>3. CASE hydrated' /\ snapshot' # None /\ conflict' = None
    BY <1>2, <2>1, <2>3 DEF DraftInv, CopyInv
  <2> QED  BY <2>1, <2>2, <2>3
<1>4. accepted' \subseteq pending' \cup CopiedWork' \cup SavedWork \cup discarded' \cup setAside'
        \cup unasked'
  BY <1>2, <1>3 DEF DraftInv, WorkInv, Draft!draftHistory
<1>5. /\ snapshot' \in Nat \cup {None} /\ pending' \in SUBSET DraftCommands /\ typed' \in BOOLEAN
      /\ conflict' \in Draft!Conflicts \cup {None} /\ hydrated' = TRUE /\ running' = None
  BY <1>1, <1>2 DEF DraftInv, DraftTypes, Draft!busy
<1>6. pending' # {} => snapshot' = validatedAt'
  BY <1>2 DEF DraftInv, Draft!DraftKeepsItsBase, Draft!draftHistory
<1> QED  BY <1>1, <1>2, <1>4, <1>5, <1>6, AnsweredInv

LEMMA PreviewInv ==
  ASSUME Draft!DraftAssumption, DraftInv, NEW k \in DraftCommands, Draft!Preview(k) PROVE DraftInv'
<1>1. hydrated /\ snapshot # None  BY UnlockedIsHydrated DEF Draft!Preview, Draft!previewLocked
<1>2. pending \cup {k} \in SUBSET DraftCommands  BY DEF DraftInv, DraftTypes
<1>3. Draft!Send("preview", pending \cup {k}, None)
      /\ UNCHANGED <<saved, snapshot, pending, typed, conflict, confirmReload, hydrated, stored,
                     Draft!draftHistory>>
  BY DEF Draft!Preview
<1> QED  BY <1>1, <1>2, <1>3, SentInv

LEMMA SaveInv == ASSUME Draft!DraftAssumption, DraftInv, Draft!Save PROVE DraftInv'
<1>1. hydrated /\ snapshot # None  BY UnlockedIsHydrated DEF Draft!Save
<1>2. pending \in SUBSET DraftCommands  BY DEF DraftInv, DraftTypes
<1>3. Draft!Send("save", pending, None)
      /\ UNCHANGED <<saved, snapshot, pending, typed, conflict, confirmReload, hydrated, stored,
                     Draft!draftHistory>>
  BY DEF Draft!Save
<1> QED  BY <1>1, <1>2, <1>3, SentInv

\* What the copy held, when an answer changes the draft.
LEMMA CopyFollows ==
  ASSUME Draft!DraftAssumption, DraftInv, Draft!Persist, hydrated, hydrated' = hydrated,
         snapshot \in Nat \cup {None}, snapshot' \in Nat \cup {None}, snapshot # None
           \/ snapshot' = snapshot,
         pending' \in SUBSET DraftCommands, typed' \in BOOLEAN,
         conflict = None \/ conflict' # None
  PROVE  CopiedWork \subseteq CopiedWork' \cup pending
<1>1. CopyInv' /\ (stored' = stored \/ (hydrated' /\ snapshot' # None /\ conflict' = None))
  BY PersistKeepsCopy DEF DraftInv, DraftTypes
<1>2. CASE stored' = stored  BY <1>2 DEF CopiedWork
<1>3. CASE hydrated' /\ snapshot' # None /\ conflict' = None
  <2>1. CopiedWork = pending  BY <1>3 DEF DraftInv, CopyInv
  <2> QED  BY <2>1
<1> QED  BY <1>1, <1>2, <1>3

LEMMA PreviewedInv == ASSUME Draft!DraftAssumption, DraftInv, Draft!Previewed PROVE DraftInv'
<1>1. /\ Draft!busy /\ running \in Draft!Requests /\ hydrated /\ pending \subseteq running.commands
      /\ running.version = running.base
  BY DEF Draft!Previewed, Draft!Arrived, DraftInv, DraftTypes, RequestInv, PhaseInv, Draft!busy
<1>2. /\ running.version = snapshot /\ pending' = running.commands
           /\ accepted' = accepted \cup running.commands
      /\ validatedAt' = running.base /\ typed' \in {FALSE, typed} /\ running' = None
           /\ Draft!Persist
      /\ UNCHANGED <<saved, snapshot, conflict, confirmReload, hydrated, discarded, setAside,
                     unasked>>
  BY DEF Draft!Previewed
<1>3. /\ snapshot' \in Nat \cup {None} /\ pending' \in SUBSET DraftCommands /\ typed' \in BOOLEAN
      /\ conflict' \in Draft!Conflicts \cup {None} /\ snapshot \in Nat /\ snapshot # None
  BY <1>1, <1>2 DEF DraftInv, DraftTypes, Draft!Requests, Draft!DraftAssumption
<1>4. CopiedWork \subseteq CopiedWork' \cup pending  BY <1>1, <1>2, <1>3, CopyFollows
<1>5. accepted' \subseteq pending' \cup CopiedWork' \cup SavedWork \cup discarded' \cup setAside'
        \cup unasked'
  BY <1>1, <1>2, <1>4 DEF DraftInv, WorkInv
<1> QED  BY <1>1, <1>2, <1>3, <1>5, AnsweredInv

LEMMA SavedInv == ASSUME Draft!DraftAssumption, DraftInv, Draft!Saved PROVE DraftInv'
<1>1. /\ Draft!busy /\ running \in Draft!Requests /\ hydrated /\ snapshot # None
      /\ pending = running.commands /\ running.commands \subseteq SavedWork
  BY DEF Draft!Saved, Draft!Arrived, DraftInv, DraftTypes, RequestInv, Draft!busy
<1>2. /\ snapshot' = running.version /\ pending' = {} /\ running' = None /\ Draft!Persist
      /\ UNCHANGED <<saved, typed, conflict, confirmReload, hydrated, Draft!draftHistory>>
  BY DEF Draft!Saved
<1>3. /\ snapshot' \in Nat /\ snapshot' # None /\ pending' \in SUBSET DraftCommands
           /\ typed' \in BOOLEAN
      /\ conflict' \in Draft!Conflicts \cup {None} /\ snapshot \in Nat \cup {None}
  BY <1>1, <1>2 DEF DraftInv, DraftTypes, Draft!Requests, Draft!DraftAssumption
<1>4. CopiedWork \subseteq CopiedWork' \cup pending  BY <1>1, <1>2, <1>3, CopyFollows
<1>5. accepted' \subseteq pending' \cup CopiedWork' \cup SavedWork \cup discarded' \cup setAside'
        \cup unasked'
  BY <1>1, <1>2, <1>4 DEF DraftInv, WorkInv, Draft!draftHistory
<1> QED  BY <1>1, <1>2, <1>3, <1>5, AnsweredInv

LEMMA RequestFailedInv ==
  ASSUME Draft!DraftAssumption, DraftInv, Draft!RequestFailed
  PROVE  DraftInv'
<1>1. Draft!busy /\ hydrated /\ running \in Draft!Requests
  BY DEF Draft!RequestFailed, Draft!Failed, DraftInv, DraftTypes, RequestInv, Draft!busy
<1>2. /\ conflict' = IF running.reply = "VERSION_CONFLICT" /\ Draft!unsaved
                     THEN Draft!Drafts("VERSION_CONFLICT") ELSE conflict
      /\ running' = None /\ Draft!Persist
      /\ UNCHANGED <<saved, snapshot, pending, typed, confirmReload, hydrated, Draft!draftHistory>>
  BY DEF Draft!RequestFailed
<1>3. /\ snapshot \in Nat \cup {None} /\ pending \in SUBSET DraftCommands /\ typed \in BOOLEAN
      /\ conflict \in Draft!Conflicts \cup {None}
  BY DEF DraftInv, DraftTypes
<1>4. Draft!Drafts("VERSION_CONFLICT") \in Draft!Conflicts
  BY <1>3 DEF Draft!Drafts, Draft!Conflicts
<1>5. conflict' \in Draft!Conflicts \cup {None} /\ (conflict = None \/ conflict' # None)
  BY <1>2, <1>3, <1>4 DEF Draft!DraftAssumption
<1>6. CopiedWork \subseteq CopiedWork' \cup pending  BY <1>1, <1>2, <1>3, <1>5, CopyFollows
<1>7. accepted' \subseteq pending' \cup CopiedWork' \cup SavedWork \cup discarded' \cup setAside'
        \cup unasked'
  BY <1>2, <1>6 DEF DraftInv, WorkInv, Draft!draftHistory
<1>8. snapshot' = None => pending' = {} /\ typed' = FALSE /\ conflict' = None
  BY <1>2 DEF DraftInv, PhaseInv, Draft!unsaved
<1>9. pending' # {} => snapshot' = validatedAt'
  BY <1>2 DEF DraftInv, Draft!DraftKeepsItsBase, Draft!draftHistory
<1> QED  BY <1>1, <1>2, <1>3, <1>5, <1>7, <1>8, <1>9, AnsweredInv

\* Only the dialog opens or closes.
LEMMA DialogInv ==
  ASSUME Draft!DraftAssumption, DraftInv, hydrated, confirmReload' \in BOOLEAN,
         UNCHANGED <<saved, snapshot, pending, typed, running, conflict, hydrated, stored,
                     Draft!draftHistory>>
  PROVE  DraftInv'
<1>1. DraftTypes'  BY DEF DraftInv, DraftTypes
<1>2. PhaseInv' /\ RequestInv'
  BY DEF DraftInv, PhaseInv, RequestInv, Draft!busy, SavedWork, Draft!Version
<1>3. CopyInv' /\ WorkInv' /\ Draft!DraftKeepsItsBase'
  BY DEF DraftInv, CopyInv, WorkInv, Draft!DraftKeepsItsBase, CopiedWork, SavedWork, Draft!Version,
         Draft!draftHistory
<1> QED  BY <1>1, <1>2, <1>3 DEF DraftInv

LEMMA ReloadInv ==
  ASSUME Draft!DraftAssumption, DraftInv, Draft!Reload \/ Draft!AnswerDialog
  PROVE  DraftInv'
<1>1. UNCHANGED <<saved, snapshot, pending, typed, conflict, hydrated, stored, Draft!draftHistory>>
  BY DEF Draft!Reload, Draft!AnswerDialog
<1>2. hydrated
  <2>1. CASE Draft!Reload
    <3>1. (Draft!unsaved /\ ~ Draft!busy) \/ conflict # None \/ hydrated  BY <2>1 DEF Draft!Reload
    <3>2. ASSUME ~ hydrated, Draft!unsaved, ~ Draft!busy PROVE FALSE
      BY <3>2 DEF DraftInv, PhaseInv, Draft!unsaved
    <3> QED  BY <3>1, <3>2 DEF DraftInv, PhaseInv, DraftTypes
  <2>2. CASE Draft!AnswerDialog  BY <2>2 DEF Draft!AnswerDialog, DraftInv, PhaseInv, DraftTypes
  <2> QED  BY <2>1, <2>2
<1>3. CASE confirmReload' \in BOOLEAN /\ UNCHANGED running  BY <1>1, <1>2, <1>3, DialogInv
<1>4. CASE Draft!Send("reload", {}, None) /\ UNCHANGED confirmReload
  <2>1. {} \in SUBSET DraftCommands  OBVIOUS
  <2> QED  BY <1>1, <1>2, <1>4, <2>1, SentInv
<1> QED  BY <1>3, <1>4 DEF Draft!Reload, Draft!AnswerDialog

LEMMA ReloadedInv == ASSUME Draft!DraftAssumption, DraftInv, Draft!Reloaded PROVE DraftInv'
<1>1. Draft!busy /\ hydrated /\ running \in Draft!Requests
  BY DEF Draft!Reloaded, Draft!Arrived, DraftInv, DraftTypes, RequestInv, Draft!busy
<1>2. /\ snapshot' = running.version /\ pending' = {} /\ typed' = FALSE /\ conflict' = None
      /\ confirmReload' = FALSE /\ running' = None /\ stored' = None
      /\ discarded \cup unasked \cup Draft!Kept \subseteq discarded' \cup unasked'
      /\ UNCHANGED <<saved, hydrated, validatedAt, accepted, setAside>>
  BY DEF Draft!Reloaded
<1>3. snapshot' \in Nat /\ snapshot' # None  BY <1>1, <1>2 DEF Draft!Requests, Draft!DraftAssumption
<1>4. DraftTypes'  BY <1>2, <1>3 DEF DraftInv, DraftTypes
<1>5. PhaseInv' /\ CopyInv' /\ RequestInv' /\ Draft!DraftKeepsItsBase'
  BY <1>1, <1>2, <1>3
     DEF PhaseInv, CopyInv, RequestInv, Draft!DraftKeepsItsBase, CopiedWork, Draft!busy
<1>6. pending \cup CopiedWork \subseteq Draft!Kept  BY DEF Draft!Kept, CopiedWork
<1>7. WorkInv'
  <2>1. SavedWork' = SavedWork  BY <1>2 DEF SavedWork, Draft!Version
  <2> QED  BY <1>2, <1>6, <2>1 DEF DraftInv, WorkInv
<1> QED  BY <1>4, <1>5, <1>7 DEF DraftInv

LEMMA KeepDraftsInv == ASSUME Draft!DraftAssumption, DraftInv, Draft!KeepDrafts PROVE DraftInv'
<1>1. hydrated /\ conflict # None /\ snapshot # None
  BY DEF Draft!KeepDrafts, DraftInv, PhaseInv
<1>2. /\ typed' \in {typed, conflict.typed} /\ conflict' = None /\ Draft!Persist
      /\ setAside' = setAside \cup (Draft!Kept \ Draft!Kept')
      /\ UNCHANGED <<saved, snapshot, pending, running, confirmReload, hydrated,
                     validatedAt, accepted, discarded, unasked>>
  BY DEF Draft!KeepDrafts
<1>3. snapshot' \in Nat \cup {None} /\ pending' \in SUBSET DraftCommands /\ typed' \in BOOLEAN
  BY <1>1, <1>2 DEF DraftInv, DraftTypes, Draft!Conflicts
<1>4. stored' \in Draft!Copies \cup {None} /\ CopyInv'
  BY <1>2, <1>3, PersistKeepsCopy DEF DraftInv, DraftTypes
<1>5. DraftTypes'  BY <1>2, <1>3, <1>4 DEF DraftInv, DraftTypes
<1>6. SavedWork' = SavedWork  BY <1>2 DEF SavedWork, Draft!Version
<1>7. PhaseInv' /\ Draft!DraftKeepsItsBase'
  BY <1>1, <1>2 DEF DraftInv, PhaseInv, Draft!DraftKeepsItsBase
<1>8. RequestInv'
  BY <1>1, <1>2, <1>6 DEF DraftInv, RequestInv, Draft!busy
<1>9. WorkInv'
  <2>1. pending \cup CopiedWork \subseteq Draft!Kept  BY DEF Draft!Kept, CopiedWork
  <2>2. Draft!Kept' = pending' \cup CopiedWork'  BY <1>2 DEF Draft!Kept, CopiedWork
  <2> QED  BY <1>2, <1>6, <2>1, <2>2 DEF DraftInv, WorkInv
<1> QED  BY <1>4, <1>5, <1>7, <1>8, <1>9 DEF DraftInv

LEMMA ReloadPageInv == ASSUME Draft!DraftAssumption, DraftInv, Draft!ReloadPage PROVE DraftInv'
<1>1. /\ snapshot' = None /\ pending' = {} /\ typed' = FALSE /\ running' = None /\ conflict' = None
      /\ confirmReload' = FALSE /\ hydrated' = FALSE
      /\ UNCHANGED <<saved, stored, validatedAt, accepted, setAside, unasked>>
      /\ discarded' = discarded \cup (IF conflict = None THEN {} ELSE pending \ CopiedWork)
  BY DEF Draft!ReloadPage, CopiedWork
<1>2. DraftTypes'  BY <1>1 DEF DraftInv, DraftTypes
<1>3. PhaseInv' /\ CopyInv' /\ RequestInv' /\ Draft!DraftKeepsItsBase'
  BY <1>1 DEF PhaseInv, CopyInv, RequestInv, Draft!DraftKeepsItsBase, Draft!busy
<1>4. conflict = None => pending \subseteq CopiedWork
  BY DEF DraftInv, CopyInv, PhaseInv
<1>5. SavedWork' = SavedWork /\ CopiedWork' = CopiedWork
  BY <1>1 DEF SavedWork, Draft!Version, CopiedWork
<1>6. WorkInv'  BY <1>1, <1>4, <1>5 DEF DraftInv, WorkInv
<1> QED  BY <1>2, <1>3, <1>6 DEF DraftInv

LEMMA DraftNextInv ==
  ASSUME Draft!DraftAssumption, DraftInv, [Draft!Next]_(Draft!draftVars)
  PROVE  DraftInv'
<1>1. CASE Draft!Serve \/ Draft!Lose \/ Draft!OthersSave  BY <1>1, ServeInv, OthersSaveInv
<1>2. CASE Draft!Load \/ Draft!Loaded \/ Draft!LoadFailed \/ Draft!Restored \/ Draft!RestoreFailed
  BY <1>2, LoadInv, LoadedInv, LoadFailedInv, RestoredInv, RestoreFailedInv
<1>3. CASE Draft!Type \/ Draft!Save \/ Draft!Saved \/ Draft!Previewed \/ Draft!RequestFailed
  BY <1>3, TypeInv, SaveInv, SavedInv, PreviewedInv, RequestFailedInv
<1>4. CASE \E k \in DraftCommands : Draft!Preview(k)  BY <1>4, PreviewInv
<1>5. CASE Draft!Reload \/ Draft!AnswerDialog \/ Draft!Reloaded \/ Draft!KeepDrafts
             \/ Draft!ReloadPage
  BY <1>5, ReloadInv, ReloadedInv, KeepDraftsInv, ReloadPageInv
<1>6. CASE UNCHANGED Draft!draftVars
  <2>1. UNCHANGED <<saved, snapshot, pending, typed, running, conflict, confirmReload, hydrated,
                    stored, Draft!draftHistory>>
    BY <1>6 DEF Draft!draftVars, Draft!memory
  <2>2. DraftTypes' /\ PhaseInv' /\ RequestInv'
    BY <2>1 DEF DraftInv, DraftTypes, PhaseInv, RequestInv, Draft!busy, SavedWork, Draft!Version
  <2>3. CopyInv' /\ WorkInv' /\ Draft!DraftKeepsItsBase'
    BY <2>1
       DEF DraftInv, CopyInv, WorkInv, Draft!DraftKeepsItsBase, CopiedWork, SavedWork,
           Draft!Version, Draft!draftHistory
  <2> QED  BY <2>2, <2>3 DEF DraftInv
<1> QED  BY <1>1, <1>2, <1>3, <1>4, <1>5, <1>6 DEF Draft!Next

\* For any commands and any number of versions: a command the kernel accepted
\* stays in the draft, in its copy, in a conflict, in a request or in a saved
\* version until its loss was confirmed or follows from a conflict or a reload;
\* and the commands of a draft were all accepted at the version it is based on.
THEOREM DraftsAreKept ==
  ASSUME Draft!DraftAssumption
  PROVE  Draft!Spec => [](Draft!WorkIsKept /\ Draft!DraftKeepsItsBase)
<1>1. Draft!Init => DraftInv  BY DraftInitInv
<1>2. DraftInv /\ [Draft!Next]_(Draft!draftVars) => DraftInv'  BY DraftNextInv
<1>3. DraftInv => Draft!WorkIsKept /\ Draft!DraftKeepsItsBase
  <2>1. pending \cup CopiedWork \subseteq Draft!Kept  BY DEF Draft!Kept, CopiedWork
  <2>2. WorkInv => accepted \subseteq Draft!Kept \cup SavedWork \cup discarded \cup setAside
          \cup unasked
    BY <2>1 DEF WorkInv
  <2>3. WorkInv => Draft!WorkIsKept
    BY <2>2 DEF Draft!WorkIsKept, SavedWork
  <2> QED  BY <2>3 DEF DraftInv
<1> QED  BY <1>1, <1>2, <1>3, PTL DEF Draft!Spec

-----------------------------------------------------------------------------
(* SpatialInquiryPage. Answers and the ids they were asked for.            *)

\* An answer that is not a failure is of the id it was asked for.
OwnAnswer(a) == a # None => a.result \in {"FAILED", a.id}

\* A comparison is of the ids it was asked for: the digests of its key are
\* those of its ids.
OwnKey(k) == k.digests = k.ids

\* What is known of a request in flight.
InquiryRequest(r) ==
  /\ DOMAIN r = {"what", "key", "reading"}
  /\ r.what = "compare" => OwnKey(r.key)

\* Answers are kept with the ids they were asked for.
InquiryInv ==
  /\ applied \in [Inquiry!Sides -> SavedIds]
  /\ answers = [side \in Inquiry!Sides |-> answers[side]]
  /\ \A side \in Inquiry!Sides : OwnAnswer(answers[side])
  /\ \A r \in requests : InquiryRequest(r)
  /\ comparedAnswer # None =>
       /\ OwnKey(comparedAnswer.key)
       /\ comparedAnswer.result.state = "READY" => comparedAnswer.result.of = comparedAnswer.key.ids

LEMMA ShownIsApplied ==
  ASSUME NEW kept, NEW ids, NEW side \in Inquiry!Sides, OwnAnswer(kept[side]),
         Inquiry!IsReady(Inquiry!Shown(side, kept, ids))
  PROVE  Inquiry!Shown(side, kept, ids) = ids[side]
BY DEF Inquiry!IsReady, Inquiry!Shown, OwnAnswer

LEMMA KeyIsOwn ==
  ASSUME NEW kept, NEW ids \in [Inquiry!Sides -> SavedIds],
         \A side \in Inquiry!Sides : OwnAnswer(kept[side]),
         Inquiry!CompareKey(kept, ids) # None
  PROVE  OwnKey(Inquiry!CompareKey(kept, ids)) /\ Inquiry!CompareKey(kept, ids).ids = ids
<1>1. /\ Inquiry!CompareKey(kept, ids)
           = [ids |-> ids, digests |-> [side \in Inquiry!Sides |-> Inquiry!Shown(side, kept, ids)]]
      /\ \A side \in Inquiry!Sides : Inquiry!IsReady(Inquiry!Shown(side, kept, ids))
  BY DEF Inquiry!CompareKey
<1>2. \A side \in Inquiry!Sides : Inquiry!Shown(side, kept, ids) = ids[side]
  BY <1>1, ShownIsApplied
<1>3. [side \in Inquiry!Sides |-> Inquiry!Shown(side, kept, ids)] = ids  BY <1>2
<1> QED  BY <1>1, <1>3 DEF OwnKey

LEMMA RequestsOfEffects ==
  ASSUME InquiryInv, NEW kept, NEW ids \in [Inquiry!Sides -> SavedIds],
         \A side \in Inquiry!Sides : OwnAnswer(kept[side]), NEW r
  PROVE  /\ r \in Inquiry!Inspections(ids) => InquiryRequest(r)
         /\ r \in Inquiry!Comparisons(Inquiry!CompareKey(kept, ids)) => InquiryRequest(r)
<1>1. r \in Inquiry!Inspections(ids) => InquiryRequest(r)
  BY DEF Inquiry!Inspections, InquiryRequest, Inquiry!Sides
<1>2. ASSUME r \in Inquiry!Comparisons(Inquiry!CompareKey(kept, ids)) PROVE InquiryRequest(r)
  <2>1. CASE r \in requests  BY <2>1 DEF InquiryInv
  <2>2. CASE r \notin requests
    <3>1. /\ Inquiry!CompareKey(kept, ids) # None
          /\ r = [what |-> "compare", key |-> Inquiry!CompareKey(kept, ids), reading |-> FALSE]
      BY <1>2, <2>2 DEF Inquiry!Comparisons
    <3> QED  BY <3>1, KeyIsOwn DEF InquiryRequest
  <2> QED  BY <2>1, <2>2
<1> QED  BY <1>1, <1>2

LEMMA InquiryInitInv == ASSUME Inquiry!Init PROVE InquiryInv
<1>1. \A r \in requests : InquiryRequest(r)
  BY DEF Inquiry!Init, Inquiry!Inspections, InquiryRequest, Inquiry!Sides
<1>2. answers = [side \in Inquiry!Sides |-> answers[side]]  BY DEF Inquiry!Init
<1> QED  BY <1>1, <1>2 DEF Inquiry!Init, InquiryInv, OwnAnswer

LEMMA ApplyInv == ASSUME InquiryInv, Inquiry!Apply PROVE InquiryInv'
<1>1. PICK ids \in [Inquiry!Sides -> SavedIds] :
        applied' = ids /\ requests' = Inquiry!Inspections(ids)
          \cup Inquiry!Comparisons(Inquiry!CompareKey(answers, ids))
  BY DEF Inquiry!Apply
<1>2. UNCHANGED <<answers, comparedAnswer>>  BY DEF Inquiry!Apply
<1>3. \A r \in requests' : InquiryRequest(r)
  BY <1>1, RequestsOfEffects DEF InquiryInv
<1> QED  BY <1>1, <1>2, <1>3 DEF InquiryInv, InquiryRequest, OwnAnswer, OwnKey

LEMMA InspectedInv == ASSUME InquiryInv, NEW r \in requests, Inquiry!Inspected(r) PROVE InquiryInv'
<1>1. PICK result : /\ result \in {"FAILED", r.key}
                    /\ answers' = [answers EXCEPT ![r.what] = [id |-> r.key, result |-> result]]
                    /\ requests' \subseteq requests
                         \cup Inquiry!Comparisons(Inquiry!CompareKey(answers', applied))
  BY DEF Inquiry!Inspected
<1>2. UNCHANGED <<applied, comparedAnswer>> /\ r.what \in Inquiry!Sides  BY DEF Inquiry!Inspected
<1>3. answers' = [side \in Inquiry!Sides |-> answers'[side]]  BY <1>1, <1>2 DEF InquiryInv
<1>4. \A side \in Inquiry!Sides : OwnAnswer(answers'[side])  BY <1>1, <1>2 DEF InquiryInv, OwnAnswer
<1>5. \A q \in requests' : InquiryRequest(q)
  BY <1>1, <1>4, RequestsOfEffects DEF InquiryInv
<1> QED  BY <1>2, <1>3, <1>4, <1>5 DEF InquiryInv, InquiryRequest, OwnAnswer, OwnKey

LEMMA CompareRespondsInv ==
  ASSUME InquiryInv, NEW r \in requests, Inquiry!CompareResponds(r)
  PROVE  InquiryInv'
<1>1. requests' = (requests \ {r}) \cup {[r EXCEPT !.reading = TRUE]}
      /\ UNCHANGED <<applied, answers, comparedAnswer>>
  BY DEF Inquiry!CompareResponds
<1>2. DOMAIN r = {"what", "key", "reading"} /\ (r.what = "compare" => OwnKey(r.key))
  BY DEF InquiryInv, InquiryRequest
<1>3. LET q == [r EXCEPT !.reading = TRUE] IN
      DOMAIN q = DOMAIN r /\ q.what = r.what /\ q.key = r.key
  BY <1>2
<1>4. InquiryRequest([r EXCEPT !.reading = TRUE])  BY <1>2, <1>3 DEF InquiryRequest
<1>5. \A q \in requests' : InquiryRequest(q)  BY <1>1, <1>3, <1>4 DEF InquiryInv
<1> QED  BY <1>1, <1>5 DEF InquiryInv, InquiryRequest, OwnAnswer, OwnKey

LEMMA CompareAnsweredInv ==
  ASSUME InquiryInv, NEW r \in requests, Inquiry!CompareAnswered(r)
  PROVE  InquiryInv'
<1>1. requests' = requests \ {r} /\ UNCHANGED <<applied, answers>> /\ OwnKey(r.key)
  BY DEF Inquiry!CompareAnswered, InquiryInv, InquiryRequest
<1>2. \/ comparedAnswer' = comparedAnswer
      \/ \E of : comparedAnswer' = [key |-> r.key, result |-> [state |-> "FAILED", of |-> of]]
      \/ comparedAnswer' = [key |-> r.key, result |-> [state |-> "READY", of |-> r.key.digests]]
  BY DEF Inquiry!CompareAnswered, Inquiry!Comparison
<1>3. comparedAnswer' # None =>
       /\ OwnKey(comparedAnswer'.key)
       /\ comparedAnswer'.result.state = "READY"
            => comparedAnswer'.result.of = comparedAnswer'.key.ids
  BY <1>1, <1>2 DEF InquiryInv, OwnKey
<1> QED  BY <1>1, <1>3 DEF InquiryInv, InquiryRequest, OwnAnswer, OwnKey

LEMMA InquiryNextInv == ASSUME InquiryInv, [Inquiry!Next]_(Inquiry!inquiryVars) PROVE InquiryInv'
<1>1. CASE UNCHANGED <<applied, answers, comparedAnswer, requests>>
  BY <1>1 DEF InquiryInv, InquiryRequest, OwnAnswer, OwnKey
<1> QED
  BY <1>1, ApplyInv, InspectedInv, CompareRespondsInv, CompareAnsweredInv
  DEF Inquiry!Next, Inquiry!SetView, Inquiry!SaveAnalysis, Inquiry!inquiryVars

LEMMA InquiryInvShows == ASSUME InquiryInv PROVE Inquiry!ShowsWhatIsApplied
<1>1. Inquiry!Drawn \in Inquiry!Sides  BY DEF Inquiry!Drawn, Inquiry!Sides
<1>2. Inquiry!IsReady(Inquiry!Shown(Inquiry!Drawn, answers, applied))
        => Inquiry!Shown(Inquiry!Drawn, answers, applied) = applied[Inquiry!Drawn]
  BY <1>1, ShownIsApplied DEF InquiryInv
<1>3. ASSUME Inquiry!Compared.state = "READY" PROVE Inquiry!Compared.of = applied
  <2>1. /\ Inquiry!CompareKey(answers, applied) # None /\ comparedAnswer # None
        /\ comparedAnswer.key = Inquiry!CompareKey(answers, applied)
             /\ Inquiry!Compared = comparedAnswer.result
    BY <1>3 DEF Inquiry!Compared, Inquiry!Comparison
  <2>2. Inquiry!CompareKey(answers, applied).ids = applied  BY <2>1, KeyIsOwn DEF InquiryInv
  <2> QED  BY <1>3, <2>1, <2>2 DEF InquiryInv
<1> QED  BY <1>2, <1>3 DEF Inquiry!ShowsWhatIsApplied

\* For any number of saved analyses and in whatever order the answers arrive:
\* what the inquiry page shows on a side, or compares, is of the analyses that
\* are applied.
THEOREM InquiryShowsWhatIsApplied == Inquiry!Spec => []Inquiry!ShowsWhatIsApplied
<1>1. Inquiry!Init => InquiryInv  BY InquiryInitInv
<1>2. InquiryInv /\ [Inquiry!Next]_(Inquiry!inquiryVars) => InquiryInv'  BY InquiryNextInv
<1>3. InquiryInv => Inquiry!ShowsWhatIsApplied  BY InquiryInvShows
<1> QED  BY <1>1, <1>2, <1>3, PTL DEF Inquiry!Spec

-----------------------------------------------------------------------------
(* MessageComposer. Drafts, their request ids and their messages.          *)

\* A message of the board has a request id that was made, and the draft being
\* composed is that message when they share the id; when they share the number
\* of a draft, the composer is blank again.
MessageInv(m) ==
  /\ m.requestId \in 1 .. minted /\ m.number \in 0 .. composing.number
  /\ m.requestId = composing.requestId => m = composing
  /\ m.number = composing.number => composing.text = None \/ m = composing

\* What is posted is the draft being composed, and the board has one message of
\* each draft and of each request id.
ComposerInv ==
  /\ minted \in Nat
  /\ composing \in [text : Texts \cup {None}, requestId : 0 .. minted, number : Nat]
  /\ composing.requestId # 0 => composing.text # None
  /\ posting \in {None, [text |-> None, requestId |-> 0, number |-> 0], composing}
  /\ Composer!IsPost => posting = composing /\ composing.requestId # 0
  /\ \A m \in board : MessageInv(m)
  /\ \A m, n \in board : m.requestId = n.requestId \/ m.number = n.number => m = n

LEMMA ComposerInitInv == Composer!Init => ComposerInv
BY DEF Composer!Init, ComposerInv, Composer!Blank, Composer!IsPost

LEMMA EditInv ==
  ASSUME Composer!ComposerAssumption, ComposerInv, NEW text \in Texts, Composer!Edit(text)
  PROVE  ComposerInv'
<1>1. composing' = [text |-> text, requestId |-> 0, number |-> composing.number + 1]
        /\ composing.number \in Nat
  BY DEF Composer!Edit, ComposerInv
<1>2. UNCHANGED <<board, minted>> /\ posting = None /\ posting' = None  BY DEF Composer!Edit
<1>3. minted \in Nat  BY DEF ComposerInv
<1>4. composing' \in [text : Texts \cup {None}, requestId : 0 .. minted, number : Nat]
  BY <1>1, <1>3
<1>5. ASSUME NEW m \in board PROVE MessageInv(m)'
  BY <1>1, <1>2, <1>3, <1>5 DEF ComposerInv, MessageInv
<1> QED  BY <1>1, <1>2, <1>4, <1>5 DEF ComposerInv, Composer!IsPost

LEMMA PostInv == ASSUME ComposerInv, Composer!Post PROVE ComposerInv'
<1>1. /\ minted \in Nat /\ composing.requestId \in 0 .. minted /\ composing.number \in Nat
      /\ composing.text \in Texts \cup {None} /\ composing.text # None
  BY DEF Composer!Post, ComposerInv
<1>2. CASE composing.requestId = 0
  <2>1. minted' = minted + 1 /\ composing' = [composing EXCEPT !.requestId = minted + 1]
          /\ board' = board
        /\ posting' = composing'
    BY <1>2 DEF Composer!Post
  <2>2. /\ composing'.text = composing.text /\ composing'.number = composing.number
        /\ composing'.requestId = minted + 1
        /\ composing' \in [text : Texts \cup {None}, requestId : 0 .. minted', number : Nat]
    BY <1>1, <2>1 DEF ComposerInv
  <2>3. ASSUME NEW m \in board PROVE MessageInv(m)'
    <3>1. m.requestId \in 1 .. minted /\ m.number \in 0 .. composing.number /\ m # composing
      BY <1>2, <2>3 DEF ComposerInv, MessageInv
    <3>2. m.number # composing.number  BY <1>1, <2>3, <3>1 DEF ComposerInv, MessageInv
    <3> QED  BY <1>1, <2>1, <2>2, <3>1, <3>2 DEF MessageInv
  <2>4. composing'.requestId # 0  BY <1>1, <2>2
  <2> QED  BY <1>1, <2>1, <2>2, <2>3, <2>4 DEF ComposerInv, Composer!IsPost
<1>3. CASE composing.requestId # 0
  <2>1. minted' = minted /\ composing' = composing /\ board' = board /\ posting' = composing'
    BY <1>3 DEF Composer!Post, ComposerInv
  <2> QED  BY <1>3, <2>1 DEF ComposerInv, MessageInv, Composer!IsPost
<1> QED  BY <1>2, <1>3

LEMMA RefreshInv == ASSUME ComposerInv, Composer!Refresh PROVE ComposerInv'
BY DEF Composer!Refresh, ComposerInv, MessageInv, Composer!IsPost

\* The board with the message in flight, posted or not.
LEMMA BoardWithPosting ==
  ASSUME ComposerInv, Composer!IsPost
  PROVE  /\ Composer!Accepts(posting)
         /\ \A m \in Composer!With(posting) : MessageInv(m)
         /\ \A m, n \in Composer!With(posting) : m.requestId = n.requestId \/ m.number = n.number
              => m = n
<1>1. posting = composing /\ composing.requestId # 0 /\ composing.text # None
  BY DEF ComposerInv
<1>2. Composer!Accepts(posting)  BY <1>1 DEF Composer!Accepts, ComposerInv, MessageInv
<1>3. CASE \E m \in board : m.requestId = posting.requestId
  BY <1>2, <1>3 DEF Composer!With, ComposerInv
<1>4. CASE \A m \in board : m.requestId # posting.requestId
  <2>1. Composer!With(posting) = board \cup {composing}  BY <1>1, <1>4 DEF Composer!With
  <2>2. MessageInv(composing)  BY <1>1 DEF ComposerInv, MessageInv
  <2>3. \A m \in board : m.requestId # composing.requestId /\ m.number # composing.number
    BY <1>1, <1>4 DEF ComposerInv, MessageInv
  <2> QED  BY <1>2, <2>1, <2>2, <2>3 DEF ComposerInv
<1> QED  BY <1>2, <1>3, <1>4

LEMMA SucceedInv ==
  ASSUME Composer!ComposerAssumption, ComposerInv, Composer!Succeed
  PROVE  ComposerInv'
<1>1. CASE ~ Composer!IsPost
  BY <1>1 DEF Composer!Succeed, ComposerInv, MessageInv, Composer!IsPost
<1>2. CASE Composer!IsPost
  <2>1. board' = Composer!With(posting) /\ composing' = Composer!Blank(composing.number)
          /\ posting' = None /\ minted' = minted
    BY <1>2 DEF Composer!Succeed
  <2>2. /\ \A m \in Composer!With(posting) : MessageInv(m)
        /\ \A m, n \in Composer!With(posting) : m.requestId = n.requestId \/ m.number = n.number
             => m = n
    BY <1>2, BoardWithPosting
  <2>3. composing' = [text |-> None, requestId |-> 0, number |-> composing.number]
    BY <2>1 DEF Composer!Blank
  <2>4. minted \in Nat /\ composing.number \in Nat  BY DEF ComposerInv
  <2>5. \A m \in board' : MessageInv(m)'  BY <2>1, <2>2, <2>3, <2>4 DEF MessageInv
  <2> QED  BY <2>1, <2>2, <2>3, <2>4, <2>5 DEF ComposerInv, Composer!IsPost
<1> QED  BY <1>1, <1>2

LEMMA FailInv == ASSUME ComposerInv, Composer!FailRequest PROVE ComposerInv'
<1>1. UNCHANGED <<composing, minted>> /\ posting' = None  BY DEF Composer!FailRequest
<1>2. board' = board \/ (Composer!IsPost /\ board' = Composer!With(posting))
  BY DEF Composer!FailRequest
<1>3. /\ \A m \in board' : MessageInv(m)
      /\ \A m, n \in board' : m.requestId = n.requestId \/ m.number = n.number => m = n
  BY <1>2, BoardWithPosting DEF ComposerInv
<1> QED  BY <1>1, <1>3 DEF ComposerInv, MessageInv, Composer!IsPost

LEMMA ComposerNextInv ==
  ASSUME Composer!ComposerAssumption, ComposerInv, [Composer!Next]_(Composer!composerVars)
  PROVE  ComposerInv'
<1>1. CASE UNCHANGED Composer!composerVars
  BY <1>1 DEF Composer!composerVars, ComposerInv, MessageInv, Composer!IsPost
<1> QED  BY <1>1, EditInv, PostInv, RefreshInv, SucceedInv, FailInv DEF Composer!Next

LEMMA ComposerInvPostsOnce == ASSUME ComposerInv PROVE Composer!PostedOnce
<1>1. Composer!IsPost => Composer!Accepts(posting)  BY BoardWithPosting
<1> QED  BY <1>1 DEF ComposerInv, Composer!PostedOnce

\* For any texts, and however the answers of the board are lost or late: a
\* message that is posted, retried or edited meanwhile is on the board once at
\* most.
THEOREM MessagesArePostedOnce ==
  ASSUME Composer!ComposerAssumption
  PROVE  Composer!Spec => []Composer!PostedOnce
<1>1. Composer!Init => ComposerInv  BY ComposerInitInv
<1>2. ComposerInv /\ [Composer!Next]_(Composer!composerVars) => ComposerInv'  BY ComposerNextInv
<1>3. ComposerInv => Composer!PostedOnce  BY ComposerInvPostsOnce
<1> QED  BY <1>1, <1>2, <1>3, PTL DEF Composer!Spec

-----------------------------------------------------------------------------
(* ProductionPage. The results of steps and the references commands carry. *)

\* A run has one of three states, and only a normalization is quarantined.
RunInv(r) ==
  /\ r.step \in Page!Steps
  /\ r.state \in {"COMPLETED", "FAILED", "QUARANTINED"}
  /\ r.state = "QUARANTINED" => r.step = "normalize"

\* What refers to a run that completed.
IsReceipt(ref) == \E r \in railRuns : r.state = "COMPLETED" /\ Page!Output(r) = ref

StepStatuses == {"IDLE", "RUNNING", "DONE", "FAILED"}
StepErrors == {None, "REQUEST_CONFLICT", "PRODUCTION_BUSY", "OPERATION_INCOMPLETE"}

\* What is stored at a step.
StepRecords == [attempt : Nat, status : StepStatuses, result : railRuns \cup {None},
                error : StepErrors]

\* Steps keep results of their own, and what a command in flight refers to are
\* receipts.
PageInv ==
  /\ session \in [Page!Steps -> StepRecords]
  /\ \A s \in Page!Steps : session[s].result # None => session[s].result.step = s
  /\ \A r \in railRuns : RunInv(r)
  /\ \A c \in inFlight : c.step \in Page!Steps /\ \A ref \in c.inputs : IsReceipt(ref)

LEMMA OutputsAreReceipts ==
  ASSUME PageInv, NEW s \in Page!Steps, Page!OutputOf(s) # None,
         s # "normalize" \/ session[s].result.state = "COMPLETED"
  PROVE  IsReceipt(Page!OutputOf(s))
<1> DEFINE r == session[s].result
<1>1. r # None  BY DEF Page!OutputOf
<1>2. r \in railRuns /\ r.step = s /\ RunInv(r)  BY <1>1 DEF PageInv, StepRecords
<1>3. r.state # "FAILED"  BY <1>1 DEF Page!OutputOf, Page!Output
<1>4. r.state = "COMPLETED"  BY <1>2, <1>3 DEF RunInv
<1> QED  BY <1>1, <1>2, <1>4 DEF Page!OutputOf, IsReceipt

LEMMA ReadyInputsAreReceipts ==
  ASSUME Page!PageAssumption, PageInv, NEW step \in Page!Steps, Page!Ready(step),
         NEW ref \in Page!InputsOf(step)
  PROVE  IsReceipt(ref)
<1>1. ref # None  BY DEF Page!Ready
<1>2. (\E s \in {"corpus", "source", "capture"} : ref = Page!OutputOf(s)) \/ ref = Page!Member
  BY DEF Page!PageAssumption, Page!InputsOf
<1>3. ASSUME NEW s \in {"corpus", "source", "capture"}, ref = Page!OutputOf(s) PROVE IsReceipt(ref)
  BY <1>1, <1>3, OutputsAreReceipts DEF Page!PageAssumption
<1>4. CASE ref = Page!Member
  <2>1. ref = Page!OutputOf("normalize") /\ session["normalize"].result.state = "COMPLETED"
    BY <1>1, <1>4 DEF Page!Member
  <2> QED  BY <1>1, <2>1, OutputsAreReceipts DEF Page!PageAssumption
<1> QED  BY <1>2, <1>3, <1>4

LEMMA ReceiptsRemain ==
  ASSUME railRuns \subseteq railRuns', NEW ref, IsReceipt(ref)
  PROVE  IsReceipt(ref)'
<1>1. PICK r \in railRuns : r.state = "COMPLETED" /\ Page!Output(r) = ref  BY DEF IsReceipt
<1> QED  BY <1>1 DEF IsReceipt

LEMMA NewRunsAreTyped ==
  ASSUME PageInv, NEW c \in inFlight, NEW r \in Page!Runs(c)
  PROVE  RunInv(r) /\ r.step = c.step
BY DEF PageInv, Page!Runs, RunInv

\* What storing a step leaves: its attempt, and all other steps.
LEMMA StoredStep ==
  ASSUME session \in [Page!Steps -> StepRecords], NEW step \in Page!Steps,
         NEW status \in StepStatuses, NEW result \in railRuns' \cup {None},
         NEW error \in StepErrors, Page!Stored(step, status, result, error)
  PROVE  /\ session' = [s \in Page!Steps |-> session'[s]]
         /\ \A s \in Page!Steps :
              session'[s] = IF s = step
                            THEN [attempt |-> session[s].attempt, status |-> status,
                                  result |-> result, error |-> error]
                            ELSE session[s]
<1>1. session' = [s \in Page!Steps |-> session'[s]]
  BY DEF Page!Stored
<1>2. \A s \in Page!Steps \ {step} : session'[s] = session[s]
  BY DEF Page!Stored
<1>3. session'[step] = [session[step] EXCEPT !.status = status, !.result = result, !.error = error]
  BY DEF Page!Stored
<1>4. session[step] = [attempt |-> session[step].attempt, status |-> session[step].status,
                       result |-> session[step].result, error |-> session[step].error]
  BY DEF StepRecords
<1>5. session'[step] = [attempt |-> session[step].attempt, status |-> status,
                        result |-> result, error |-> error]
  BY <1>3, <1>4
<1> QED  BY <1>1, <1>2, <1>5

\* A step that stores an answer of the rail, or a refusal.
LEMMA AnswerStored ==
  ASSUME PageInv, NEW c \in inFlight, NEW r \in Page!Runs(c),
         railRuns' \in {railRuns, railRuns \cup {r}}, inFlight' = inFlight \ {c},
         NEW status \in StepStatuses,
         NEW result \in {session[c.step].result} \cup ({r} \cap railRuns'),
         NEW error \in StepErrors, Page!Stored(c.step, status, result, error)
  PROVE  PageInv'
<1>1. RunInv(r) /\ r.step = c.step /\ c.step \in Page!Steps  BY NewRunsAreTyped DEF PageInv
<1>2. railRuns \subseteq railRuns'  OBVIOUS
<1>3. \A q \in railRuns' : RunInv(q)'  BY <1>1 DEF PageInv, RunInv
<1>4. \A d \in inFlight' : d.step \in Page!Steps /\ \A ref \in d.inputs : IsReceipt(ref)'
  BY <1>2, ReceiptsRemain DEF PageInv
<1>5. /\ result \in railRuns' \cup {None}
      /\ result # None => result.step = c.step
  BY <1>1, <1>2 DEF PageInv, StepRecords
<1>6. \A s \in Page!Steps :
        session'[s] = IF s = c.step
                      THEN [attempt |-> session[s].attempt, status |-> status, result |-> result,
                            error |-> error]
                      ELSE session[s]
  <2>1. session \in [Page!Steps -> StepRecords] /\ c.step \in Page!Steps  BY <1>1 DEF PageInv
  <2>2. result \in railRuns' \cup {None}  BY <1>5
  <2> QED  BY <2>1, <2>2, StoredStep
<1>7. session' \in [Page!Steps -> StepRecords']
  <2>1. DOMAIN session' = Page!Steps /\ session' = [s \in Page!Steps |-> session'[s]]
    BY DEF PageInv, Page!Stored
  <2>2. \A s \in Page!Steps : session[s] \in StepRecords
    BY DEF PageInv
  <2>3. session'[c.step] \in StepRecords'
    <3>1. session[c.step].attempt \in Nat  BY <1>1, <2>2 DEF StepRecords
    <3>2. session'[c.step] = [attempt |-> session[c.step].attempt, status |-> status,
                              result |-> result, error |-> error]
      BY <1>1, <1>6
    <3> QED  BY <1>5, <3>1, <3>2 DEF StepRecords, StepErrors
  <2>4. ASSUME NEW s \in Page!Steps, s # c.step PROVE session'[s] \in StepRecords'
    BY <1>2, <1>6, <2>2, <2>4 DEF StepRecords, StepErrors
  <2>5. \A s \in Page!Steps : session'[s] \in StepRecords'  BY <2>3, <2>4
  <2> QED  BY <2>1, <2>5
<1>8. \A s \in Page!Steps : session'[s].result # None => session'[s].result.step = s
  <2>1. session'[c.step] = [attempt |-> session[c.step].attempt, status |-> status,
                            result |-> result, error |-> error]
    BY <1>1, <1>6
  <2>2. ASSUME NEW s \in Page!Steps, s # c.step PROVE session'[s] = session[s]  BY <1>6, <2>2
  <2>3. session'[c.step].result = result  BY <2>1
  <2> QED  BY <1>5, <2>2, <2>3 DEF PageInv
<1> QED  BY <1>3, <1>4, <1>7, <1>8 DEF PageInv

LEMMA PageInitInv == ASSUME Page!Init PROVE PageInv
BY DEF Page!Init, PageInv, Page!Fresh, StepRecords, StepStatuses, StepErrors

LEMMA SendInv ==
  ASSUME Page!PageAssumption, PageInv, NEW step \in Page!Steps, Page!SendStep(step)
  PROVE  PageInv'
<1>1. \A ref \in Page!InputsOf(step) : IsReceipt(ref)  BY ReadyInputsAreReceipts DEF Page!SendStep
<1>2. \A ref : IsReceipt(ref) <=> IsReceipt(ref)'  BY DEF Page!SendStep, IsReceipt
<1>3. \A c \in inFlight' : c.step \in Page!Steps /\ \A ref \in c.inputs : IsReceipt(ref)'
  <2>1. Page!Command(step).step = step /\ Page!Command(step).inputs = Page!InputsOf(step)
    BY DEF Page!Command
  <2> QED  BY <1>1, <1>2, <2>1 DEF Page!SendStep, PageInv
<1>4. \A r \in railRuns' : RunInv(r)'  BY DEF Page!SendStep, PageInv, RunInv
<1>5. /\ session' = [s \in Page!Steps |-> session'[s]]
      /\ \A s \in Page!Steps :
           session'[s] = IF s = step
                         THEN [attempt |-> session[s].attempt, status |-> "RUNNING",
                               result |-> None, error |-> None]
                         ELSE session[s]
  <2>1. /\ session \in [Page!Steps -> StepRecords] /\ "RUNNING" \in StepStatuses
        /\ None \in StepErrors
    BY DEF PageInv, StepStatuses, StepErrors
  <2>2. Page!Stored(step, "RUNNING", None, None)  BY DEF Page!SendStep
  <2> QED  BY <2>1, <2>2, StoredStep
<1>6. session' \in [Page!Steps -> StepRecords']
  <2>1. StepRecords' = StepRecords  BY DEF Page!SendStep, StepRecords
  <2>2. \A s \in Page!Steps : session[s] \in StepRecords  BY DEF PageInv
  <2>3. \A s \in Page!Steps : session'[s] \in StepRecords
    BY <1>5, <2>2 DEF StepRecords, StepStatuses, StepErrors
  <2> QED  BY <1>5, <2>1, <2>3
<1>7. \A s \in Page!Steps : session'[s].result # None => session'[s].result.step = s
  BY <1>5 DEF PageInv
<1> QED  BY <1>3, <1>4, <1>6, <1>7 DEF PageInv

LEMMA RenamedInv == ASSUME PageInv, NEW step \in Page!Steps, Page!Renamed(step) PROVE PageInv'
<1>1. \A ref : IsReceipt(ref) <=> IsReceipt(ref)'  BY DEF Page!Renamed, IsReceipt
<1>2. \A s \in Page!Steps : session[s].attempt + 1 \in Nat  BY DEF PageInv, StepRecords
<1>3. session' \in [Page!Steps -> StepRecords']
  BY <1>2 DEF Page!Renamed, PageInv, Page!Fresh, StepRecords, StepStatuses, StepErrors
<1>4. \A s \in Page!Steps : session'[s].result # None => session'[s].result.step = s
  BY DEF Page!Renamed, PageInv, Page!Fresh, StepRecords, StepStatuses, StepErrors
<1> QED  BY <1>1, <1>3, <1>4 DEF Page!Renamed, PageInv, RunInv

LEMMA PageNextInv == ASSUME Page!PageAssumption, PageInv, [Page!Next]_(Page!pageVars) PROVE PageInv'
<1>1. ASSUME NEW step \in Page!Steps, Page!SendStep(step) PROVE PageInv'  BY <1>1, SendInv
<1>2. ASSUME NEW step \in Page!Steps, Page!NewIdentity(step) \/ Page!RecoverByNewIdentity(step)
      PROVE  PageInv'
  BY <1>2, RenamedInv DEF Page!NewIdentity, Page!RecoverByNewIdentity
<1>3. ASSUME NEW c \in inFlight, Page!Answered(c) PROVE PageInv'
  <2>1. PICK r \in Page!Runs(c) : railRuns' = railRuns \cup {r}
          /\ Page!Stored(c.step, "DONE", r, session[c.step].error)
    BY <1>3 DEF Page!Answered
  <2>2. session[c.step].error \in StepErrors  BY DEF PageInv, StepRecords
  <2>3. inFlight' = inFlight \ {c}  BY <1>3 DEF Page!Answered
  <2> QED  BY <2>1, <2>2, <2>3, AnswerStored DEF StepStatuses
<1>4. ASSUME NEW c \in inFlight, Page!Refused(c) PROVE PageInv'
  <2>1. PICK r \in Page!Runs(c) : /\ railRuns' \in {railRuns, railRuns \cup {r}}
                                  /\ \E code \in StepErrors :
                                       Page!Stored(c.step, "FAILED", session[c.step].result, code)
    BY <1>4 DEF Page!Refused, StepErrors
  <2>2. PICK code \in StepErrors : Page!Stored(c.step, "FAILED", session[c.step].result, code)
    BY <2>1
  <2>3. inFlight' = inFlight \ {c}  BY <1>4 DEF Page!Refused
  <2> QED  BY <2>1, <2>2, <2>3, AnswerStored DEF StepStatuses
<1>5. CASE UNCHANGED <<session, inFlight, railRuns>>
  BY <1>5 DEF PageInv, StepRecords, IsReceipt, RunInv
<1> QED  BY <1>1, <1>2, <1>3, <1>4, <1>5 DEF Page!Next, Page!ChooseBytes, Page!pageVars

LEMMA PageInvHasReceipts == ASSUME PageInv PROVE Page!ReferencesAreReceipts
<1>1. \A s \in Page!Steps : Page!StageState(s) = "DONE" => session[s].result \in railRuns
  <2> SUFFICES ASSUME NEW s \in Page!Steps, session[s].result \notin railRuns
               PROVE  Page!StageState(s) # "DONE"
    OBVIOUS
  <2>1. session[s].result = None  BY DEF PageInv, StepRecords
  <2> QED  BY <2>1 DEF Page!StageState
<1> QED  BY <1>1 DEF PageInv, IsReceipt, Page!ReferencesAreReceipts

\* However often steps are retried, renamed and answered late, and whatever a late
\* answer or refusal finds at its step: the references a command of the production
\* page carries are receipts of runs that completed.
THEOREM PageRefersToReceipts ==
  ASSUME Page!PageAssumption
  PROVE  Page!Spec => []Page!ReferencesAreReceipts
<1>1. Page!Init => PageInv  BY PageInitInv
<1>2. PageInv /\ [Page!Next]_(Page!pageVars) => PageInv'  BY PageNextInv
<1>3. PageInv => Page!ReferencesAreReceipts  BY PageInvHasReceipts
<1> QED  BY <1>1, <1>2, <1>3, PTL DEF Page!Spec

-----------------------------------------------------------------------------
(* EarthTwin. Sessions, their loads and the viewer.                        *)

\* The cardinality of the instance is that of the library.
LEMMA GlobeCount == \A S : Globe!Cardinality(S) = Cardinality(S)
BY DEF Globe!Cardinality, Cardinality

\* The globe of a session.
GlobeOf(number, time, points) == [session |-> number, time |-> time, drawn |-> points]

\* A session has one load at most; while it has one it has no viewer and no
\* status, and a viewer is there when and only when it is ready.
TwinInv ==
  /\ twin \in Nat \ {0}
  /\ \A l \in loading : l.session \in 1 .. twin /\ DOMAIN l = {"session", "waits"}
  /\ \A l, m \in loading : l.session = m.session => l = m
  /\ runtime \in [session : 0 .. twin, state : {"LOADING", "READY", "UNAVAILABLE"}]
  /\ \A l \in loading : l.session = twin => runtime.session # twin
  /\ IF runtime.session = twin /\ runtime.state = "READY"
     THEN viewers = {GlobeOf(twin, selectedRecord, placed)} /\ engine = twin
     ELSE viewers = {}

LEMMA TwinInitInv == ASSUME Globe!Init PROVE TwinInv
BY DEF Globe!Init, TwinInv

\* The effects on the live viewer leave the one of this session with the time
\* and the points they are given.
LEMMA RedrawnGlobe ==
  ASSUME TwinInv, NEW time, NEW points, Globe!Redrawn(time, points),
         UNCHANGED <<twin, loading, engine, runtime>>,
         selectedRecord' = time, placed' = points
  PROVE  TwinInv'
<1>1. CASE runtime.session = twin /\ runtime.state = "READY"
  <2>1. viewers = {GlobeOf(twin, selectedRecord, placed)} /\ engine = twin  BY <1>1 DEF TwinInv
  <2>2. GlobeOf(twin, selectedRecord, placed).session = engine  BY <2>1 DEF GlobeOf
  <2>3. viewers' = {[v EXCEPT !.time = IF v.session = engine THEN time ELSE @,
                             !.drawn = IF v.session = engine THEN points ELSE @] : v \in viewers}
    BY <1>1 DEF Globe!Redrawn, Globe!Status
  <2>4. viewers' = {[GlobeOf(twin, selectedRecord, placed) EXCEPT !.time = time, !.drawn = points]}
    <3>1. ASSUME NEW v \in viewers
          PROVE  [v EXCEPT !.time = IF v.session = engine THEN time ELSE @,
                           !.drawn = IF v.session = engine THEN points ELSE @]
                 = [GlobeOf(twin, selectedRecord, placed) EXCEPT !.time = time, !.drawn = points]
      <4>1. v = GlobeOf(twin, selectedRecord, placed) /\ v.session = engine  BY <2>1, <2>2
      <4> QED  BY <4>1
    <3> QED  BY <2>1, <2>3, <3>1
  <2>5. [GlobeOf(twin, selectedRecord, placed) EXCEPT !.time = time, !.drawn = points]
          = GlobeOf(twin, time, points)
    <3> DEFINE g == [GlobeOf(twin, selectedRecord, placed) EXCEPT !.time = time, !.drawn = points]
    <3>1. g \in [session : {twin}, time : {time}, drawn : {points}]  BY DEF GlobeOf
    <3>2. g.session = twin /\ g.time = time /\ g.drawn = points  BY <3>1
    <3> HIDE DEF g
    <3>3. g = GlobeOf(twin, time, points)  BY <3>1, <3>2 DEF GlobeOf
    <3> QED  BY <3>3 DEF g
  <2>6. viewers' = {GlobeOf(twin, time, points)}  BY <2>4, <2>5
  <2> QED  BY <1>1, <2>1, <2>6 DEF TwinInv
<1>2. CASE ~ (runtime.session = twin /\ runtime.state = "READY")
  <2>1. viewers = {}  BY <1>2 DEF TwinInv
  <2>2. viewers' = {}  BY <2>1 DEF Globe!Redrawn
  <2> QED  BY <1>2, <2>2 DEF TwinInv
<1> QED  BY <1>1, <1>2

LEMMA NextSessionInv == ASSUME Globe!TwinAssumption, TwinInv, Globe!NextSession PROVE TwinInv'
<1>1. twin \in Nat \ {0} /\ twin' = twin + 1 /\ runtime' = runtime
  BY DEF Globe!NextSession, TwinInv
<1>2. /\ \A l \in loading : l.session \in 1 .. twin /\ DOMAIN l = {"session", "waits"}
      /\ runtime \in [session : 0 .. twin, state : {"LOADING", "READY", "UNAVAILABLE"}]
  BY DEF TwinInv
<1>3. viewers' = {}
  <2>1. viewers' = {v \in viewers : v.session # twin}  BY DEF Globe!NextSession
  <2>2. \A v \in viewers : v.session = twin  BY DEF TwinInv, GlobeOf
  <2> QED  BY <2>1, <2>2
<1>4. \A l \in loading' :
        l \in loading \/ (l.session = twin + 1 /\ l = [session |-> twin + 1, waits |-> "engine"])
  BY DEF Globe!NextSession
<1>5. \A l \in loading' : l.session \in 1 .. twin' /\ DOMAIN l = {"session", "waits"}
  BY <1>1, <1>2, <1>4
<1>6. \A l, m \in loading' : l.session = m.session => l = m
  <2>1. \A l \in loading : l.session # twin + 1  BY <1>1, <1>2
  <2> QED  BY <1>4, <2>1 DEF TwinInv
<1>7. runtime' \in [session : 0 .. twin', state : {"LOADING", "READY", "UNAVAILABLE"}]
        /\ runtime'.session # twin'
  BY <1>1, <1>2
<1> QED  BY <1>1, <1>3, <1>5, <1>6, <1>7 DEF TwinInv

LEMMA EngineLoadedInv == ASSUME TwinInv, NEW l \in loading, Globe!EngineLoaded(l) PROVE TwinInv'
<1> DEFINE next == [l EXCEPT !.waits = "imagery"]
<1>1. loading' \subseteq (loading \ {l}) \cup {next}
        /\ UNCHANGED <<twin, viewers, engine, runtime, selectedRecord, placed>>
  BY DEF Globe!EngineLoaded, Globe!projectionVars
<1>2. DOMAIN l = {"session", "waits"}  BY DEF TwinInv
<1>3. next.session = l.session /\ DOMAIN next = {"session", "waits"}  BY <1>2
<1> HIDE DEF next
<1>4. /\ \A m \in loading' : m.session \in 1 .. twin /\ DOMAIN m = {"session", "waits"}
      /\ \A m \in loading' : m.session = twin => runtime.session # twin
  BY <1>1, <1>3 DEF TwinInv
<1>5. \A m, n \in loading' : m.session = n.session => m = n  BY <1>1, <1>3 DEF TwinInv
<1> QED  BY <1>1, <1>4, <1>5 DEF TwinInv

LEMMA ImageryLoadedInv == ASSUME TwinInv, NEW l \in loading, Globe!ImageryLoaded(l) PROVE TwinInv'
<1>1. loading' = loading \ {l} /\ UNCHANGED <<twin, selectedRecord, placed>>
  BY DEF Globe!ImageryLoaded, Globe!projectionVars
<1>2. CASE Globe!Cancelled(l)
  <2>1. UNCHANGED <<viewers, engine, runtime>>  BY <1>2 DEF Globe!ImageryLoaded
  <2> QED  BY <1>1, <2>1 DEF TwinInv
<1>3. CASE ~ Globe!Cancelled(l)
  <2>1. l.session = twin  BY <1>3 DEF Globe!Cancelled
  <2>2. viewers = {}  BY <2>1 DEF TwinInv
  <2>3. viewers' = {GlobeOf(twin, selectedRecord, placed)} /\ engine' = twin
        /\ runtime' = [session |-> twin, state |-> "READY"]
    BY <1>3, <2>1, <2>2 DEF Globe!ImageryLoaded, Globe!Viewer, GlobeOf
  <2>4. \A m \in loading' : m.session # twin  BY <1>1, <2>1 DEF TwinInv
  <2>5. twin \in Nat \ {0}  BY DEF TwinInv
  <2> QED  BY <1>1, <2>3, <2>4, <2>5 DEF TwinInv
<1> QED  BY <1>2, <1>3

LEMMA LoadFailsInv == ASSUME TwinInv, NEW l \in loading, Globe!LoadFails(l) PROVE TwinInv'
<1>1. loading' = loading \ {l} /\ UNCHANGED <<twin, viewers, engine, selectedRecord, placed>>
  BY DEF Globe!LoadFails, Globe!projectionVars
<1>2. CASE Globe!Cancelled(l)
  <2>1. runtime' = runtime  BY <1>2 DEF Globe!LoadFails
  <2> QED  BY <1>1, <2>1 DEF TwinInv
<1>3. CASE ~ Globe!Cancelled(l)
  <2>1. l.session = twin  BY <1>3 DEF Globe!Cancelled
  <2>2. viewers = {}  BY <2>1 DEF TwinInv
  <2>3. runtime' = [session |-> twin, state |-> "UNAVAILABLE"]  BY <1>3, <2>1 DEF Globe!LoadFails
  <2>4. \A m \in loading' : m.session # twin  BY <1>1, <2>1 DEF TwinInv
  <2>5. twin \in Nat \ {0}  BY DEF TwinInv
  <2> QED  BY <1>1, <2>2, <2>3, <2>4, <2>5 DEF TwinInv
<1> QED  BY <1>2, <1>3

LEMMA TwinNextInv ==
  ASSUME Globe!TwinAssumption, TwinInv, [Globe!Next]_(Globe!twinVars)
  PROVE  TwinInv'
<1>1. ASSUME NEW r \in Globe!Records, Globe!SelectRecord(r) PROVE TwinInv'
  BY <1>1, RedrawnGlobe DEF Globe!SelectRecord
<1>2. CASE Globe!PreviewAnswered \/ Globe!PlaceDone
  BY <1>2, RedrawnGlobe DEF Globe!PreviewAnswered, Globe!PlaceDone
<1>3. CASE UNCHANGED <<twin, loading, viewers, engine, runtime, selectedRecord, placed>>
  BY <1>3 DEF TwinInv
<1>4. CASE Globe!PlaceAll \/ Globe!PlaceNext \/ UNCHANGED Globe!twinVars
  BY <1>3, <1>4 DEF Globe!PlaceAll, Globe!PlaceNext, Globe!engineVars, Globe!twinVars
<1> QED
  BY <1>1, <1>2, <1>4, NextSessionInv, EngineLoadedInv, ImageryLoadedInv, LoadFailsInv
     DEF Globe!Next

LEMMA TwinInvIsCurrent == ASSUME TwinInv PROVE Globe!OneCurrentGlobe
<1>1. CASE viewers = {}
  <2>1. Cardinality(viewers) = 0  BY <1>1, FS_EmptySet
  <2>2. ~ (Globe!Status = "READY")  BY <1>1 DEF TwinInv, Globe!Status
  <2> QED  BY <1>1, <2>1, <2>2, GlobeCount DEF Globe!OneCurrentGlobe
<1>2. CASE viewers = {GlobeOf(twin, selectedRecord, placed)} /\ engine = twin
  <2>1. Cardinality(viewers) = 1  BY <1>2, FS_Singleton
  <2> QED  BY <1>2, <2>1, GlobeCount DEF Globe!OneCurrentGlobe, GlobeOf
<1> QED  BY <1>1, <1>2 DEF TwinInv

\* For any number of sessions: there is one live globe at most, it belongs to
\* the current session, and shows the time and the positions that are selected,
\* whichever of the loads of earlier sessions ends late.
THEOREM GlobeIsCurrent == ASSUME Globe!TwinAssumption PROVE Globe!Spec => []Globe!OneCurrentGlobe
<1>1. Globe!Init => TwinInv  BY TwinInitInv
<1>2. TwinInv /\ [Globe!Next]_(Globe!twinVars) => TwinInv'  BY TwinNextInv
<1>3. TwinInv => Globe!OneCurrentGlobe  BY TwinInvIsCurrent
<1> QED  BY <1>1, <1>2, <1>3, PTL DEF Globe!Spec

-----------------------------------------------------------------------------
(* ObservationReplay. The row of a report and the chain the page shows.    *)

\* The row on the page was compiled of the manifest it is shown with.
ReplayInv == manifest \in Replay!Manifests /\ row \in {None, Replay!CompileRow(manifest)}

\* Stamps are aligned on the page as in the report.
LEMMA AlignsAlike ==
  ASSUME NEW m \in Replay!Manifests, NEW stamp \in Replay!Stamps, Replay!ReplayAssumption
  PROVE  /\ Replay!Aligned(m, stamp) = Replay!Align(m, stamp)
         /\ Replay!Align(m, stamp) \in Replay!ReplayStamps \cup {None}
<1>1. PICK a : a = m.clocks[stamp.clock]
  OBVIOUS
<1>2. stamp.time \in Int /\ stamp.clock \in 1 .. 2
  BY DEF Replay!Stamps, Replay!Instants
<1>3. a \in Replay!Alignments
  BY <1>1, <1>2 DEF Replay!Manifests
<1>4. a # None => a.timeline \in Timelines /\ a.from \in Int /\ a.until \in Int /\ a.offset \in Int
  BY <1>3 DEF Replay!Alignments, Replay!Windows, Replay!Instants
<1>5. a # None => (Replay!InWindow(stamp.time, a) <=> ~ (stamp.time < a.from \/ stamp.time >= a.until))
  BY <1>2, <1>4 DEF Replay!InWindow
<1>6. a # None => [timeline |-> a.timeline, time |-> stamp.time + a.offset] \in Replay!ReplayStamps
  BY <1>2, <1>4 DEF Replay!ReplayStamps
<1> QED BY <1>1, <1>5, <1>6 DEF Replay!Align, Replay!Aligned

LEMMA RowsAgree ==
  ASSUME Replay!ReplayAssumption, NEW m \in Replay!Manifests, m.point # None, NEW r,
         r = Replay!CompileRow(m)
  PROVE  /\ Replay!CalibrationState(m) = "VALID"
              <=> "CALIBRATION_NOT_VALID_AT_OBSERVATION" \notin r.blockers
         /\ Replay!CalibrationState(m) = "UNAVAILABLE"
              <=> "CLOCK_ALIGNMENT_UNAVAILABLE" \in r.blockers
         /\ Replay!PoseState(m) = "UNAVAILABLE"
              <=> "POSE_CLOCK_ALIGNMENT_UNAVAILABLE" \in r.blockers
         /\ Replay!PoseState(m) = "INVALID" <=> "POSE_TIME_MISMATCH" \in r.blockers
         /\ Replay!PoseState(m) = "VALID" <=> r.poseDelta = 0
         /\ "PLACED_ESTIMATE" \in Replay!Distinctions(m, r)
              <=> /\ Replay!CalibrationState(m) = "VALID" /\ Replay!PoseState(m) = "VALID"
                  /\ m.point.atReference /\ m.meant
<1>1. /\ m.stamp \in Replay!Stamps /\ m.point \in Replay!Points /\ m.point.pose \in Replay!Stamps
      /\ m.point.calibration \in Replay!Windows /\ m.meant \in BOOLEAN
           /\ m.point.atReference \in BOOLEAN
  BY DEF Replay!Manifests, Replay!Stamps, Replay!Points
<1>2. PICK time, poseTime, c :
        /\ time = Replay!Align(m, m.stamp) /\ poseTime = Replay!Align(m, m.point.pose)
        /\ c = m.point.calibration
  OBVIOUS
<1>3. /\ time \in Replay!ReplayStamps \cup {None} /\ poseTime \in Replay!ReplayStamps \cup {None}
      /\ Replay!Aligned(m, m.stamp) = time /\ Replay!Aligned(m, m.point.pose) = poseTime
  BY <1>1, <1>2, AlignsAlike
<1>4. /\ time # None => time.timeline \in Timelines /\ time.time \in Int
      /\ poseTime # None => poseTime.timeline \in Timelines /\ poseTime.time \in Int
      /\ c.from \in Int /\ c.until \in Int
  BY <1>1, <1>2, <1>3 DEF Replay!ReplayStamps, Replay!Windows, Replay!Instants
<1>5. PICK blockers : blockers = r.blockers
  OBVIOUS
<1>6. blockers = (IF time = None THEN {"CLOCK_ALIGNMENT_UNAVAILABLE"} ELSE {})
                   \cup Replay!PointBlockers(m, time, poseTime)
  BY <1>2, <1>5 DEF Replay!CompileRow
<1>7. /\ "POINT_TIME_UNRESOLVED" \in blockers <=> ~ m.point.atReference
      /\ "TIMESTAMP_MEANING_UNRESOLVED" \in blockers <=> ~ m.meant
      /\ "CALIBRATION_NOT_VALID_AT_OBSERVATION" \in blockers <=>
           \/ time = None \/ c.timeline # time.timeline
           \/ time.time < c.from \/ time.time >= c.until
      /\ "POSE_CLOCK_ALIGNMENT_UNAVAILABLE" \in blockers <=> Replay!Unaligned(time, poseTime)
      /\ "POSE_TIME_MISMATCH" \in blockers
           <=> ~Replay!Unaligned(time, poseTime) /\ poseTime.time # time.time
      /\ "CLOCK_ALIGNMENT_UNAVAILABLE" \in blockers <=> time = None
      /\ blockers = {} <=>
           /\ "POINT_TIME_UNRESOLVED" \notin blockers
           /\ "TIMESTAMP_MEANING_UNRESOLVED" \notin blockers
           /\ "CALIBRATION_NOT_VALID_AT_OBSERVATION" \notin blockers
           /\ "POSE_CLOCK_ALIGNMENT_UNAVAILABLE" \notin blockers
           /\ "POSE_TIME_MISMATCH" \notin blockers
           /\ "CLOCK_ALIGNMENT_UNAVAILABLE" \notin blockers
  BY <1>2, <1>6 DEF Replay!PointBlockers
<1>8. /\ r.poseDelta = IF Replay!Unaligned(time, poseTime) THEN None ELSE poseTime.time - time.time
      /\ r.state = IF blockers = {} THEN "PLACED_ESTIMATE" ELSE "UNPLACED"
  <2>1. r.blockers = blockers
    BY <1>5
  <2> QED BY <1>2, <2>1 DEF Replay!CompileRow
<1>9. Replay!CalibrationState(m) =
        IF time = None THEN "UNAVAILABLE"
        ELSE IF c.timeline = time.timeline /\ time.time >= c.from /\ time.time < c.until
             THEN "VALID" ELSE "INVALID"
  BY <1>2, <1>3 DEF Replay!CalibrationState, Replay!InWindow
<1>10. Replay!PoseState(m) =
         IF Replay!Unaligned(time, poseTime) THEN "UNAVAILABLE"
         ELSE IF poseTime.time - time.time = 0 THEN "VALID" ELSE "INVALID"
  BY <1>2, <1>3 DEF Replay!PoseState, Replay!Unaligned
<1>11. ~ Replay!Unaligned(time, poseTime) => time.time \in Int /\ poseTime.time \in Int
  BY <1>4 DEF Replay!Unaligned
<1>12. /\ Replay!CalibrationState(m) = "VALID"
            <=> "CALIBRATION_NOT_VALID_AT_OBSERVATION" \notin blockers
       /\ Replay!CalibrationState(m) = "UNAVAILABLE" <=> "CLOCK_ALIGNMENT_UNAVAILABLE" \in blockers
  BY <1>4, <1>7, <1>9
<1>13. /\ Replay!PoseState(m) = "UNAVAILABLE" <=> "POSE_CLOCK_ALIGNMENT_UNAVAILABLE" \in blockers
       /\ Replay!PoseState(m) = "INVALID" <=> "POSE_TIME_MISMATCH" \in blockers
       /\ Replay!PoseState(m) = "VALID" <=>
            /\ "POSE_CLOCK_ALIGNMENT_UNAVAILABLE" \notin blockers
            /\ "POSE_TIME_MISMATCH" \notin blockers
  BY <1>7, <1>10, <1>11
<1>14. Replay!PoseState(m) = "VALID" <=> r.poseDelta = 0
  BY <1>8, <1>10 DEF Replay!ReplayAssumption
<1>15. "PLACED_ESTIMATE" \in Replay!Distinctions(m, r) <=> blockers = {}
  BY <1>8 DEF Replay!Distinctions
<1>16. "CLOCK_ALIGNMENT_UNAVAILABLE" \in blockers
         => "CALIBRATION_NOT_VALID_AT_OBSERVATION" \in blockers
  BY <1>7
<1> QED BY <1>1, <1>5, <1>7, <1>12, <1>13, <1>14, <1>15, <1>16

\* For any number of timelines and any clock: what the evidence chain of the
\* page says of calibration, pose and placement agrees with the blockers and
\* the delta of the row that was compiled.
THEOREM ReplayAgreesWithItself ==
  ASSUME Replay!ReplayAssumption
  PROVE  Replay!Spec => []Replay!ChainAgreesWithRow
<1>1. Replay!Init => ReplayInv
  BY DEF Replay!Init, ReplayInv
<1>2. ReplayInv /\ [Replay!Next]_(Replay!rvars) => ReplayInv'
  BY DEF ReplayInv, Replay!Next, Replay!Compile, Replay!rvars
<1>3. ReplayInv => Replay!ChainAgreesWithRow
  BY RowsAgree DEF ReplayInv, Replay!ChainAgreesWithRow
<1> QED BY <1>1, <1>2, <1>3, PTL DEF Replay!Spec

-----------------------------------------------------------------------------
(* FilesAndPages.  Whichever part runs keeps to its own specification, and  *)
(* the others do nothing: what was proved of each holds of them together.   *)

\* If the part that runs is the draft, then its specification is satisfied; and
\* so on.
LEMMA PartIsDraft ==
  PartSpec => (part = "draft" /\ Draft!Spec) \/ []~ (part = "draft")
<1>1. PartInit /\ part = "draft" => Draft!Init
  BY DEF PartInit
<1>2. part = "draft" /\ [PartNext]_partVars
        => (part = "draft")' /\ [Draft!Next]_(Draft!draftVars)
  <2>1. UNCHANGED partVars => UNCHANGED part /\ UNCHANGED Draft!draftVars
    BY DEF partVars, draftVars, Draft!draftVars, Draft!memory, Draft!draftHistory
  <2> QED BY <2>1 DEF PartNext
<1>3. ~ (part = "draft") /\ [PartNext]_partVars => ~ (part = "draft")'
  BY DEF PartNext, partVars
<1> QED BY <1>1, <1>2, <1>3, PTL DEF PartSpec, Draft!Spec

LEMMA PartIsInquiry ==
  PartSpec => (part = "inquiry" /\ Inquiry!Spec) \/ []~ (part = "inquiry")
<1>1. PartInit /\ part = "inquiry" => Inquiry!Init
  BY DEF PartInit
<1>2. part = "inquiry" /\ [PartNext]_partVars
        => (part = "inquiry")' /\ [Inquiry!Next]_(Inquiry!inquiryVars)
  <2>1. UNCHANGED partVars => UNCHANGED part /\ UNCHANGED Inquiry!inquiryVars
    BY DEF partVars, inquiryVars, Inquiry!inquiryVars
  <2> QED BY <2>1 DEF PartNext
<1>3. ~ (part = "inquiry") /\ [PartNext]_partVars => ~ (part = "inquiry")'
  BY DEF PartNext, partVars
<1> QED BY <1>1, <1>2, <1>3, PTL DEF PartSpec, Inquiry!Spec

LEMMA PartIsComposer ==
  PartSpec => (part = "composer" /\ Composer!Spec) \/ []~ (part = "composer")
<1>1. PartInit /\ part = "composer" => Composer!Init
  BY DEF PartInit
<1>2. part = "composer" /\ [PartNext]_partVars
        => (part = "composer")' /\ [Composer!Next]_(Composer!composerVars)
  <2>1. UNCHANGED partVars => UNCHANGED part /\ UNCHANGED Composer!composerVars
    BY DEF partVars, composerVars, Composer!composerVars
  <2> QED BY <2>1 DEF PartNext
<1>3. ~ (part = "composer") /\ [PartNext]_partVars => ~ (part = "composer")'
  BY DEF PartNext, partVars
<1> QED BY <1>1, <1>2, <1>3, PTL DEF PartSpec, Composer!Spec

LEMMA PartIsPage ==
  PartSpec => (part = "page" /\ Page!Spec) \/ []~ (part = "page")
<1>1. PartInit /\ part = "page" => Page!Init
  BY DEF PartInit
<1>2. part = "page" /\ [PartNext]_partVars
        => (part = "page")' /\ [Page!Next]_(Page!pageVars)
  <2>1. UNCHANGED partVars => UNCHANGED part /\ UNCHANGED Page!pageVars
    BY DEF partVars, pageVars, Page!pageVars
  <2> QED BY <2>1 DEF PartNext
<1>3. ~ (part = "page") /\ [PartNext]_partVars => ~ (part = "page")'
  BY DEF PartNext, partVars
<1> QED BY <1>1, <1>2, <1>3, PTL DEF PartSpec, Page!Spec

LEMMA PartIsGlobe ==
  PartSpec => (part = "globe" /\ Globe!Spec) \/ []~ (part = "globe")
<1>1. PartInit /\ part = "globe" => Globe!Init
  BY DEF PartInit
<1>2. part = "globe" /\ [PartNext]_partVars
        => (part = "globe")' /\ [Globe!Next]_(Globe!twinVars)
  <2>1. UNCHANGED partVars => UNCHANGED part /\ UNCHANGED Globe!twinVars
    BY DEF partVars, globeVars, Globe!twinVars
  <2> QED BY <2>1 DEF PartNext
<1>3. ~ (part = "globe") /\ [PartNext]_partVars => ~ (part = "globe")'
  BY DEF PartNext, partVars
<1> QED BY <1>1, <1>2, <1>3, PTL DEF PartSpec, Globe!Spec

LEMMA PartIsReplay ==
  PartSpec => (part = "replay" /\ Replay!Spec) \/ []~ (part = "replay")
<1>1. PartInit /\ part = "replay" => Replay!Init
  BY DEF PartInit
<1>2. part = "replay" /\ [PartNext]_partVars
        => (part = "replay")' /\ [Replay!Next]_(Replay!rvars)
  <2>1. UNCHANGED partVars => UNCHANGED part /\ UNCHANGED Replay!rvars
    BY DEF partVars, replayVars, Replay!rvars
  <2> QED BY <2>1 DEF PartNext
<1>3. ~ (part = "replay") /\ [PartNext]_partVars => ~ (part = "replay")'
  BY DEF PartNext, partVars
<1> QED BY <1>1, <1>2, <1>3, PTL DEF PartSpec, Replay!Spec

\* For any number of saved analyses and of sessions of the globe: what the two
\* pages show is of what they asked for, and not of an answer to what came
\* before it.
THEOREM PagesShowWhatTheyAskedFor == PartSpec => []PagesShowTheirOwn
<1>1. Inquiry!Spec => []Inquiry!ShowsWhatIsApplied
  BY PartsAssumption, InquiryShowsWhatIsApplied DEF PartsAssumption
<1>2. Globe!Spec => []Globe!OneCurrentGlobe
  BY PartsAssumption, GlobeIsCurrent DEF PartsAssumption
<1>3. /\ part = "inquiry" => Inquiry!ShowsWhatIsApplied
      /\ part = "globe" => Globe!OneCurrentGlobe
     => PagesShowTheirOwn
  BY DEF PagesShowTheirOwn
<1> QED BY <1>1, <1>2, <1>3, PartIsInquiry, PartIsGlobe, PTL

\* However often steps are retried, renamed and answered late, and whatever a late
\* answer or refusal finds at its step: the references a command of the production
\* page carries are receipts of runs that completed.
THEOREM PageReferencesAreReceipts == PartSpec => []ReferencesAreReceipts
<1>1. Page!Spec => []Page!ReferencesAreReceipts
  BY PartsAssumption, PageRefersToReceipts DEF PartsAssumption
<1>2. (part = "page" => Page!ReferencesAreReceipts) => ReferencesAreReceipts
  BY DEF ReferencesAreReceipts
<1> QED BY <1>1, <1>2, PartIsPage, PTL

\* For any commands, texts and numbers of versions: a command of a draft, and a
\* message that is posted again, is neither lost nor doubled, and a draft is
\* based on the version its commands were accepted at.
THEOREM DraftsAndMessagesAreKept == PartSpec => []WorkIsKept
<1>1. Draft!Spec => [](Draft!WorkIsKept /\ Draft!DraftKeepsItsBase)
  BY PartsAssumption, DraftsAreKept DEF PartsAssumption
<1>2. Composer!Spec => []Composer!PostedOnce
  BY PartsAssumption, MessagesArePostedOnce DEF PartsAssumption
<1>3. /\ part = "draft" => Draft!WorkIsKept /\ Draft!DraftKeepsItsBase
      /\ part = "composer" => Composer!PostedOnce
     => WorkIsKept
  BY DEF WorkIsKept
<1> QED BY <1>1, <1>2, <1>3, PartIsDraft, PartIsComposer, PTL

\* For any number of timelines and any clock: what the evidence chain of the
\* page says of calibration, pose and placement agrees with the blockers and
\* the delta of the row that was compiled.
THEOREM ReplaysAgree == PartSpec => []ChainAgreesWithRow
<1>1. Replay!Spec => []Replay!ChainAgreesWithRow
  BY PartsAssumption, ReplayAgreesWithItself DEF PartsAssumption
<1>2. (part = "replay" => Replay!ChainAgreesWithRow) => ChainAgreesWithRow
  BY DEF ChainAgreesWithRow
<1> QED BY <1>1, <1>2, PartIsReplay, PTL

\* Whichever part runs, the files are written once.
THEOREM FilesOfAllPartsAreWrittenOnce == PartSpec => WriteOnceMapSpec
<1>1. PartInit => Init
  BY DEF PartInit
<1>2. [PartNext]_partVars => [Next]_vars
  BY DEF PartNext, partVars
<1> QED BY <1>1, <1>2, FilesAreWrittenOnce, PTL DEF PartSpec, Spec

=============================================================================
