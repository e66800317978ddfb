-------------------------- MODULE ImmutableFiles --------------------------
(***************************************************************************)
(* The create-only files under every local store, data-os/local-files.ts   *)
(* and data-os/file-object-store.ts: readImmutableFile and                 *)
(* publishImmutableFile, called by many processes on one folder.           *)
(*                                                                         *)
(* A name of the folder is a link to a file (an inode).  publish writes a  *)
(* temporary file part by part and then links it, create-only, to the      *)
(* final name; a process may be killed, and a call of the file system may  *)
(* fail, between any two of these steps.  The check that a path is made of *)
(* safe names and of regular directories is one of the ways a call fails;  *)
(* whether the folder exists yet is not told apart from the name being     *)
(* absent.  Inodes without a name and without a reader are used again.     *)
(***************************************************************************)
EXTENDS Naturals

CONSTANTS
  Tasks,            \* the calls that may run at the same time
  Names,            \* names of files in the folder
  Contents,         \* contents clients publish
  Absent,           \* no content, no file
  Torn,             \* what a reader of an unfinished file gets
  Inodes,           \* files of the file system
  Size,             \* parts in which a file is written
  MayCrash          \* whether a process may be killed

ASSUME FilesAssumption ==
  /\ Size \in Nat \ {0}
  /\ MayCrash \in BOOLEAN
  /\ Absent \notin Inodes
  /\ Absent \notin Contents
  /\ Torn \notin Contents

VARIABLES
  entry,            \* the file each name is linked to, or Absent
  temporaries,      \* the files that have a temporary name
  bytes,            \* the content each file is being, or has been, given
  parts,            \* how many parts of it have been written
  pc,               \* where each call is
  name,             \* the name it is about
  content,          \* the content it publishes; Absent for a read
  temp,             \* the temporary file it owns, or Absent
  opened,           \* the file it reads, or Absent
  length,           \* the size of that file when it was opened
  outcome,          \* of a publication that still has to clean up
  told,             \* history: the pairs of a name and a content answered
  created           \* history: how many times CREATED was answered

files == <<entry, temporaries, bytes, parts>>
calls == <<pc, name, content, temp, opened, length, outcome>>
history == <<told, created>>
vars == <<files, calls, history>>

-----------------------------------------------------------------------------
At(t, place) == pc[t] = place
Goto(t, place) == pc' = [pc EXCEPT ![t] = place]

\* The call is over: a result or an exception went to its caller.
Rest(t) ==
  /\ Goto(t, "idle")
  /\ content' = [content EXCEPT ![t] = Absent]
  /\ temp' = [temp EXCEPT ![t] = Absent]
  /\ opened' = [opened EXCEPT ![t] = Absent]
  /\ length' = [length EXCEPT ![t] = 0]
  /\ outcome' = [outcome EXCEPT ![t] = "none"]
  /\ UNCHANGED name

\* Leave the inner try block; the finally block is still to run.
Finally(t, o) ==
  /\ Goto(t, "cleanup")
  /\ outcome' = [outcome EXCEPT ![t] = o]
  /\ opened' = [opened EXCEPT ![t] = Absent]
  /\ UNCHANGED <<name, content, temp, length>>

Throw(t) == IF temp[t] = Absent THEN Rest(t) ELSE Finally(t, "failed")

Tell(t, c) == told' = told \cup {<<name[t], c>>}

\* The bytes a reader gets that finds file i as large as when it opened it.
Read(i) == IF parts[i] = Size THEN bytes[i] ELSE Torn

\* A file of the file system that is not in use.
Unused(i) ==
  /\ i \notin temporaries
  /\ \A n \in Names : entry[n] # i
  /\ \A t \in Tasks : opened[t] # i

-----------------------------------------------------------------------------
(* readImmutableFile, called by itself and twice from publishImmutableFile. *)

\* A read (c = Absent), or a publication of c, begins.
Begin(t, n, c) ==
  /\ At(t, "idle")
  /\ Goto(t, "open")
  /\ name' = [name EXCEPT ![t] = n]
  /\ content' = [content EXCEPT ![t] = c]
  /\ UNCHANGED <<files, temp, opened, length, outcome, history>>

\* lstat, open and fstat of the name.  A reader gets undefined for a missing
\* file, the first read of a publication leads on to its writing, and the
\* second one, after a link that found the name taken, throws.
Open(t) ==
  /\ At(t, "open")
  /\ UNCHANGED <<files, history>>
  /\ LET i == entry[name[t]] IN
       \/ /\ i # Absent
          /\ Goto(t, "read")
          /\ opened' = [opened EXCEPT ![t] = i]
          /\ length' = [length EXCEPT ![t] = parts[i]]
          /\ UNCHANGED <<name, content, temp, outcome>>
       \/ /\ i = Absent /\ content[t] # Absent /\ temp[t] = Absent
          /\ Goto(t, "make")
          /\ UNCHANGED <<name, content, temp, opened, length, outcome>>
       \/ Throw(t)

\* The bytes are read, and compared when they are to be published.  A file
\* that changed its size since it was opened is refused.
ReadBytes(t) ==
  /\ At(t, "read")
  /\ UNCHANGED <<files, created>>
  /\ LET found == Read(opened[t])
         steady == parts[opened[t]] = length[t]
         same == steady /\ found = content[t] IN
       \/ content[t] = Absent /\ steady /\ Rest(t) /\ Tell(t, found)
       \/ same /\ temp[t] = Absent /\ Rest(t) /\ Tell(t, found)
       \/ same /\ temp[t] # Absent /\ Finally(t, "EXISTING") /\ UNCHANGED told
       \/ Throw(t) /\ UNCHANGED told

-----------------------------------------------------------------------------
(* publishImmutableFile.                                                   *)

\* The folder and a temporary file in it are created, or the call fails.
MakeTemporary(t) ==
  /\ At(t, "make")
  /\ UNCHANGED <<entry, history>>
  /\ \/ \E i \in Inodes :
          /\ Unused(i)
          /\ temporaries' = temporaries \cup {i}
          /\ bytes' = [bytes EXCEPT ![i] = content[t]]
          /\ parts' = [parts EXCEPT ![i] = 0]
          /\ temp' = [temp EXCEPT ![t] = i]
          /\ Goto(t, "write")
          /\ UNCHANGED <<name, content, opened, length, outcome>>
     \/ Rest(t) /\ UNCHANGED <<temporaries, bytes, parts>>

\* writeFileSync and fsyncSync.
WritePart(t) ==
  /\ At(t, "write")
  /\ parts[temp[t]] < Size
  /\ UNCHANGED <<entry, temporaries, bytes, history>>
  /\ \/ /\ parts' = [parts EXCEPT ![temp[t]] = @ + 1]
        /\ UNCHANGED calls
     \/ UNCHANGED parts /\ Throw(t)

\* Mutant: the temporary file is renamed, which replaces what is there.
LinkByRename(t) ==
  /\ At(t, "write")
  /\ parts[temp[t]] = Size
  /\ entry' = [entry EXCEPT ![name[t]] = temp[t]]
  /\ Finally(t, "CREATED")
  /\ UNCHANGED <<temporaries, bytes, parts, history>>

\* linkSync(temporary, target), which fails when the name exists.
Link(t) ==
  /\ At(t, "write")
  /\ parts[temp[t]] = Size
  /\ UNCHANGED <<temporaries, bytes, parts, history>>
  /\ \/ /\ entry[name[t]] = Absent
        /\ entry' = [entry EXCEPT ![name[t]] = temp[t]]
        /\ Finally(t, "CREATED")
     \/ /\ entry[name[t]] # Absent
        /\ Goto(t, "open")
        /\ UNCHANGED <<entry, name, content, temp, opened, length, outcome>>
     \/ UNCHANGED entry /\ Throw(t)

\* The finally block removes the temporary name; when that fails the caller
\* gets an exception although the content may have been published.
Cleanup(t) ==
  /\ At(t, "cleanup")
  /\ UNCHANGED <<entry, bytes, parts>>
  /\ \/ /\ temporaries' = temporaries \ {temp[t]}
        /\ told' = IF outcome[t] = "failed" THEN told
                   ELSE told \cup {<<name[t], content[t]>>}
        /\ created' = IF outcome[t] = "CREATED"
                      THEN [created EXCEPT ![name[t]] = @ + 1] ELSE created
     \/ UNCHANGED <<temporaries, history>>
  /\ Rest(t)

\* The process is killed; the temporary file it was writing stays.
Crash(t) ==
  /\ MayCrash
  /\ ~ At(t, "idle")
  /\ Rest(t)
  /\ UNCHANGED <<files, history>>

-----------------------------------------------------------------------------
Init ==
  /\ entry = [n \in Names |-> Absent]
  /\ temporaries = {}
  /\ bytes = [i \in Inodes |-> Absent]
  /\ parts = [i \in Inodes |-> 0]
  /\ pc = [t \in Tasks |-> "idle"]
  /\ name \in [Tasks -> Names]
  /\ content = [t \in Tasks |-> Absent]
  /\ temp = [t \in Tasks |-> Absent]
  /\ opened = [t \in Tasks |-> Absent]
  /\ length = [t \in Tasks |-> 0]
  /\ outcome = [t \in Tasks |-> "none"]
  /\ told = {}
  /\ created = [n \in Names |-> 0]

Step(t) ==
  \/ Open(t) \/ ReadBytes(t)
  \/ MakeTemporary(t) \/ WritePart(t) \/ Link(t) \/ Cleanup(t)

Next ==
  \E t \in Tasks :
    \/ \E n \in Names, c \in Contents \cup {Absent} : Begin(t, n, c)
    \/ Step(t)
    \/ Crash(t)

Spec == Init /\ [][Next]_vars

-----------------------------------------------------------------------------
(* Type invariant.                                                         *)
Places == {"idle", "open", "read", "make", "write", "cleanup"}

TypeOK ==
  /\ entry \in [Names -> Inodes \cup {Absent}]
  /\ temporaries \subseteq Inodes
  /\ bytes \in [Inodes -> Contents \cup {Absent}]
  /\ parts \in [Inodes -> 0 .. Size]
  /\ pc \in [Tasks -> Places]
  /\ name \in [Tasks -> Names]
  /\ content \in [Tasks -> Contents \cup {Absent}]
  /\ temp \in [Tasks -> Inodes \cup {Absent}]
  /\ opened \in [Tasks -> Inodes \cup {Absent}]
  /\ length \in [Tasks -> 0 .. Size]
  /\ outcome \in [Tasks -> {"none", "failed", "EXISTING", "CREATED"}]
  /\ told \subseteq Names \X (Contents \cup {Torn})
  /\ created \in [Names -> Nat]

\* Whatever processes do to one name at the same time, and wherever they are
\* killed, the folder is a map that gives a name a content at most once: no
\* reader gets a part of a file, no publication replaces a content, a caller
\* that is told EXISTING finds its own bytes, and only one is told CREATED
\* (the comment on publishImmutableFile).
Published ==
  [n \in Names |-> IF entry[n] = Absent THEN Absent ELSE Read(entry[n])]

Promise == INSTANCE WriteOnceMap WITH map <- Published

WriteOnceMapSpec == Promise!Spec

=============================================================================
