--------------------------- MODULE WriteOnceMap ---------------------------
(***************************************************************************)
(* What the file stores of data-os, production, acquisition and gat expect *)
(* of publishImmutableFile and readImmutableFile: a name is given a content *)
(* at most once and keeps it, at most one publication of a name is told    *)
(* that it created it, and whoever is told that a name has a content is    *)
(* told the truth.                                                         *)
(***************************************************************************)
EXTENDS Naturals

CONSTANTS
  Names,
  Contents,
  Absent            \* no content

VARIABLES
  map,              \* the content of each name
  told,             \* the pairs of a name and a content told to callers
  created           \* how many callers were told that they created a name

vars == <<map, told, created>>

Init ==
  /\ map = [n \in Names |-> Absent]
  /\ told = {}
  /\ created = [n \in Names |-> 0]

Write(n, c) ==
  /\ map[n] = Absent
  /\ map' = [map EXCEPT ![n] = c]
  /\ UNCHANGED <<told, created>>

\* A reader, or a publisher of a content that is already there.
Tell(n, c) ==
  /\ map[n] = c
  /\ told' = told \cup {<<n, c>>}
  /\ UNCHANGED <<map, created>>

TellCreator(n, c) ==
  /\ map[n] = c
  /\ created[n] = 0
  /\ told' = told \cup {<<n, c>>}
  /\ created' = [created EXCEPT ![n] = 1]
  /\ UNCHANGED map

Next ==
  \E n \in Names, c \in Contents : Write(n, c) \/ Tell(n, c) \/ TellCreator(n, c)

Spec == Init /\ [][Next]_vars

=============================================================================
