--------------------------- MODULE AppendOnlyBoard ---------------------------
(***************************************************************************)
(* What the agent board promises its clients: one log of commands in which *)
(* every entry was accepted on the board before it and changed it, from    *)
(* which nothing is ever removed, and a client is told that a command      *)
(* succeeded only when the board shows its effect.                         *)
(***************************************************************************)
EXTENDS Sequences

CONSTANTS
  Commands,
  Changes(_, _),      \* whether a log accepts a command that changes the board
  InEffect(_, _)      \* whether the board of a log shows a command's effect

VARIABLES
  log,
  confirmed           \* commands a client was told have succeeded

vars == <<log, confirmed>>

Init == log = << >> /\ confirmed = {}

Execute(c) ==
  /\ Changes(log, c)
  /\ log' = Append(log, c)
  /\ UNCHANGED confirmed

Confirm(c) ==
  /\ InEffect(log, c)
  /\ confirmed' = confirmed \cup {c}
  /\ UNCHANGED log

Next == \E c \in Commands : Execute(c) \/ Confirm(c)

Spec == Init /\ [][Next]_vars
=============================================================================
