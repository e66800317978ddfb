-------------------------- MODULE CompareAndAppend --------------------------
(***************************************************************************)
(* What a saved workspace promises to its editors: one log of requests.  A *)
(* request enters the log only at the position it was made for and only if *)
(* the state it was made on accepts it; nothing in the log ever changes;   *)
(* and a client is told "saved as version n" only when entry n is its      *)
(* request.                                                                *)
(***************************************************************************)
EXTENDS Integers, Sequences

CONSTANTS
  Requests,           \* [base, batch]: base is the length of the log the
                      \* request was made on
  Accepts(_, _)       \* whether a request may follow a log

VARIABLES
  log,
  confirmed           \* <<request, version>> told to a client

vars == <<log, confirmed>>

Init == log = << >> /\ confirmed = {}

Commit(r) ==
  /\ r.base = Len(log)
  /\ Accepts(log, r)
  /\ log' = Append(log, r)
  /\ UNCHANGED confirmed

Confirm(n) ==
  /\ n = log[n].base + 1
  /\ confirmed' = confirmed \cup {<<log[n], n>>}
  /\ UNCHANGED log

Next == (\E r \in Requests : Commit(r)) \/ (\E n \in 1 .. Len(log) : Confirm(n))

Spec == Init /\ [][Next]_vars
=============================================================================
