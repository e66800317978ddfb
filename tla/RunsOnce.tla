----------------------------- MODULE RunsOnce -----------------------------
(***************************************************************************)
(* What a client of the production rail may rely on: a request identity is *)
(* bound to one command, the work of that command is started at most once  *)
(* and has at most one outcome, and a client is told that outcome or none. *)
(***************************************************************************)
EXTENDS Naturals

CONSTANTS
  Ids,              \* request identities
  Commands,         \* what clients ask for; each has an id
  None

VARIABLES
  bound,            \* the command each identity is bound to, or None
  starts,           \* how often its work was started
  outcome,          \* its outcome, or None
  told              \* the pairs of a command and an outcome told to clients

vars == <<bound, starts, outcome, told>>

Init ==
  /\ bound = [i \in Ids |-> None]
  /\ starts = [i \in Ids |-> 0]
  /\ outcome = [i \in Ids |-> None]
  /\ told = {}

Bind(c) ==
  /\ bound[c.id] = None
  /\ bound' = [bound EXCEPT ![c.id] = c]
  /\ UNCHANGED <<starts, outcome, told>>

Start(i) ==
  /\ bound[i] # None
  /\ starts[i] = 0
  /\ starts' = [starts EXCEPT ![i] = 1]
  /\ UNCHANGED <<bound, outcome, told>>

Finish(i) ==
  /\ starts[i] = 1
  /\ outcome[i] = None
  /\ outcome'[i] # None
  /\ outcome' = [outcome EXCEPT ![i] = outcome'[i]]
  /\ UNCHANGED <<bound, starts, told>>

Tell(c) ==
  /\ bound[c.id] = c
  /\ outcome[c.id] # None
  /\ told' = told \cup {<<c, outcome[c.id]>>}
  /\ UNCHANGED <<bound, starts, outcome>>

Next ==
  \/ \E c \in Commands : Bind(c) \/ Tell(c)
  \/ \E i \in Ids : Start(i) \/ Finish(i)

Spec == Init /\ [][Next]_vars

=============================================================================
