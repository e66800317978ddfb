---------------------------- MODULE SpatialGraph ----------------------------
(***************************************************************************)
(* What an analysis of a floor computes, spatial/analysis.ts, and what     *)
(* inspect() demands of a saved one, validateMeasures() of                 *)
(* spatial/service.ts, which runs no graph algorithm.  The layout and the  *)
(* request are chosen once; each step of the search takes one space from   *)
(* the queue of the confirmed graph, and then of the possible one.         *)
(*                                                                         *)
(* Mean depths are kept as their numerator and denominator; labels, digests*)
(* and conditions beyond their worst state are left out.                   *)
(***************************************************************************)
EXTENDS Naturals, Sequences, FiniteSets, SequencesExt

CONSTANTS
  Spaces,           \* the spaces of the layout, a sequence
  Layouts,          \* sequences of passages: from, to, both ways or not, the declared
                    \* state and the worst state of the conditions
  Assumptions,      \* scenarios: a passage, by its place, and the state assumed of it
  None

VARIABLES
  passages,         \* the layout that is analysed
  root,             \* the root space
  scenario,         \* the scenario, or None
  searching,        \* "confirmed", "possible" or "done"
  queue,            \* spaces to visit
  depths,           \* of the current search: the depth of every space seen
  graphs            \* the graphs computed so far, by name

graphVars == <<passages, root, scenario, searching, queue, depths, graphs>>

SpaceIds == ToSet(Spaces)

-----------------------------------------------------------------------------
\* The state a passage counts with: assumed or declared, and as its conditions allow.
Effective(i) ==
  LET declared == IF scenario # None /\ scenario.passage = i THEN scenario.state
                  ELSE passages[i].state IN
  CASE "CLOSED" \in {declared, passages[i].condition} -> "CLOSED"
    [] "CLOSED" \notin {declared, passages[i].condition}
         /\ "UNKNOWN" \in {declared, passages[i].condition} -> "UNKNOWN"
    [] OTHER -> "OPEN"

Edges(which) ==
  LET usable == {i \in DOMAIN passages :
                   Effective(i) \in (IF which = "possible" THEN {"OPEN", "UNKNOWN"} ELSE {"OPEN"})} IN
  {<<passages[i].from, passages[i].to>> : i \in usable}
    \cup {<<passages[i].to, passages[i].from>> : i \in {j \in usable : passages[j].both}}

Outgoing(edges, s) == {e[2] : e \in {f \in edges : f[1] = s}}
Incoming(edges, s) == {e[1] : e \in {f \in edges : f[2] = s}}

Total(d) == FoldFunctionOnSet(LAMBDA a, b : a + b, 0, d, DOMAIN d)

\* The measures of a search that is over.
Graph(which) ==
  LET edges == Edges(which) IN
  [ depth       |-> [s \in SpaceIds |-> IF s \in DOMAIN depths THEN depths[s] ELSE None],
    incoming    |-> [s \in SpaceIds |-> Cardinality(Incoming(edges, s))],
    outgoing    |-> [s \in SpaceIds |-> Cardinality(Outgoing(edges, s))],
    reachable   |-> Cardinality(DOMAIN depths),
    unreachable |-> SpaceIds \ DOMAIN depths,
    sum         |-> Total(depths),
    others      |-> Cardinality({s \in DOMAIN depths : depths[s] > 0}) ]

Depth(which, s) == graphs[which].depth[s]

Reachability(s) ==
  CASE Depth("confirmed", s) # None -> "CONFIRMED"
    [] Depth("confirmed", s) = None /\ Depth("possible", s) # None -> "POSSIBLE_ONLY"
    [] OTHER -> "DISCONNECTED"

-----------------------------------------------------------------------------
\* The neighbours of a space not seen before, in the order of its passages; any
\* order may be that one.
Found(found, s) ==
  [t \in DOMAIN depths \cup ToSet(found) |-> IF t \in DOMAIN depths THEN depths[t] ELSE depths[s] + 1]

\* Mutant: the last space found is visited first.
VisitLast ==
  /\ searching # "done" /\ queue # <<>>
  /\ LET s == Head(queue)
         new == Outgoing(Edges(searching), s) \ DOMAIN depths IN
     \E found \in SetToSeqs(new) :
       /\ depths' = Found(found, s)
       /\ queue' = found \o Tail(queue)
  /\ UNCHANGED <<passages, root, scenario, searching, graphs>>

\* One round of the loop over the queue.
Visit ==
  /\ searching # "done" /\ queue # <<>>
  /\ LET s == Head(queue)
         new == Outgoing(Edges(searching), s) \ DOMAIN depths IN
     \E found \in SetToSeqs(new) :
       /\ depths' = Found(found, s)
       /\ queue' = Tail(queue) \o found
  /\ UNCHANGED <<passages, root, scenario, searching, graphs>>

FinishGraph ==
  /\ searching # "done" /\ queue = <<>>
  /\ graphs' = [graphs EXCEPT ![searching] = Graph(searching)]
  /\ searching' = IF searching = "confirmed" THEN "possible" ELSE "done"
  /\ queue' = IF searching = "confirmed" THEN <<root>> ELSE <<>>
  /\ depths' = [s \in {root} |-> 0]
  /\ UNCHANGED <<passages, root, scenario>>

-----------------------------------------------------------------------------
\* What validateMeasures() recomputes of a saved graph, and of the two together.
ValidGraph(g) ==
  LET reached == {s \in SpaceIds : g.depth[s] # None}
      others == {s \in reached : g.depth[s] > 0} IN
  /\ \A s \in SpaceIds :
       /\ s \in reached => g.depth[s] < Len(Spaces)
       /\ g.incoming[s] < Len(Spaces) /\ g.outgoing[s] < Len(Spaces)
       /\ (s = root) <=> (s \in reached /\ g.depth[s] = 0)
  /\ g.reachable = Cardinality(reached)
  /\ g.unreachable = SpaceIds \ reached
  /\ g.others = Cardinality(others)
  /\ g.sum = Total([s \in others |-> g.depth[s]])

ValidMeasures ==
  /\ ValidGraph(graphs["confirmed"]) /\ ValidGraph(graphs["possible"])
  /\ \A s \in SpaceIds :
       Depth("confirmed", s) # None =>
         Depth("possible", s) # None /\ Depth("possible", s) <= Depth("confirmed", s)

Init ==
  /\ passages \in Layouts
  /\ root \in SpaceIds
  /\ scenario \in Assumptions \cup {None}
  /\ searching = "confirmed"
  /\ queue = <<root>>
  /\ depths = [s \in {root} |-> 0]
  /\ graphs = [g \in {"confirmed", "possible"} |-> None]

Next == Visit \/ FinishGraph

-----------------------------------------------------------------------------
(* Properties.                                                             *)

\* The spaces n passages or fewer away from the root, without a search.
Within(which) ==
  LET edges == Edges(which)
      reach[n \in 0 .. Len(Spaces)] ==
        IF n = 0 THEN {root}
        ELSE reach[n - 1] \cup UNION {Outgoing(edges, s) : s \in reach[n - 1]} IN
  reach

Shortest(reach, s) ==
  LET lengths == {n \in DOMAIN reach : s \in reach[n]} IN
  IF lengths = {} THEN None ELSE CHOOSE n \in lengths : \A m \in lengths : n <= m

\* The depth of a space is the number of passages on a shortest way to it, and
\* whatever analyze() computes passes the validation inspect() makes of a
\* receipt: an analysis that ended is never one that cannot be read.
AnalysesAreReadable ==
  searching = "done" =>
    LET sure == Within("confirmed")
        maybe == Within("possible") IN
    /\ ValidMeasures
    /\ \A s \in SpaceIds :
         /\ Depth("confirmed", s) = Shortest(sure, s)
         /\ Depth("possible", s) = Shortest(maybe, s)
         /\ (Reachability(s) = "POSSIBLE_ONLY") <=> (Shortest(sure, s) = None /\ Shortest(maybe, s) # None)
=============================================================================
