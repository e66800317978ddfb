-------------------------- MODULE MCSourceCapture --------------------------
(* An instance of SourceCapture for TLC: two requests, an identity that is *)
(* used for a second scope, and a day of two minutes and one slot, so that *)
(* a request may be denied by its minute and by its day.                   *)
EXTENDS SourceCapture, TLC

MCRequests == { [id |-> "r1", scope |-> "a"], [id |-> "r1", scope |-> "b"],
                [id |-> "r2", scope |-> "a"] }

Symmetry == Permutations(Tasks)
=============================================================================
