---------------------------- MODULE MCClosedLoop ----------------------------
(* Instances of ClosedLoop small enough to explore.                         *)
EXTENDS ClosedLoop

\* One outcome of each class that the accounting distinguishes.
ClassOutcomes == {"Succeeded", "TimedOut", "ReadFailed"}
=============================================================================
