----------------------------- MODULE MCOpenLoop -----------------------------
(* Instances of OpenLoop small enough to explore.                           *)
EXTENDS OpenLoop

\* One outcome of each class that the accounting distinguishes: timed and
\* usable, timed and unusable, untimed.
ClassOutcomes == {"Succeeded", "TimedOut", "ReadFailed"}

\* The first worker may lose two ticks, so that a lateness lands in a slot of
\* the histogram that is wider than one value, the other one; a driver that is
\* late to start a worker is the same to the run as a worker that loses its
\* first tick.
StolenTicks ==
  [t \in Threads |-> IF t = Driver THEN 0 ELSE IF t = 1 THEN 2 ELSE 1]
=============================================================================
