---------------------------- MODULE MCFaultKnobs ----------------------------
(* Instances of FaultKnobs small enough to explore.                         *)
EXTENDS FaultKnobs

Latency(m, j) == [verb |-> "latency", mean |-> m, jitter |-> j]
Drop(tenths) == [verb |-> "drop", tenths |-> tenths]
Hang(word) == [verb |-> "hang", word |-> word]
Identity(name) == [verb |-> "identity", name |-> name]
Partition(a, b) == [verb |-> "partition", a |-> a, b |-> b]
HealCut(a, b) == [verb |-> "heal", a |-> a, b |-> b]
ClearAll == [verb |-> "clear"]

\* Every verb, with arguments on both sides of each check and rounding.
AllCommands ==
  {Latency(2, 1), Latency(2, 0), Latency(0, 0), Latency(0, 1),
   Latency(0, -1),
   Drop(0), Drop(4), Drop(10 * Million), Drop(11 * Million),
   Hang("0"), Hang("1"), Identity("a"),
   Partition("a", "b"), Partition("b", "c"), Partition("a", "a"),
   HealCut("b", "a"), ClearAll}

\* Turning a fault on and off, once with the lock and once without.
TwoFaults ==
  {Drop(0), Drop(10 * Million), Partition("a", "b"), Partition("b", "c"),
   HealCut("a", "b"), ClearAll}

HangsAndCuts ==
  {Drop(10 * Million), Hang("0"), Hang("1"), Identity("a"),
   Partition("a", "b"), HealCut("a", "b")}

\* The environments of the tests, and one that cannot be read.
NoEnvironment == {<<>>}
SomeEnvironments ==
  {<<>>,
   <<Identity("a"), Latency(2, 1), Drop(10 * Million), Hang("1"),
     Partition("a", "b"), Partition("b", "c")>>,
   <<Identity("a"), Latency(0, 1)>>}
=============================================================================
