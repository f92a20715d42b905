---------------------------- MODULE Instructions ----------------------------
(***************************************************************************)
(* The instructions of the fault library (src/fault/knobs.hpp) and what    *)
(* each asks for.                                                          *)
(*                                                                         *)
(* An instruction is a record with a verb and its arguments.  A probability*)
(* is given in tenths of a part per million, so that its rounding to whole *)
(* parts per million can be seen.  A name is a string, "" for none, and a  *)
(* cut between two nodes is the set of their names: it has no direction.   *)
(***************************************************************************)
EXTENDS Integers

CONSTANT Commands    \* the instructions that may be given

(* What each call of the library takes, before it looks at the values.      *)
Latencies == [verb : {"latency"}, mean : Int, jitter : Int]
Drops == [verb : {"drop"}, tenths : Int]
Hangs == [verb : {"hang"}, word : STRING]
Identities == [verb : {"identity"}, name : STRING]
Pairs == [verb : {"partition", "heal"}, a : STRING, b : STRING]
Clears == [verb : {"clear"}]

ASSUME CommandsAssumption ==
  Commands \subseteq Latencies \cup Drops \cup Hangs \cup Identities \cup Pairs \cup Clears

Million == 1000000

(* static_cast<int64_t>(probability * 1'000'000.0 + 0.5).                   *)
Ppm(tenths) == (tenths + 5) \div 10

(* What `hang` makes of its argument: anything it does not know means no.   *)
Hanging(word) == word \in {"1", "true"}

Cut(a, b) == {a, b}

Off == [latency |-> 0, jitter |-> 0, drop |-> 0, hang |-> FALSE,
        identity |-> "", cuts |-> {}]

(* A slip: the sign of the delays is not looked at.                         *)
RefusedUnsigned(cmd) ==
  \/ cmd.verb = "latency" /\ cmd.jitter > cmd.mean
  \/ cmd.verb = "drop" /\ cmd.tenths \notin 0 .. 10 * Million
  \/ cmd.verb = "partition" /\ (cmd.a = "" \/ cmd.b = "" \/ cmd.a = cmd.b)

(* The instructions that throw UsageError before they change anything.      *)
Refused(cmd) ==
  \/ cmd.verb = "latency" /\ (cmd.mean < 0 \/ cmd.jitter < 0 \/ cmd.jitter > cmd.mean)
  \/ cmd.verb = "drop" /\ cmd.tenths \notin 0 .. 10 * Million
  \/ cmd.verb = "partition" /\ (cmd.a = "" \/ cmd.b = "" \/ cmd.a = cmd.b)

(* The configuration an instruction that is not refused leaves behind.      *)
Apply(c, cmd) ==
  CASE cmd.verb = "latency" ->
         [c EXCEPT !.latency = cmd.mean, !.jitter = cmd.jitter]
    [] cmd.verb = "drop"      -> [c EXCEPT !.drop = Ppm(cmd.tenths)]
    [] cmd.verb = "hang"      -> [c EXCEPT !.hang = Hanging(cmd.word)]
    [] cmd.verb = "identity"  -> [c EXCEPT !.identity = cmd.name]
    [] cmd.verb = "partition" -> [c EXCEPT !.cuts = @ \cup {Cut(cmd.a, cmd.b)}]
    [] cmd.verb = "heal"      -> [c EXCEPT !.cuts = @ \ {Cut(cmd.a, cmd.b)}]
    [] cmd.verb = "clear"     -> [Off EXCEPT !.identity = c.identity]

(* Is any fault on?  An identity is not a fault.                            *)
Enabled(c) == c.latency # 0 \/ c.drop # 0 \/ c.hang \/ c.cuts # {}

(* Is traffic with peer cut?  A node without a name is cut from nobody.     *)
CutFrom(c, peer) == c.identity # "" /\ Cut(c.identity, peer) \in c.cuts
=============================================================================
