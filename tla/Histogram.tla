----------------------------- MODULE Histogram -----------------------------
(***************************************************************************)
(* What a run reports of its latencies (histogram and summary in src/stats):*)
(* every worker records into a histogram of its own, the driver merges     *)
(* them when all workers have stopped (closed_loop.cpp, open_loop.cpp) and *)
(* reads the percentiles of the summary off the slots.                     *)
(***************************************************************************)
EXTENDS Buckets, FiniteSets, Functions

CONSTANTS
  Workers,      \* how many workers record
  Values,       \* the latencies that occur
  Batches,      \* how many samples of one latency are recorded in a step
  MaxBatches,   \* bound: such steps in a run
  RoundsUp      \* per milles p whose quotient p / 1000 is above p / 1000

ASSUME HistogramAssumption ==
  /\ Workers \in Nat \ {0} /\ MaxBatches \in Nat
  /\ Values \subseteq Nat /\ IsFiniteSet(Values)
  /\ Batches \subseteq Nat \ {0} /\ RoundsUp \subseteq 0 .. 1000

-----------------------------------------------------------------------------
(* Histogram.                                                               *)

Empty == [slots |-> [i \in Slots |-> 0], count |-> 0, overflow |-> 0, max |-> 0]

Larger(a, b) == IF a > b THEN a ELSE b

(* A slip: what has no slot is counted in the last one.                     *)
RecordClamped(h, v, n) ==
  [h EXCEPT !.count = @ + n, !.max = Larger(@, v),
            !.slots[IndexOf(IF v > MaxValue THEN MaxValue ELSE v)] = @ + n]

(* record(v), n times.                                                      *)
Record(h, v, n) ==
  IF v > MaxValue
  THEN [h EXCEPT !.count = @ + n, !.max = Larger(@, v), !.overflow = @ + n]
  ELSE [h EXCEPT !.count = @ + n, !.max = Larger(@, v), !.slots[IndexOf(v)] = @ + n]

(* A slip: the longest of the other histogram is forgotten.                 *)
MergedButMax(h, g) ==
  [slots |-> [i \in Slots |-> h.slots[i] + g.slots[i]],
   count |-> h.count + g.count, overflow |-> h.overflow + g.overflow, max |-> h.max]

(* merge.                                                                   *)
Merged(h, g) ==
  [slots |-> [i \in Slots |-> h.slots[i] + g.slots[i]],
   count |-> h.count + g.count, overflow |-> h.overflow + g.overflow,
   max |-> Larger(h.max, g.max)]

Clamped(rank, n) == IF rank < 1 THEN 1 ELSE IF rank > n THEN n ELSE rank

(* ceil(p / 100.0 * count), with p in per mille.  0.999 is not a double, and *)
(* 99.9 / 100.0 is above it: where the exact product is a whole number, the  *)
(* computed one is above that number and ceil gives the next.               *)
Rank(p, n) ==
  LET exceeds == p \in RoundsUp /\ n > 0 /\ (p * n) % 1000 = 0
  IN  Clamped((p * n + 999) \div 1000 + (IF exceeds THEN 1 ELSE 0), n)

Running(h, i) == SumFunctionOnSet(h.slots, 0 .. i)

(* percentile, of a histogram that is not empty: the end of the first slot  *)
(* at which the running count reaches the rank, or the longest sample.      *)
Percentile(h, p) ==
  LET reached == {i \in Slots : Running(h, i) >= Rank(p, h.count)}
  IN  IF reached = {} THEN h.max
      ELSE SlotHigh(CHOOSE i \in reached : \A j \in reached : i <= j)

(* Summary::of.                                                             *)
Ladder == {500, 900, 990, 999}
Absent == [samples |-> 0]
SummaryOf(h) ==
  IF h.count = 0 THEN Absent
  ELSE [samples |-> h.count, overflow |-> h.overflow, max |-> h.max,
        at |-> [p \in Ladder |-> Percentile(h, p)]]

-----------------------------------------------------------------------------
(* A run.                                                                   *)

VARIABLES
  taken,     \* every sample that was timed: how many of each, by worker
  batches,   \* the steps in which they were
  own,       \* the histograms of the workers
  stopped,   \* every worker has been joined
  merged,    \* how many histograms have been merged
  run,       \* the histogram of the run
  summary    \* its summary, <<>> before there is one

vars == <<taken, batches, own, stopped, merged, run, summary>>

All == 1 .. Workers

Init ==
  /\ taken = [w \in All |-> [v \in Values |-> 0]]
  /\ own = [w \in All |-> Empty]
  /\ batches = 0 /\ stopped = FALSE /\ merged = 0
  /\ run = Empty /\ summary = <<>>

SamplesOf(t) == SumFunction([w \in All |-> SumFunction(t[w])])

(* A worker accounts for an exchange.                                       *)
Measure(w, v, n) ==
  /\ ~stopped /\ batches < MaxBatches
  /\ batches' = batches + 1
  /\ taken' = [taken EXCEPT ![w][v] = @ + n]
  /\ own' = [own EXCEPT ![w] = Record(@, v, n)]
  /\ UNCHANGED <<stopped, merged, run, summary>>

(* The last worker is joined.                                               *)
JoinAll ==
  /\ ~stopped /\ stopped' = TRUE
  /\ UNCHANGED <<taken, batches, own, merged, run, summary>>

(* The driver merges one worker after the other, and sums up.               *)
MergeNext ==
  /\ stopped /\ merged < Workers
  /\ run' = Merged(run, own[merged + 1])
  /\ merged' = merged + 1
  /\ UNCHANGED <<taken, batches, own, stopped, summary>>

SumUp ==
  /\ stopped /\ merged = Workers /\ summary = <<>>
  /\ summary' = SummaryOf(run)
  /\ UNCHANGED <<taken, batches, own, stopped, merged, run>>

Next ==
  \/ \E w \in All, v \in Values, n \in Batches : Measure(w, v, n)
  \/ JoinAll
  \/ MergeNext
  \/ SumUp

Spec == Init /\ [][Next]_vars

-----------------------------------------------------------------------------
(* Properties.  They speak of the samples themselves, never of the slots    *)
(* the summary was read off.                                                *)

Of(v) == SumFunction([w \in All |-> taken[w][v]])
Recorded == {v \in Values : Of(v) > 0}
UpTo(v) == SumFunctionOnSet([u \in Values |-> Of(u)], {u \in Values : u <= v})

(* The nearest-rank percentile: the least sample that at least p of every   *)
(* thousand samples do not exceed.                                          *)
Exact(p) ==
  LET enough == {v \in Recorded : UpTo(v) * 1000 >= p * SamplesOf(taken)}
  IN  CHOOSE v \in enough : \A u \in enough : v <= u

(* However the samples were spread over the workers, the histogram of the   *)
(* run is that of all of them: each is in the one slot whose bounds hold    *)
(* it, those above a minute are in none and are counted, and the longest is *)
(* exact (histogram.hpp:35-48, histogram.cpp:43-55).                        *)
RunIsTheUnion ==
  merged = Workers =>
    /\ \A i \in Slots :
         run.slots[i] = SumFunctionOnSet([v \in Values |-> Of(v)],
           {v \in Values : v <= MaxValue /\ SlotLow(i) <= v /\ v <= SlotHigh(i)})
    /\ run.overflow = SumFunctionOnSet([v \in Values |-> Of(v)],
                                       {v \in Values : v > MaxValue})
    /\ run.count = SamplesOf(taken)
    /\ Recorded # {} => run.max \in Recorded /\ \A v \in Recorded : v <= run.max

HasLadder == summary \notin {<<>>, Absent}

(* No percentile of a summary is below the sample it stands for, also where *)
(* that sample had no slot; one that lies above what the slots can hold is  *)
(* in a summary that says so; and only a run without samples has no summary *)
(* (histogram.hpp:66-80, summary.hpp:26-29).                                *)
NeverUnderReports ==
  /\ summary = Absent => Recorded = {}
  /\ HasLadder => \A p \in Ladder :
       /\ summary.at[p] >= Exact(p)
       /\ Exact(p) > MaxValue => summary.overflow > 0

(* A percentile that has a slot is above the sample it stands for by at     *)
(* most one part in SubBuckets of it, the 0.781% of histogram.hpp:66-68.    *)
WithinTheBound ==
  HasLadder => \A p \in Ladder :
    Exact(p) <= MaxValue =>
      (summary.at[p] - Exact(p)) * SubBuckets <= Exact(p)
=============================================================================
